----------------------------- MODULE ChatProofs -----------------------------
(***************************************************************************)
(* Safety of the chat for every number of messages, conversations, runs of *)
(* loadMessages and copies of a request.                                   *)
(***************************************************************************)
EXTENDS Chat, TLAPS

USE ChatAssumption

\* What the page lists is there; a request to open the conversation that was
\* late has one to find, and none that was late inserts.
Known == convs.convs \subseteq There
LateFinds ==
  \A c \in Convs :
    /\ conv[c].late => There # {}
    /\ conv[c].phase \in {"insert", "there"} => ~conv[c].late

ChatInv == TypeOK /\ Known /\ LateFinds /\ StoredOnce

-----------------------------------------------------------------------------
\* A mark changes only what is fresh.
LEMMA ReadUpToKeeps ==
  ASSUME NEW x \in [Keys -> Message], NEW c
  PROVE  /\ ReadUpTo(x, c) \in [Keys -> Message]
         /\ \A k \in Keys : ReadUpTo(x, c)[k].rows = x[k].rows
<1>1. \A k \in Keys : [x[k] EXCEPT !.fresh = FALSE] \in Message
  BY DEF Message
<1>2. \A k \in Keys : [x[k] EXCEPT !.fresh = FALSE].rows = x[k].rows
  BY DEF Message
<1> QED BY <1>1, <1>2 DEF ReadUpTo

\* A message whose row is rewritten keeps the type of all.
LEMMA RowKeeps ==
  ASSUME TypeOK, NEW k \in Keys, NEW row \in Message
  PROVE  /\ [message EXCEPT ![k] = row] \in [Keys -> Message]
         /\ \A o \in Keys : [message EXCEPT ![k] = row][o].rows
                              = IF o = k THEN row.rows ELSE message[o].rows
  BY DEF TypeOK

\* A request for a conversation that is rewritten.
LEMMA ConvKeeps ==
  ASSUME TypeOK, Known, LateFinds, NEW c \in Convs, NEW to \in Conv,
         conv' = [conv EXCEPT ![c] = to],
         conv[c].phase # "there" \/ to.phase = "there",
         to.late => There # {},
         to.phase \in {"insert", "there"} => ~to.late
  PROVE  /\ conv' \in [Convs -> Conv] /\ There \subseteq There' /\ LateFinds'
         /\ to.phase = "there" => c \in There'
<1>1. conv' \in [Convs -> Conv]
  BY DEF TypeOK
<1>2. \A d \in Convs : conv'[d] = IF d = c THEN to ELSE conv[d]
  BY DEF TypeOK
<1>3. There \subseteq There'
  BY <1>2 DEF There
<1>4. LateFinds'
  BY <1>2, <1>3 DEF LateFinds
<1> QED BY <1>1, <1>2, <1>3, <1>4 DEF There

\* The rest of a step of the server on conversations.
LEMMA ConversationsKeep ==
  ASSUME ChatInv, conv' \in [Convs -> Conv], There \subseteq There', LateFinds',
         active' \in There' \cup {None},
         UNCHANGED <<message, begun, msgs, convs, sending, load>>
  PROVE  ChatInv'
<1>1. TypeOK'
  BY DEF ChatInv, TypeOK
<1> QED BY <1>1 DEF ChatInv, Known, StoredOnce

LEMMA CreatingKeeps ==
  ASSUME ChatInv, NEW c \in Convs, Creating(c)
  PROVE  ChatInv'
<1>0. TypeOK /\ Known /\ LateFinds /\ conv[c] \in Conv /\ active \in There \cup {None}
  BY DEF ChatInv, TypeOK
<1>1. CASE Ask(c)
  <2> DEFINE to == [phase |-> "asked", late |-> There # {}]
  <2>1. to \in Conv
    BY DEF Conv
  <2>2. conv' = [conv EXCEPT ![c] = to] /\ conv[c].phase = "none"
    BY <1>1 DEF Ask
  <2>3. conv' \in [Convs -> Conv] /\ There \subseteq There' /\ LateFinds'
    BY <1>0, <2>1, <2>2, ConvKeeps
  <2> QED BY <1>0, <1>1, <2>3, ConversationsKeep DEF Ask
<1>2. CASE Look(c)
  <2>1. CASE There = {} /\ conv' = [conv EXCEPT ![c].phase = "insert"] /\ UNCHANGED active
    <3> DEFINE to == [conv[c] EXCEPT !.phase = "insert"]
    <3>1. to \in Conv /\ to.late = conv[c].late /\ to.phase = "insert"
      BY <1>0 DEF Conv
    <3>2. ~conv[c].late
      BY <2>1, <1>0 DEF LateFinds
    <3>3. conv' = [conv EXCEPT ![c] = to]
      BY <2>1, <1>0 DEF TypeOK
    <3>4. conv' \in [Convs -> Conv] /\ There \subseteq There' /\ LateFinds'
      BY <1>0, <1>2, <3>1, <3>2, <3>3, ConvKeeps DEF Look
    <3> QED BY <1>0, <1>2, <2>1, <3>4, ConversationsKeep DEF Look
  <2>2. CASE /\ conv' = [conv EXCEPT ![c] = [phase |-> "none", late |-> FALSE]]
             /\ \E d \in There : Open(d)
    <3> DEFINE to == [phase |-> "none", late |-> FALSE]
    <3>1. to \in Conv
      BY DEF Conv
    <3>2. conv[c].phase # "there"
      BY <1>2 DEF Look
    <3>3. conv' \in [Convs -> Conv] /\ There \subseteq There' /\ LateFinds'
      BY <1>0, <2>2, <3>1, <3>2, ConvKeeps
    <3>4. active' \in There' \cup {None}
      BY <1>0, <2>2, <3>3 DEF Open
    <3> QED BY <1>2, <3>3, <3>4, ConversationsKeep DEF Look
  <2> QED BY <1>2, <2>1, <2>2 DEF Look
<1>3. CASE Insert(c)
  <2> DEFINE to == [conv[c] EXCEPT !.phase = "there"]
  <2>1. to \in Conv /\ to.late = conv[c].late /\ to.phase = "there"
    BY <1>0 DEF Conv
  <2>2. ~conv[c].late
    BY <1>0, <1>3 DEF Insert, LateFinds
  <2>3. conv' = [conv EXCEPT ![c] = to]
    BY <1>0, <1>3 DEF Insert, TypeOK
  <2>4. /\ conv' \in [Convs -> Conv] /\ There \subseteq There' /\ LateFinds'
        /\ c \in There'
    BY <1>0, <2>1, <2>2, <2>3, ConvKeeps
  <2>5. active' \in There' \cup {None}
    BY <1>0, <1>3, <2>4 DEF Insert, Open
  <2> QED BY <1>3, <2>4, <2>5, ConversationsKeep DEF Insert
<1> QED BY <1>1, <1>2, <1>3 DEF Creating

-----------------------------------------------------------------------------
\* A step that leaves the conversations alone.
LEMMA PageKeeps ==
  ASSUME ChatInv, UNCHANGED conv,
         message' \in [Keys -> Message], StoredOnce', begun' \in Nat,
         active' \in There \cup {None}, msgs' \subseteq Keys,
         convs' \in Listing, convs'.convs \subseteq There,
         sending' \in Mine \cup {None}, load' \in [Loads -> Load]
  PROVE  ChatInv'
<1>1. There' = There
  BY DEF There
<1>2. TypeOK'
  BY <1>1 DEF ChatInv, TypeOK
<1> QED BY <1>1, <1>2 DEF ChatInv, Known, LateFinds

\* What it may take of the rest that it leaves alone.
LEMMA ServerStays ==
  ASSUME ChatInv, UNCHANGED message
  PROVE  message' \in [Keys -> Message] /\ StoredOnce'
  BY DEF ChatInv, TypeOK, StoredOnce

LEMMA LoadRuns ==
  ASSUME TypeOK, NEW l \in Loads, NEW run \in Load
  PROVE  [load EXCEPT ![l] = run] \in [Loads -> Load]
  BY DEF TypeOK

LEMMA LoadMessagesTyped ==
  ASSUME TypeOK, NEW l \in Loads, NEW c \in Convs \cup {None}, NEW own \in BOOLEAN,
         LoadMessages(l, c, own)
  PROVE  load' \in [Loads -> Load]
<1>1. [phase |-> "got", conv |-> c, keys |-> Messages(c), own |-> own] \in Load
  BY DEF Load, Messages
<1> QED BY <1>1, LoadRuns DEF LoadMessages

LEMMA LoadEndsTyped ==
  ASSUME TypeOK, NEW l \in Loads, LoadEnds(l)
  PROVE  load' \in [Loads -> Load] /\ sending' \in Mine \cup {None}
<1>1. NoLoad \in Load
  BY DEF NoLoad, Load
<1> QED BY <1>1, LoadRuns DEF LoadEnds, TypeOK

LEMMA LoadingKeeps ==
  ASSUME ChatInv, NEW l \in Loads, PollMessages(l) \/ Loading(l)
  PROVE  ChatInv'
<1>0. /\ TypeOK /\ Known /\ load[l] \in Load /\ message \in [Keys -> Message]
      /\ active \in There \cup {None} /\ convs \in Listing /\ convs.convs \subseteq There
      /\ msgs \subseteq Keys /\ sending \in Mine \cup {None} /\ begun \in Nat
  BY DEF ChatInv, TypeOK, Known
<1>1. CASE PollMessages(l)
  <2>1. active \in Convs \cup {None}
    BY <1>0 DEF There
  <2>2. load' \in [Loads -> Load]
    BY <1>0, <1>1, <2>1, LoadMessagesTyped DEF PollMessages
  <2> QED BY <1>0, <1>1, <2>2, ServerStays, PageKeeps DEF PollMessages
<1>2. CASE MessagesArrive(l)
  <2>1. [load[l] EXCEPT !.phase = "mark", !.keys = {}] \in Load
    BY <1>0 DEF Load
  <2>2. load' = [load EXCEPT ![l] = [load[l] EXCEPT !.phase = "mark", !.keys = {}]]
    BY <1>0, <1>2 DEF MessagesArrive, TypeOK, Load
  <2>3. load' \in [Loads -> Load]
    BY <1>0, <2>1, <2>2, LoadRuns
  <2>4. msgs' \subseteq Keys
    BY <1>0, <1>2 DEF MessagesArrive, Load
  <2> QED BY <1>0, <1>2, <2>3, <2>4, ServerStays, PageKeeps DEF MessagesArrive
<1>3. CASE MarkRead(l)
  <2>1. load' \in [Loads -> Load] /\ sending' \in Mine \cup {None}
    BY <1>0, <1>3, LoadEndsTyped DEF MarkRead
  <2>2. message' \in [Keys -> Message] /\ StoredOnce'
    <3>1. CASE message' = message
      BY <3>1, ServerStays
    <3>2. CASE message' = ReadUpTo(message, load[l].conv)
      BY <1>0, <3>2, ReadUpToKeeps DEF ChatInv, StoredOnce
    <3> QED BY <1>3, <3>1, <3>2 DEF MarkRead
  <2> QED BY <1>0, <1>3, <2>1, <2>2, PageKeeps DEF MarkRead
<1>4. CASE LoadFails(l)
  <2>1. load' \in [Loads -> Load] /\ sending' \in Mine \cup {None}
    BY <1>0, <1>4, LoadEndsTyped DEF LoadFails
  <2> QED BY <1>0, <1>4, <2>1, ServerStays, PageKeeps DEF LoadFails
<1> QED BY <1>1, <1>2, <1>3, <1>4 DEF Loading

-----------------------------------------------------------------------------
\* A message stored at most once.
Once(row) == \A a, b \in row.rows : a = b

\* A message rewritten without another row stored.
LEMMA RewriteKeeps ==
  ASSUME ChatInv, NEW k \in Keys, NEW row \in Message,
         message' = [message EXCEPT ![k] = row], Once(row)
  PROVE  message' \in [Keys -> Message] /\ StoredOnce'
<1>1. /\ message' \in [Keys -> Message]
      /\ \A o \in Keys : message'[o].rows = IF o = k THEN row.rows ELSE message[o].rows
  BY RowKeeps DEF ChatInv
<1> QED BY <1>1 DEF ChatInv, StoredOnce, Once

\* So does one whose transaction begins.
LEMMA BeginKeeps ==
  ASSUME ChatInv, NEW k \in Keys, NEW m \in Message, m.rows = message[k].rows, Begin(k, m)
  PROVE  message' \in [Keys -> Message] /\ StoredOnce' /\ begun' \in Nat
<1> DEFINE row == [m EXCEPT !.open = @ \cup {begun}]
<1>0. begun \in Nat
  BY DEF ChatInv, TypeOK
<1>1. row \in Message /\ row.rows = message[k].rows
  BY <1>0 DEF Message
<1>2. Once(row)
  BY <1>1 DEF ChatInv, StoredOnce, Once
<1>3. message' = [message EXCEPT ![k] = row] /\ begun' = begun + 1
  BY DEF Begin
<1>4. message' \in [Keys -> Message] /\ StoredOnce'
  BY <1>1, <1>2, <1>3, RewriteKeeps
<1> QED BY <1>0, <1>3, <1>4

LEMMA SendingKeeps ==
  ASSUME ChatInv, NEW k \in Keys,
         \/ k \in Mine /\ (Send(k) \/ Handle(k) \/ Sends(k))
         \/ k \in Theirs /\ Receive(k)
         \/ Commit(k)
  PROVE  ChatInv'
<1>0. /\ TypeOK /\ Known /\ message[k] \in Message /\ message \in [Keys -> Message]
      /\ active \in There \cup {None} /\ convs \in Listing /\ convs.convs \subseteq There
      /\ msgs \subseteq Keys /\ sending \in Mine \cup {None} /\ load \in [Loads -> Load]
      /\ begun \in Nat /\ Once(message[k]) /\ There \subseteq Convs
  BY DEF ChatInv, TypeOK, Known, StoredOnce, Once, There
<1>1. CASE k \in Mine /\ Send(k)
  <2> DEFINE row == [message[k] EXCEPT !.conv = active]
  <2>1. row \in Message /\ Once(row)
    BY <1>0 DEF Message, Once
  <2>2. message' = [message EXCEPT ![k] = row]
    BY <1>0, <1>1 DEF Send, Message
  <2>3. message' \in [Keys -> Message] /\ StoredOnce'
    BY <1>0, <2>1, <2>2, RewriteKeeps
  <2> QED BY <1>0, <1>1, <2>3, PageKeeps DEF Send
<1>2. CASE k \in Mine /\ Handle(k)
  <2>1. message' \in [Keys -> Message] /\ StoredOnce' /\ begun' \in Nat
    BY <1>0, <1>2, BeginKeeps DEF Handle
  <2> QED BY <1>0, <1>2, <2>1, PageKeeps DEF Handle, Begin
<1>3. CASE k \in Mine /\ Sends(k)
  <2>1. CASE Answered(k)
    <3>1. message[k].conv \in Convs \cup {None}
      BY <1>0 DEF Message
    <3>2. load' \in [Loads -> Load]
      BY <1>0, <2>1, <3>1, LoadMessagesTyped DEF Answered
    <3> QED BY <1>0, <2>1, <3>2, ServerStays, PageKeeps DEF Answered
  <2>2. CASE SendFails(k)
    BY <1>0, <2>2, ServerStays, PageKeeps DEF SendFails
  <2> QED BY <1>3, <2>1, <2>2 DEF Sends
<1>4. CASE k \in Theirs /\ Receive(k)
  <2>1. PICK c \in There : Begin(k, [message[k] EXCEPT !.conv = c, !.fresh = TRUE])
    BY <1>4 DEF Receive
  <2>2. /\ [message[k] EXCEPT !.conv = c, !.fresh = TRUE] \in Message
        /\ [message[k] EXCEPT !.conv = c, !.fresh = TRUE].rows = message[k].rows
    BY <1>0 DEF Message
  <2>3. message' \in [Keys -> Message] /\ StoredOnce' /\ begun' \in Nat
    BY <2>1, <2>2, BeginKeeps
  <2> QED BY <1>0, <2>1, <2>3, PageKeeps DEF Begin
<1>5. CASE Commit(k)
  <2>1. message' \in [Keys -> Message] /\ StoredOnce'
    <3>0. PICK t \in message[k].open :
            \/ ~Stored(k) /\ Stores(k, t)
            \/ message' = [message EXCEPT ![k].open = @ \ {t}]
      BY <1>5 DEF Commit
    <3>1. CASE ~Stored(k) /\ Stores(k, t)
      <4> DEFINE row == [message[k] EXCEPT !.open = @ \ {t}, !.rows = @ \cup {t}]
                 sent == [message EXCEPT ![k] = row]
      <4>1. row \in Message /\ row.rows = {t}
        BY <1>0, <3>0, <3>1 DEF Message, Stored
      <4>2. sent = [message EXCEPT ![k].open = @ \ {t}, ![k].rows = @ \cup {t}]
        BY <1>0 DEF Message
      <4>3. /\ sent \in [Keys -> Message]
            /\ \A o \in Keys : sent[o].rows = IF o = k THEN {t} ELSE message[o].rows
        BY <1>0, <4>1, RowKeeps
      <4>4. message' = IF k \in Mine THEN ReadUpTo(sent, message[k].conv) ELSE sent
        BY <3>1, <4>2 DEF Stores
      <4>5. /\ message' \in [Keys -> Message]
            /\ \A o \in Keys : message'[o].rows = sent[o].rows
        BY <4>3, <4>4, ReadUpToKeeps
      <4> HIDE DEF row, sent
      <4> QED BY <4>3, <4>5 DEF ChatInv, StoredOnce
    <3>2. CASE message' = [message EXCEPT ![k].open = @ \ {t}]
      <4> DEFINE row == [message[k] EXCEPT !.open = @ \ {t}]
      <4>1. row \in Message /\ Once(row)
        BY <1>0 DEF Message, Once
      <4>2. message' = [message EXCEPT ![k] = row]
        BY <1>0, <3>2 DEF Message
      <4> QED BY <1>0, <4>1, <4>2, RewriteKeeps
    <3> QED BY <3>0, <3>1, <3>2
  <2> QED BY <1>0, <1>5, <2>1, PageKeeps DEF Commit
<1> QED BY <1>1, <1>2, <1>3, <1>4, <1>5

-----------------------------------------------------------------------------
LEMMA ChatStep == ChatInv /\ [Next]_vars => ChatInv'
<1> SUFFICES ASSUME ChatInv, [Next]_vars PROVE ChatInv'
  OBVIOUS
<1>0. /\ TypeOK /\ Known /\ message \in [Keys -> Message]
      /\ active \in There \cup {None} /\ convs \in Listing /\ convs.convs \subseteq There
      /\ msgs \subseteq Keys /\ sending \in Mine \cup {None} /\ load \in [Loads -> Load]
      /\ begun \in Nat
  BY DEF ChatInv, TypeOK, Known
<1>1. CASE LoadConvs
  <2>1. convs' \in Listing /\ convs'.convs \subseteq There
    BY <1>1 DEF LoadConvs, Listing, There, Unread
  <2> QED BY <1>0, <1>1, <2>1, ServerStays, PageKeeps DEF LoadConvs
<1>2. CASE Select
  BY <1>0, <1>2, ServerStays, PageKeeps DEF Select
<1>3. CASE UNCHANGED vars
  BY <1>0, <1>3, ServerStays, PageKeeps DEF vars
<1> QED BY <1>1, <1>2, <1>3, CreatingKeeps, LoadingKeeps, SendingKeeps DEF Next, Keys

\* The inductive invariant: what is listed is there, and a late request for
\* the conversation has one to find.
THEOREM ChatInvariant == Spec => []ChatInv
<1>1. Init => ChatInv
  <2> SUFFICES ASSUME Init PROVE ChatInv
    OBVIOUS
  <2>1. [conv |-> None, open |-> {}, rows |-> {}, fresh |-> FALSE] \in Message
    BY DEF Message
  <2>2. [phase |-> "none", late |-> FALSE] \in Conv /\ NoLoad \in Load
    BY DEF Conv, NoLoad, Load
  <2>3. TypeOK
    BY <2>1, <2>2 DEF Init, TypeOK, Listing
  <2> QED BY <2>3 DEF Init, ChatInv, Known, LateFinds, StoredOnce
<1> QED BY <1>1, ChatStep, PTL DEF Spec

\* Every variable keeps its type, and the open conversation exists.
THEOREM TypeCorrect == Spec => []TypeOK
<1>1. ChatInv => TypeOK
  BY DEF ChatInv
<1> QED BY <1>1, ChatInvariant, PTL

\* send_message: one row for a key, for any number of copies of its request.
THEOREM MessagesAreStoredOnce == Spec => []StoredOnce
<1>1. ChatInv => StoredOnce
  BY DEF ChatInv
<1> QED BY <1>1, ChatInvariant, PTL

\* create_conversation: only requests that overlapped make a second one.
THEOREM OnlyOverlapsDuplicate == Spec => []DuplicatesOverlap
<1>1. ChatInv => DuplicatesOverlap
  BY DEF ChatInv, LateFinds, DuplicatesOverlap, There
<1> QED BY <1>1, ChatInvariant, PTL
=============================================================================
