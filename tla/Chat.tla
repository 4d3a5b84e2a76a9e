-------------------------------- MODULE Chat --------------------------------
(***************************************************************************)
(* The chat: backend/app/api/v1/chat.py on the tables of entities.py, and  *)
(* the page that polls it, pages/student/MessagesPage.tsx, which the       *)
(* portal has again as pages/portal/ChatPage.tsx.                          *)
(*                                                                         *)
(* One student's page is open; the person it talks to acts at the server.  *)
(* Both may open the direct conversation of the two at the same time, and  *)
(* nothing but a look beforehand keeps them from making one each.  The     *)
(* page asks for the list of conversations, and for the messages of the    *)
(* open one, again and again; answers overtake each other.                 *)
(*                                                                         *)
(* A message is named by its idempotency key.  It is created when its      *)
(* transaction begins: transactions are named by the order in which they   *)
(* did.  What the unread count has to know of a message is whether it      *)
(* began after the student last read (fresh).  The clock read for          *)
(* last_read_at and its commit are one step.  A request answered with 429  *)
(* and repeated is a request that takes longer.                            *)
(*                                                                         *)
(* The page asks for the latest messages only, and has no way to ask for   *)
(* earlier ones: what it can show is the latest Limit of a conversation.   *)
(***************************************************************************)
EXTENDS Naturals, FiniteSets

CONSTANTS Convs,      \* bound: requests for a conversation, and what they make
          Mine, Theirs,  \* bound: the messages of each
          Loads,      \* bound: runs of loadMessages at a time
          Limit,      \* the messages the page asks for, which are 80
          MaxBegins   \* bound: transactions that insert a message

ASSUME ChatAssumption ==
  /\ Mine \cap Theirs = {}
  /\ Limit \in Nat \ {0}
  /\ MaxBegins \in Nat
  /\ "none" \notin Convs \cup Mine

None == "none"
Keys == Mine \cup Theirs

VARIABLES
  conv,     \* the conversations of the two, and the requests that make them
  message,  \* the messages
  begun,    \* transactions that insert a message, so far
  active,   \* activeId
  msgs,     \* the bubbles shown, those not yet sent among them
  convs,    \* the list shown: conversations and unread messages
  sending,  \* the message send() is working on
  load      \* runs of loadMessages

vars == <<conv, message, begun, active, msgs, convs, sending, load>>

\* late: there was a conversation when the request was sent (history).
Conv == [phase: {"none", "asked", "insert", "there"}, late: BOOLEAN]

\* open: transactions about to insert it; rows: those that have, by created_at.
Message == [conv: Convs \cup {None}, open: SUBSET Nat, rows: SUBSET Nat, fresh: BOOLEAN]
Load == [phase: {"idle", "got", "mark"}, conv: Convs \cup {None},
         keys: SUBSET Keys, own: BOOLEAN]
NoLoad == [phase |-> "idle", conv |-> None, keys |-> {}, own |-> FALSE]
Listing == [convs: SUBSET Convs, unread: SUBSET Theirs]

-----------------------------------------------------------------------------
(* What the server answers.                                                *)

There == {c \in Convs : conv[c].phase = "there"}
Stored(k) == message[k].rows # {}

\* list_messages, for the page: the latest by created_at, up to the limit.
Created(j, k) == \E a \in message[j].rows, b \in message[k].rows : a < b
Messages(c) ==
  LET stored == {k \in Keys : Stored(k) /\ message[k].conv = c}
  IN  {k \in stored : Cardinality({j \in stored : Created(k, j)}) < Limit}

\* The unread count of list_conversations.
Unread == {k \in Theirs : Stored(k) /\ message[k].fresh}

\* last_read_at becomes the time of the clock.
ReadUpTo(m, c) ==
  [k \in Keys |-> IF m[k].conv = c THEN [m[k] EXCEPT !.fresh = FALSE] ELSE m[k]]

-----------------------------------------------------------------------------
(* create_conversation.                                                    *)

\* startChatWith of either; nothing stops a second tap.
Ask(c) ==
  /\ conv[c].phase = "none"
  /\ conv' = [conv EXCEPT ![c] = [phase |-> "asked", late |-> There # {}]]
  /\ UNCHANGED <<message, begun, active, msgs, convs, sending, load>>

\* The page of the student who asked opens the answer; that of the other, and
\* an answer that is lost, change nothing here.
Open(c) == active' \in {active, c}

\* Mutant: the check for an existing conversation is left out.
LookUnchecked(c) ==
  /\ conv[c].phase = "asked"
  /\ conv' = [conv EXCEPT ![c].phase = "insert"]
  /\ UNCHANGED <<message, begun, active, msgs, convs, sending, load>>

\* A direct conversation of exactly these two is the answer.
Look(c) ==
  /\ conv[c].phase = "asked"
  /\ \/ /\ There = {}
        /\ conv' = [conv EXCEPT ![c].phase = "insert"]
        /\ UNCHANGED active
     \/ /\ conv' = [conv EXCEPT ![c] = [phase |-> "none", late |-> FALSE]]
        /\ \E d \in There : Open(d)
  /\ UNCHANGED <<message, begun, msgs, convs, sending, load>>

\* The conversation and its participants, in one commit.
Insert(c) ==
  /\ conv[c].phase = "insert"
  /\ conv' = [conv EXCEPT ![c].phase = "there"]
  /\ Open(c)
  /\ UNCHANGED <<message, begun, msgs, convs, sending, load>>

-----------------------------------------------------------------------------
(* The list of conversations.                                              *)

\* loadConvs, every five seconds, on focus and after a mark.  Its answer shows
\* as soon as it is read: shown late it would only be out of date longer.
LoadConvs ==
  /\ convs' = [convs |-> There, unread |-> Unread]
  /\ UNCHANGED <<conv, message, begun, active, msgs, sending, load>>

\* The tap on a conversation, or the way back.  A run of loadMessages for the
\* conversation before is not stopped.
Select ==
  /\ \E c \in convs.convs \cup {None} : c # active /\ active' = c
  /\ UNCHANGED <<conv, message, begun, msgs, convs, sending, load>>

-----------------------------------------------------------------------------
(* The messages of the open conversation.                                  *)

\* loadMessages(c), for send() if own: what list_messages answers is on its way.
LoadMessages(l, c, own) ==
  /\ load[l].phase = "idle"
  /\ load' = [load EXCEPT ![l] =
       [phase |-> "got", conv |-> c, keys |-> Messages(c), own |-> own]]

\* Mutant: the messages are loaded once, while the bubbles are empty.
PollOnce(l) ==
  /\ active # None
  /\ msgs = {}
  /\ LoadMessages(l, active, FALSE)
  /\ UNCHANGED <<conv, message, begun, active, msgs, convs, sending>>

\* The effect of activeId, at once and every three seconds.
PollMessages(l) ==
  /\ active # None
  /\ LoadMessages(l, active, FALSE)
  /\ UNCHANGED <<conv, message, begun, active, msgs, convs, sending>>

\* Mutant: the answer is added to what is shown.
MessagesArriveMerged(l) ==
  /\ load[l].phase = "got"
  /\ msgs' = msgs \cup load[l].keys
  /\ load' = [load EXCEPT ![l].phase = "mark", ![l].keys = {}]
  /\ UNCHANGED <<conv, message, begun, active, convs, sending>>

\* The answer is shown, whatever conversation is open by then.
MessagesArrive(l) ==
  /\ load[l].phase = "got"
  /\ msgs' = load[l].keys
  /\ load' = [load EXCEPT ![l].phase = "mark", ![l].keys = {}]
  /\ UNCHANGED <<conv, message, begun, active, convs, sending>>

\* The end of a run; send() has waited for its own.
LoadEnds(l) ==
  /\ load' = [load EXCEPT ![l] = NoLoad]
  /\ sending' = IF load[l].own THEN None ELSE sending

\* mark_read, and the list again; a mark that fails is passed over.
MarkRead(l) ==
  /\ load[l].phase = "mark"
  /\ message' \in {message, ReadUpTo(message, load[l].conv)}
  /\ LoadEnds(l)
  /\ UNCHANGED <<conv, begun, active, msgs, convs>>

LoadFails(l) ==
  /\ load[l].phase = "got"
  /\ LoadEnds(l)
  /\ UNCHANGED <<conv, message, begun, active, msgs, convs>>

-----------------------------------------------------------------------------
(* send_message.                                                           *)

\* The request of send() has not been answered.
Waiting(k) == sending = k /\ \A l \in Loads : ~load[l].own

\* send(): the bubble first, under a fresh key.
Send(k) ==
  /\ active # None
  /\ sending = None
  /\ message[k].conv = None
  /\ sending' = k
  /\ message' = [message EXCEPT ![k].conv = active]
  /\ msgs' = msgs \cup {k}
  /\ UNCHANGED <<conv, begun, active, convs, load>>

\* A transaction begins; created_at of what it inserts is this moment.
Begin(k, m) ==
  /\ begun < MaxBegins
  /\ begun' = begun + 1
  /\ message' = [message EXCEPT ![k] = [m EXCEPT !.open = @ \cup {begun}]]
  /\ UNCHANGED <<conv, active, msgs, convs, sending, load>>

\* The other sends.
Receive(k) ==
  /\ message[k].conv = None
  /\ \E c \in There : Begin(k, [message[k] EXCEPT !.conv = c, !.fresh = TRUE])

\* The key was looked for and not found.  The network may deliver the request
\* twice, or after the page has given it up.
Handle(k) ==
  /\ message[k].conv # None
  /\ ~Stored(k)
  /\ Begin(k, message[k])

\* The row, and for the sender the mark, in one commit.
Stores(k, t) ==
  message' = LET sent == [message EXCEPT ![k].open = @ \ {t}, ![k].rows = @ \cup {t}] IN
             IF k \in Mine THEN ReadUpTo(sent, message[k].conv) ELSE sent

\* Mutant: the key is not unique.
CommitTwice(k) ==
  /\ \E t \in message[k].open : Stores(k, t)
  /\ UNCHANGED <<conv, begun, active, msgs, convs, sending, load>>

\* The key is unique: of a second transaction nothing stays.
Commit(k) ==
  /\ \E t \in message[k].open :
       \/ /\ ~Stored(k)
          /\ Stores(k, t)
       \/ message' = [message EXCEPT ![k].open = @ \ {t}]
  /\ UNCHANGED <<conv, begun, active, msgs, convs, sending, load>>

\* The row is stored, by this request or an earlier copy, and the answer
\* arrives: the page loads the conversation it was sent in.
Answered(k) ==
  /\ Waiting(k)
  /\ Stored(k)
  /\ \E l \in Loads : LoadMessages(l, message[k].conv, TRUE)
  /\ UNCHANGED <<conv, message, begun, active, msgs, convs, sending>>

\* An error, a lost answer or the timeout.  The bubble stays until the next
\* messages, and what the server has begun goes on.
SendFails(k) ==
  /\ Waiting(k)
  /\ sending' = None
  /\ UNCHANGED <<conv, message, begun, active, msgs, convs, load>>

-----------------------------------------------------------------------------
Init ==
  /\ conv = [c \in Convs |-> [phase |-> "none", late |-> FALSE]]
  /\ message = [k \in Keys |-> [conv |-> None, open |-> {}, rows |-> {}, fresh |-> FALSE]]
  /\ begun = 0
  /\ active = None
  /\ msgs = {}
  /\ convs = [convs |-> {}, unread |-> {}]
  /\ sending = None
  /\ load = [l \in Loads |-> NoLoad]

Creating(c) == Ask(c) \/ Look(c) \/ Insert(c)
Loading(l) == MessagesArrive(l) \/ MarkRead(l) \/ LoadFails(l)
Sends(k) == Answered(k) \/ SendFails(k)

Next ==
  \/ \E c \in Convs : Creating(c)
  \/ LoadConvs \/ Select
  \/ \E l \in Loads : PollMessages(l) \/ Loading(l)
  \/ \E k \in Mine : Send(k) \/ Handle(k) \/ Sends(k)
  \/ \E k \in Theirs : Receive(k)
  \/ \E k \in Keys : Commit(k)

Spec == Init /\ [][Next]_vars

\* The intervals run while the page is open, every request ends by its
\* timeout, and requests that are made again and again do not all fail.
FairSpec ==
  /\ Spec
  /\ WF_vars(LoadConvs)
  /\ \A l \in Loads :
       /\ WF_vars(PollMessages(l)) /\ WF_vars(Loading(l))
       /\ SF_vars(MessagesArrive(l))
  /\ \A k \in Mine : WF_vars(Sends(k))

-----------------------------------------------------------------------------
TypeOK ==
  /\ conv \in [Convs -> Conv]
  /\ message \in [Keys -> Message]
  /\ begun \in Nat
  /\ active \in There \cup {None}
  /\ msgs \subseteq Keys
  /\ convs \in Listing
  /\ sending \in Mine \cup {None}
  /\ load \in [Loads -> Load]

\* A message is stored at most once however often its request reaches the
\* server, also when two copies pass the look for the key together.
StoredOnce == \A k \in Keys : \A a, b \in message[k].rows : a = b

\* Two conversations of the same two come from requests that overlapped: one
\* sent when there was a conversation never makes another.
DuplicatesOverlap == \A c \in There : ~conv[c].late

\* A message stored in the conversation that is open is shown, or the student
\* leaves, or so many newer ones are stored that the page cannot get at it: a mark
\* that overtakes it does not hide it from who stays.
OpenIsShown ==
  \A k \in Theirs : \A c \in Convs :
    (Stored(k) /\ message[k].conv = c /\ active = c)
      ~> (k \in msgs \/ active # c \/ k \notin Messages(c))

\* Once nothing is sent or opened any more, the page shows the latest of what is
\* stored, as many as it asks for: no stale answer and no bubble that failed stays,
\* the counts are right, and the input is free, also after a request that failed.
ChatSettles ==
  <>[][UNCHANGED <<There, active, sending, [k \in Keys |-> message[k].rows]>>]_vars
    => <>[](/\ sending = None
            /\ active # None => msgs = Messages(active)
            /\ convs = [convs |-> There, unread |-> Unread])
=============================================================================
