----------------------------- MODULE ChatArchive -----------------------------
(***************************************************************************)
(* The archive of one conversation in MongoDB: a document that counts its  *)
(* messages and hands out their sequence numbers, and the messages, all    *)
(* with a time of expiry (chat-persist.consumer.ts and                     *)
(* chat-persistence.repository.ts of src/modules/chat), as the merchant's  *)
(* dashboard shows them (dashboard.service.ts).                            *)
(*                                                                         *)
(* Turns are numbered in the order in which they were answered.  The two   *)
(* writes of a turn are one transaction, and MessageHandler delivers each  *)
(* turn once, in any order.  Time is counted in days.                      *)
(***************************************************************************)
EXTENDS Integers, FiniteSets, Sequences

CONSTANTS
    MaxTurns,       \* bound: turns in a behaviour
    Retentions,     \* the retentions of the plans, in days or Unlimited
    PageSizes,      \* limits that the dashboard asks for
    MESSAGES_LIMIT_MAX,
    MaxDays,        \* bound: days in a behaviour
    MaxPlanChanges  \* bound: changes of the store's plan

Unlimited == 0      \* -1 in the plans
Never == MaxDays + 1000   \* later than the retention of any plan
NoConversation == [count |-> 0, expires |-> 0]
NotRead == 0

VARIABLES
    conversation,   \* the document, or NoConversation
    messages,       \* the documents of the messages
    turns,          \* turns answered so far
    blank,          \* the turns whose reply has no text
    waiting,        \* turns in the queue, and those being archived
    expiresOf,      \* the expiry that was chosen for a turn being archived
    dead,           \* turns in the dead-letter queue
    retention,      \* of the store's plan now
    today, changes,
    met             \* ghost: what may spoil the order of the archive

vars == <<conversation, messages, turns, blank, waiting, expiresOf, dead, retention,
          today, changes, met>>

Init ==
    /\ conversation = NoConversation /\ messages = {}
    /\ turns = 0 /\ blank = {} /\ waiting = {} /\ dead = {}
    /\ expiresOf = [t \in 1..MaxTurns |-> NotRead]
    /\ retention \in Retentions
    /\ today = 1 /\ changes = 0 /\ met = {}

-------------------------------------------------------------------------------
(* triggerPersist: nobody waits for it.  A reply is blank when it is       *)
(* nothing but the tag for its cards.                                      *)
PublishTurn ==
    /\ turns < MaxTurns /\ turns' = turns + 1
    /\ waiting' = waiting \cup {turns'}
    /\ \E b \in BOOLEAN : blank' = IF b THEN blank \cup {turns'} ELSE blank
    /\ UNCHANGED <<conversation, messages, expiresOf, dead, retention, today, changes, met>>

ExpiryAfter(days) == IF days = Unlimited THEN Never ELSE today + days

(* The retention of the plan, of today.                                    *)
ChooseExpiry(t) ==
    /\ t \in waiting /\ expiresOf[t] = NotRead
    /\ expiresOf' = [expiresOf EXCEPT ![t] = ExpiryAfter(retention)]
    /\ UNCHANGED <<conversation, messages, turns, blank, waiting, dead, retention, today,
                   changes, met>>

(* Mutant: $set instead of $max, the expiry of the last turn wins.         *)
LastExpiry(old, expires) == expires

(* $max over an expiry, and over none it is just set; without a limit the  *)
(* expiry is $unset.                                                       *)
ExpiryOfConversation(old, expires) ==
    IF expires = Never THEN Never
    ELSE IF old.count = 0 \/ old.expires = Never \/ old.expires < expires THEN expires
    ELSE old.expires

PERSISTED_MESSAGES_PER_TURN == 2

ReserveConversationSequence(old, expires) ==
    [count |-> old.count + PERSISTED_MESSAGES_PER_TURN,
     expires |-> ExpiryOfConversation(old, expires)]

FirstSequence(reserved) == reserved.count - PERSISTED_MESSAGES_PER_TURN

MessagesOfTurn(t, reserved, expires) ==
    {[turn |-> t, role |-> "user", sequence |-> FirstSequence(reserved), expires |-> expires],
     [turn |-> t, role |-> "assistant", sequence |-> reserved.count - 1, expires |-> expires]}

(* The transaction.  Two of one conversation at a time conflict, and one   *)
(* is tried again.                                                         *)
ArchiveTurn(t) ==
    /\ t \in waiting \ blank /\ expiresOf[t] # NotRead
    /\ LET reserved == ReserveConversationSequence(conversation, expiresOf[t]) IN
         /\ conversation' = reserved
         /\ messages' = messages \cup MessagesOfTurn(t, reserved, expiresOf[t])
    /\ waiting' = waiting \ {t}
    /\ expiresOf' = [expiresOf EXCEPT ![t] = NotRead]
    /\ met' = met \cup (IF \E u \in waiting \ blank : u < t THEN {"overtaken"} ELSE {})
                  \cup (IF conversation.expires = Never /\ expiresOf[t] # Never
                        THEN {"limited"} ELSE {})
                  \cup (IF conversation = NoConversation /\ messages # {}
                        THEN {"restarted"} ELSE {})
    /\ UNCHANGED <<turns, blank, dead, retention, today, changes>>

(* The schema requires a content, and '' is none: the transaction is       *)
(* undone, tried again and dead-lettered.                                  *)
RejectTurn(t) ==
    /\ t \in waiting \cap blank /\ expiresOf[t] # NotRead
    /\ waiting' = waiting \ {t} /\ dead' = dead \cup {t}
    /\ expiresOf' = [expiresOf EXCEPT ![t] = NotRead]
    /\ UNCHANGED <<conversation, messages, turns, blank, retention, today, changes, met>>

-------------------------------------------------------------------------------
(* MongoDB's TTL monitor deletes what has expired, each document at a time *)
(* of its own.                                                             *)
ExpireConversation ==
    /\ conversation # NoConversation /\ conversation.expires <= today
    /\ conversation' = NoConversation
    /\ UNCHANGED <<messages, turns, blank, waiting, expiresOf, dead, retention, today,
                   changes, met>>

ExpireMessage ==
    /\ \E m \in messages : m.expires <= today /\ messages' = messages \ {m}
    /\ UNCHANGED <<conversation, turns, blank, waiting, expiresOf, dead, retention, today,
                   changes, met>>

NextDay ==
    /\ today < MaxDays /\ today' = today + 1
    /\ UNCHANGED <<conversation, messages, turns, blank, waiting, expiresOf, dead, retention,
                   changes, met>>

ChangePlan ==
    /\ changes < MaxPlanChanges /\ changes' = changes + 1
    /\ retention' \in Retentions \ {retention}
    /\ UNCHANGED <<conversation, messages, turns, blank, waiting, expiresOf, dead, today, met>>

Next ==
    \/ PublishTurn
    \/ \E t \in 1..turns : ChooseExpiry(t) \/ ArchiveTurn(t) \/ RejectTurn(t)
    \/ ExpireConversation \/ ExpireMessage \/ NextDay \/ ChangePlan

Spec == Init /\ [][Next]_vars

-------------------------------------------------------------------------------
(* getChatConversation: a page of the messages by sequence number, of all  *)
(* that are stored: what has expired is listed until it is deleted.        *)

(* Mutant: a page may be as long as was asked for.                         *)
AnyLimit(limit) == limit

Least(m, n) == IF m < n THEN m ELSE n

SafeLimit(limit) == Least(IF limit < 1 THEN 1 ELSE limit, MESSAGES_LIMIT_MAX)

(* Mutant: the newest messages come first.                                 *)
After(m, n, ties) ==
    m.sequence > n.sequence \/ (m.sequence = n.sequence /\ m.turn > n.turn)

(* The sort, by number.  Of two with one number either may come first: at  *)
(* the numbers in ties it is that of the later turn.                       *)
Before(m, n, ties) ==
    \/ m.sequence < n.sequence
    \/ m.sequence = n.sequence /\ m.sequence \notin ties /\ m.turn < n.turn
    \/ m.sequence = n.sequence /\ m.sequence \in ties /\ m.turn > n.turn

Sorted(kept, ties) ==
    [i \in 1..Cardinality(kept) |->
        CHOOSE m \in kept : Cardinality({n \in kept : Before(n, m, ties)}) = i - 1]

ListMessages(kept, ties, limit, skip) ==
    SubSeq(Sorted(kept, ties), skip + 1, Least(skip + limit, Cardinality(kept)))

(* A reader turns page after page.                                         *)
Skipped(size, nth) == (nth - 1) * SafeLimit(size)

Page(ties, size, nth) == ListMessages(messages, ties, SafeLimit(size), Skipped(size, nth))

Unexpired == {m \in messages : m.expires > today}

ArchiveTypeOK ==
    /\ conversation.count \in 0..(2 * MaxTurns)
    /\ \A m \in messages : /\ m.turn \in 1..turns /\ m.role \in {"user", "assistant"}
                           /\ m.sequence \in 0..(2 * MaxTurns - 1)
    /\ waiting \subseteq 1..turns /\ blank \subseteq 1..turns /\ dead \subseteq blank
    /\ retention \in Retentions /\ today \in 1..MaxDays
    /\ \A size \in PageSizes : SafeLimit(size) \in 1..MESSAGES_LIMIT_MAX

(* No message outlives its conversation, so that the dashboard finds what  *)
(* is retained, and sequence numbers do not start again over messages that *)
(* are there: as long as the retention has not become limited after it was *)
(* unlimited.                                                              *)
RetainedIsFound ==
    "limited" \notin met => \A m \in Unexpired : conversation.expires >= m.expires

SaidBefore(m, n) ==
    m.turn < n.turn \/ (m.turn = n.turn /\ m.role = "user" /\ n.role = "assistant")

(* What can be read in its order: all that is stored, until the numbers    *)
(* start again over messages that have expired and are still there.  From  *)
(* then on it is what is retained, unless that had become limited.         *)
Readable ==
    {m \in messages : "restarted" \in met => "limited" \notin met /\ m \in Unexpired}

Ties == {m.sequence : m \in {m \in messages : \E n \in messages :
                                 n # m /\ n.sequence = m.sequence}}

(* Page after page, the dashboard shows every message that is stored, no   *)
(* matter in which order MongoDB returns two with one number, as long as   *)
(* it is the same one for every page; each of them once, and those that    *)
(* can be read as they were said, the customer before the assistant:       *)
(* unless a turn was archived before an earlier one.                       *)
TranscriptReadsAsSaid ==
    \A size \in PageSizes, ties \in SUBSET Ties :
        LET pages == [nth \in 1..Cardinality(messages) |-> Page(ties, size, nth)]
        IN  /\ \A m \in messages :
                 \E nth \in DOMAIN pages : \E i \in DOMAIN pages[nth] : pages[nth][i] = m
            /\ \A a, b \in DOMAIN pages : \A i \in DOMAIN pages[a], j \in DOMAIN pages[b] :
                 LET m == pages[a][i]
                     n == pages[b][j]
                 IN  a < b \/ (a = b /\ i < j) =>
                       /\ m # n
                       /\ "overtaken" \notin met /\ {m, n} \subseteq Readable => SaidBefore(m, n)

(* The archive shows what is retained: all of it, and in its order.        *)
ArchiveIsShown == RetainedIsFound /\ TranscriptReadsAsSaid
===============================================================================
