--------------------------- MODULE ChatArchiveProofs ---------------------------
(***************************************************************************)
(* Theorems about ChatArchive, for any number of turns, days and changes   *)
(* of plan, and any retentions of up to 1000 days.                         *)
(***************************************************************************)
EXTENDS ChatArchive, FiniteSetTheorems, SequenceTheorems, TLAPS

Expiries == 0..Never

MessageSet ==
    [turn : Nat, role : {"user", "assistant"}, sequence : Nat, expires : Expiries]

ArchiveShape ==
    /\ conversation \in [count : Nat, expires : Expiries]
    /\ conversation.count = 0 => conversation = NoConversation
    /\ messages \subseteq MessageSet
    /\ expiresOf \in [1..MaxTurns -> Expiries]
    /\ waiting \subseteq 1..turns /\ turns \in 0..MaxTurns
    /\ retention \in Retentions /\ today \in 1..MaxDays

(* A message that is not expired belongs to the conversation of now, and   *)
(* none of its turns shares a number with another.                         *)
KeptInv ==
    "limited" \notin met =>
        /\ \A m \in Unexpired : /\ conversation.expires >= m.expires
                                /\ m.sequence < conversation.count
        /\ \A m, n \in Unexpired : m.sequence = n.sequence => m = n

ArchiveInv == ArchiveShape /\ KeptInv

(* What is archived of a turn is archived once, and is of its turn, and    *)
(* the customer's message comes first.                                     *)
TurnsInv ==
    /\ IsFiniteSet(messages)
    /\ \A m \in messages : m.turn \in 1..turns /\ m.turn \notin waiting
    /\ \A m, n \in messages : m.turn = n.turn /\ m.role = n.role => m = n
    /\ \A m, n \in messages :
         m.turn = n.turn /\ m.role = "user" /\ n.role = "assistant" => m.sequence < n.sequence

(* Until numbers start again the conversation has counted what is stored,  *)
(* as long as it is there.  Until a turn is archived before an earlier     *)
(* one, those to come are later than what is archived, and the numbers of  *)
(* what can be read are in the order of turns.                             *)
OrderInv ==
    /\ "restarted" \notin met =>
         conversation = NoConversation \/ \A m \in messages : m.sequence < conversation.count
    /\ "overtaken" \notin met =>
         /\ \A m \in messages, t \in waiting \ blank : m.turn < t
         /\ \A m, n \in Readable : m.turn < n.turn => m.sequence < n.sequence

(* A conversation counts two messages of every turn at most, and none of   *)
(* those that wait.                                                        *)
CountInv ==
    /\ conversation.count + 2 * Cardinality(waiting) <= 2 * turns
    /\ \A m \in messages : m.sequence < 2 * turns
    /\ blank \subseteq 1..turns /\ dead \subseteq blank

(* As long as the retention has not become limited after it was unlimited, *)
(* no two retained messages have one sequence number, although the count   *)
(* starts again when the conversation expires.                             *)
SequencesAreDistinct ==
    "limited" \notin met => \A m, n \in Unexpired : m.sequence = n.sequence => m = n

(* The bounds of the model, and a retention that Never is later than.      *)
Bounds ==
    /\ MaxTurns \in Nat /\ MaxDays \in Nat \ {0}
    /\ Retentions \subseteq 0..1000

--------------------------------------------------------------------------------
(* At first there is nothing.                                              *)
LEMMA ArchiveInvInit ==
    ASSUME Bounds, Init
    PROVE  ArchiveInv
<1>1. Never \in Nat /\ 0 \in Expiries
    BY DEF Bounds, Never, Expiries
<1>2. ArchiveShape
    BY <1>1 DEF Bounds, Init, ArchiveShape, NoConversation, NotRead
<1>3. KeptInv
    BY DEF Init, KeptInv, Unexpired
<1> QED BY <1>2, <1>3 DEF ArchiveInv

(* A turn is archived: two messages with the next two numbers, under an    *)
(* expiry that the conversation outlives.                                  *)
LEMMA ArchiveTurnStep ==
    ASSUME Bounds, ArchiveInv, NEW t \in 1..turns, ArchiveTurn(t)
    PROVE  ArchiveInv'
<1> DEFINE e == expiresOf[t]
           x == ExpiryOfConversation(conversation, e)
           n == conversation.count
           first == [turn |-> t, role |-> "user", sequence |-> n, expires |-> e]
           second == [turn |-> t, role |-> "assistant", sequence |-> n + 1,
                      expires |-> e]
<1>0. t \in 1..MaxTurns /\ t \in Nat /\ Never \in Nat
    BY DEF Bounds, ArchiveInv, ArchiveShape, Never
<1>1. e \in Expiries /\ n \in Nat /\ conversation.expires \in Expiries
    BY <1>0 DEF ArchiveInv, ArchiveShape
<1>2. x \in Expiries
    BY <1>0, <1>1 DEF ExpiryOfConversation, Expiries
<1>3. conversation' = [count |-> n + 2, expires |-> x]
    BY DEF ArchiveTurn, ReserveConversationSequence, PERSISTED_MESSAGES_PER_TURN
<1>4. messages' = messages \cup {first, second}
    BY <1>1, <1>3 DEF ArchiveTurn, ReserveConversationSequence, MessagesOfTurn,
       FirstSequence, PERSISTED_MESSAGES_PER_TURN
<1>5. first \in MessageSet /\ second \in MessageSet
    BY <1>0, <1>1 DEF MessageSet
<1>6. /\ first.sequence = n /\ first.expires = e
      /\ second.sequence = n + 1 /\ second.expires = e
    OBVIOUS
<1> HIDE DEF first, second
<1>7. ArchiveShape'
    <2>1. expiresOf' \in [1..MaxTurns -> Expiries]
        BY <1>0 DEF ArchiveTurn, ArchiveInv, ArchiveShape, NotRead, Expiries
    <2>2. conversation' \in [count : Nat, expires : Expiries] /\ conversation'.count # 0
        BY <1>1, <1>2, <1>3
    <2> QED BY <1>4, <1>5, <2>1, <2>2 DEF ArchiveTurn, ArchiveInv, ArchiveShape
<1>8. KeptInv'
    <2> SUFFICES ASSUME "limited" \notin met' PROVE KeptInv'
        BY DEF KeptInv
    <2>1. "limited" \notin met /\ (conversation.expires = Never => e = Never)
        BY DEF ArchiveTurn
    <2>2. x >= e /\ x >= conversation.expires
        BY <1>0, <1>1, <2>1 DEF ExpiryOfConversation, ArchiveInv, ArchiveShape,
           NoConversation, Expiries
    <2>3. Unexpired' \subseteq Unexpired \cup {first, second}
        BY <1>4 DEF Unexpired, ArchiveTurn
    <2>4. \A m \in Unexpired : m.sequence \in Nat /\ m.expires \in Expiries
        BY DEF ArchiveInv, ArchiveShape, Unexpired, MessageSet
    <2>5. \A m \in Unexpired : m.expires <= x /\ m.sequence < n
        BY <1>0, <1>1, <1>2, <2>1, <2>2, <2>4 DEF ArchiveInv, KeptInv, Expiries
    <2>6. conversation'.expires = x /\ conversation'.count = n + 2
        BY <1>3
    <2>7. \A m \in Unexpired' : /\ conversation'.expires >= m.expires
                                /\ m.sequence < conversation'.count
        BY <1>0, <1>1, <1>2, <1>6, <2>2, <2>3, <2>4, <2>5, <2>6 DEF Expiries
    <2>8. \A m, k \in Unexpired' : m.sequence = k.sequence => m = k
        BY <1>1, <1>6, <2>1, <2>3, <2>4, <2>5 DEF ArchiveInv, KeptInv
    <2> QED BY <2>7, <2>8 DEF KeptInv
<1> QED BY <1>7, <1>8 DEF ArchiveInv

(* Every step keeps ArchiveInv: what expires takes no retained message of  *)
(* its conversation with it.                                               *)
LEMMA ArchiveInvStep ==
    ASSUME Bounds, ArchiveInv, [Next]_vars
    PROVE  ArchiveInv'
<1> USE DEF Bounds, ArchiveInv, ArchiveShape, KeptInv, Unexpired
<1>1. CASE PublishTurn
    BY <1>1 DEF PublishTurn
<1>2. ASSUME NEW t \in 1..turns, ChooseExpiry(t) PROVE ArchiveInv'
    <2>1. ExpiryAfter(retention) \in Expiries
        BY DEF ExpiryAfter, Never, Expiries, Unlimited
    <2> QED BY <1>2, <2>1 DEF ChooseExpiry
<1>3. ASSUME NEW t \in 1..turns, ArchiveTurn(t) PROVE ArchiveInv'
    BY <1>3, ArchiveTurnStep
<1>4. ASSUME NEW t \in 1..turns, RejectTurn(t) PROVE ArchiveInv'
    <2>1. 0 \in Expiries
        BY DEF Never, Expiries
    <2> QED BY <1>4, <2>1 DEF RejectTurn, NotRead
<1>5. CASE ExpireConversation
    <2>1. NoConversation \in [count : Nat, expires : Expiries]
        BY DEF NoConversation, Never, Expiries
    <2>2. "limited" \notin met => Unexpired = {}
        BY <1>5 DEF ExpireConversation, MessageSet, Expiries
    <2> QED BY <1>5, <2>1, <2>2 DEF ExpireConversation
<1>6. CASE ExpireMessage
    BY <1>6 DEF ExpireMessage
<1>7. CASE NextDay
    <2>1. Unexpired' \subseteq Unexpired
        BY <1>7 DEF NextDay, MessageSet, Expiries
    <2>2. ArchiveShape'
        BY <1>7 DEF NextDay
    <2> QED BY <1>7, <2>1, <2>2 DEF NextDay
<1>8. CASE ChangePlan
    BY <1>8 DEF ChangePlan
<1>9. CASE UNCHANGED vars
    BY <1>9 DEF vars
<1> QED BY <1>1, <1>2, <1>3, <1>4, <1>5, <1>6, <1>7, <1>8, <1>9 DEF Next

(* No retained message outlives its conversation: the dashboard finds it,  *)
(* in whatever order turns are archived, days pass and MongoDB deletes     *)
(* (reserveConversationSequence of chat-persistence.repository.ts).        *)
THEOREM RetainedMessagesAreFound ==
    ASSUME Bounds
    PROVE  Spec => []RetainedIsFound
<1>1. Init => ArchiveInv
    BY ArchiveInvInit
<1>2. ArchiveInv /\ [Next]_vars => ArchiveInv'
    BY ArchiveInvStep
<1>3. ArchiveInv => RetainedIsFound
    BY DEF ArchiveInv, KeptInv, RetainedIsFound
<1> QED BY <1>1, <1>2, <1>3, PTL DEF Spec

(* And no two retained messages of a conversation share a number, as long  *)
(* as the retention has not become limited after it was unlimited: then    *)
(* the conversation may expire before them, and the count start again.     *)
THEOREM SequencesStayDistinct ==
    ASSUME Bounds
    PROVE  Spec => []SequencesAreDistinct
<1>1. Init => ArchiveInv
    BY ArchiveInvInit
<1>2. ArchiveInv /\ [Next]_vars => ArchiveInv'
    BY ArchiveInvStep
<1>3. ArchiveInv => SequencesAreDistinct
    BY DEF ArchiveInv, KeptInv, SequencesAreDistinct
<1> QED BY <1>1, <1>2, <1>3, PTL DEF Spec

--------------------------------------------------------------------------------
(* What the dashboard shows, page by page.                                 *)

Behind(kept, ties, m) == {n \in kept : Before(n, m, ties)}

(* Messages with one number are of different turns.                        *)
Apart(kept) == \A m, n \in kept : m.sequence = n.sequence /\ m.turn = n.turn => m = n

(* Whatever the order of ties, it puts messages into a line: every place   *)
(* is taken by one of them, and every one has its place.                   *)
LEMMA SortedByPlace ==
    ASSUME NEW kept, kept \subseteq MessageSet, IsFiniteSet(kept), Apart(kept), NEW ties
    PROVE  LET s == Sorted(kept, ties)
           IN  /\ \A i \in 1..Cardinality(kept) : s[i] \in kept
               /\ \A m \in kept : \E i \in 1..Cardinality(kept) : s[i] = m
               /\ \A i, j \in 1..Cardinality(kept) :
                    i < j => s[i] # s[j] /\ Before(s[i], s[j], ties)
<1> DEFINE N == Cardinality(kept)
           B(m) == Behind(kept, ties, m)
           place == [m \in kept |-> Cardinality(B(m))]
           s == Sorted(kept, ties)
<1>1. N \in Nat
    BY FS_CardinalityType
<1>2. ASSUME NEW m \in kept
      PROVE  IsFiniteSet(B(m)) /\ Cardinality(B(m)) \in 0..(N - 1)
    <2>1. m \notin B(m)
        BY DEF Behind, Before, MessageSet
    <2>2. B(m) \in SUBSET kept
        BY DEF Behind
    <2>3. IsFiniteSet(B(m)) /\ Cardinality(B(m)) <= N /\ Cardinality(kept) # Cardinality(B(m))
        BY <2>1, <2>2, FS_Subset
    <2>4. Cardinality(B(m)) \in Nat
        BY <2>3, FS_CardinalityType
    <2> QED BY <1>1, <2>3, <2>4
<1>3. ASSUME NEW m \in kept, NEW n \in kept, Before(m, n, ties)
      PROVE  Cardinality(B(m)) < Cardinality(B(n))
    <2>1. B(m) \in SUBSET B(n)
        BY <1>3 DEF Behind, Before, MessageSet
    <2>2. m \in B(n) /\ m \notin B(m)
        BY <1>3 DEF Behind, Before, MessageSet
    <2>3. B(m) # B(n)
        BY <2>2
    <2>4. IsFiniteSet(B(n)) /\ Cardinality(B(n)) \in Nat /\ Cardinality(B(m)) \in Nat
        BY <1>1, <1>2
    <2>5. Cardinality(B(m)) <= Cardinality(B(n)) /\ Cardinality(B(m)) # Cardinality(B(n))
        BY <2>1, <2>3, <2>4, FS_Subset
    <2> QED BY <2>4, <2>5
<1>4. ASSUME NEW m \in kept, NEW n \in kept, m # n
      PROVE  Before(m, n, ties) \/ Before(n, m, ties)
    BY <1>4 DEF Before, Apart, MessageSet
<1>5. place \in Injection(kept, 0..(N - 1))
    <2>1. place \in [kept -> 0..(N - 1)]
        BY <1>2
    <2>2. ASSUME NEW m \in kept, NEW n \in kept, m # n PROVE place[m] # place[n]
        <3>1. Cardinality(B(m)) # Cardinality(B(n))
            BY <1>1, <1>2, <1>3, <1>4, <2>2
        <3> QED BY <3>1
    <2> QED BY <2>1, <2>2 DEF Injection, IsInjective
<1>6. IsFiniteSet(0..(N - 1)) /\ Cardinality(0..(N - 1)) = N
    <2> HIDE DEF N
    <2>1. N - 1 \in Int /\ 0 \in Int
        BY <1>1
    <2>2. /\ IsFiniteSet(0..(N - 1))
          /\ Cardinality(0..(N - 1)) = IF 0 > N - 1 THEN 0 ELSE (N - 1) - 0 + 1
        BY <2>1, FS_Interval
    <2> QED BY <1>1, <2>2
<1>7. place \in Surjection(kept, 0..(N - 1))
    BY <1>5, <1>6, FS_Injection
<1>8. ASSUME NEW i \in 1..N PROVE s[i] \in kept /\ Cardinality(B(s[i])) = i - 1
    <2>1. i - 1 \in 0..(N - 1)
        BY <1>1
    <2>2. PICK m \in kept : place[m] = i - 1
        BY <1>7, <2>1 DEF Surjection
    <2>3. \E n \in kept : Cardinality({k \in kept : Before(k, n, ties)}) = i - 1
        BY <2>2 DEF Behind
    <2> QED BY <2>3 DEF Sorted, Behind
<1> HIDE DEF N, B, s
<1>9. ASSUME NEW i \in 1..N, NEW j \in 1..N, i < j
      PROVE  s[i] # s[j] /\ Before(s[i], s[j], ties)
    <2>1. s[i] # s[j] /\ ~(Cardinality(B(s[j])) < Cardinality(B(s[i])))
        BY <1>1, <1>8, <1>9
    <2> QED BY <1>3, <1>4, <1>8, <2>1
<1>10. ASSUME NEW m \in kept PROVE \E i \in 1..N : s[i] = m
    <2> DEFINE i == Cardinality(B(m)) + 1
    <2>1. i \in 1..N /\ i - 1 = Cardinality(B(m))
        BY <1>1, <1>2
    <2>2. s[i] \in kept /\ Cardinality(B(s[i])) = Cardinality(B(m))
        BY <1>8, <2>1
    <2>3. s[i] = m
        BY <2>2, <1>5 DEF Injection, IsInjective
    <2> QED BY <2>1, <2>3
<1> QED BY <1>8, <1>9, <1>10 DEF N, s

--------------------------------------------------------------------------------
(* Turns and their order, step by step.                                    *)

(* The turns that wait can be counted.                                     *)
LEMMA SomeTurns ==
    ASSUME NEW n \in Nat, NEW S, S \subseteq 1..n, NEW x
    PROVE  /\ IsFiniteSet(S) /\ Cardinality(S) \in Nat
           /\ Cardinality(S \cup {x}) \in Nat
           /\ Cardinality(S \cup {x}) <= Cardinality(S) + 1
           /\ Cardinality(S \ {x}) \in Nat
           /\ Cardinality(S \ {x}) <= Cardinality(S)
           /\ x \in S => Cardinality(S \ {x}) = Cardinality(S) - 1
<1>1. IsFiniteSet(1..n)
    BY FS_Interval
<1>2. IsFiniteSet(S)
    BY <1>1, FS_Subset
<1>3. Cardinality(S) \in Nat
    BY <1>2, FS_CardinalityType
<1>4. /\ IsFiniteSet(S \cup {x}) /\ IsFiniteSet(S \ {x})
      /\ Cardinality(S \cup {x}) = IF x \in S THEN Cardinality(S) ELSE Cardinality(S) + 1
      /\ Cardinality(S \ {x}) = IF x \in S THEN Cardinality(S) - 1 ELSE Cardinality(S)
    BY <1>2, FS_AddElement, FS_RemoveElement
<1>5. Cardinality(S \cup {x}) \in Nat /\ Cardinality(S \ {x}) \in Nat
    BY <1>4, FS_CardinalityType
<1> QED BY <1>2, <1>3, <1>4, <1>5

(* At first there is no turn.                                              *)
LEMMA TurnsInit ==
    ASSUME Bounds, Init
    PROVE  TurnsInv /\ OrderInv /\ CountInv
BY FS_EmptySet DEF Init, TurnsInv, OrderInv, CountInv, Readable, NoConversation

(* Two messages are added for a turn that had none.                        *)
LEMMA ArchiveTurnKeepsTurns ==
    ASSUME Bounds, ArchiveInv, TurnsInv, OrderInv, CountInv, NEW t \in 1..turns, ArchiveTurn(t)
    PROVE  TurnsInv' /\ OrderInv' /\ CountInv'
<1> DEFINE e == expiresOf[t]
           n == conversation.count
           first == [turn |-> t, role |-> "user", sequence |-> n, expires |-> e]
           second == [turn |-> t, role |-> "assistant", sequence |-> n + 1, expires |-> e]
<1>0. /\ n \in Nat /\ e \in Expiries /\ t \in waiting \ blank
      /\ turns \in Nat /\ waiting \subseteq 1..turns /\ messages \subseteq MessageSet
    BY DEF Bounds, ArchiveInv, ArchiveShape, ArchiveTurn
<1>1. /\ conversation'.count = n + 2
      /\ messages' = messages \cup {first, second}
      /\ waiting' = waiting \ {t} /\ UNCHANGED <<turns, blank, dead, today>>
    BY <1>0 DEF ArchiveTurn, ReserveConversationSequence, MessagesOfTurn,
       FirstSequence, PERSISTED_MESSAGES_PER_TURN
<1>2. /\ first.turn = t /\ first.role = "user" /\ first.sequence = n /\ first.expires = e
      /\ second.turn = t /\ second.role = "assistant" /\ second.sequence = n + 1
      /\ second.expires = e
    OBVIOUS
<1> HIDE DEF first, second
<1>3. \A m \in messages : m.turn \in 1..turns /\ m.turn # t /\ m.turn \notin waiting
    BY <1>0 DEF TurnsInv
<1>4. Unexpired' \subseteq Unexpired \cup {first, second} /\ Unexpired \subseteq messages
    BY <1>1 DEF Unexpired
<1>5. TurnsInv'
    <2>1. IsFiniteSet(messages')
        <3>1. IsFiniteSet(messages \cup {first})
            BY FS_AddElement DEF TurnsInv
        <3>2. IsFiniteSet((messages \cup {first}) \cup {second})
            BY <3>1, FS_AddElement
        <3>3. (messages \cup {first}) \cup {second} = messages'
            BY <1>1
        <3> QED BY <3>2, <3>3
    <2>2. \A m \in messages' : m.turn \in 1..turns' /\ m.turn \notin waiting'
        BY <1>0, <1>1, <1>2, <1>3
    <2>3. \A m, k \in messages' : m.turn = k.turn /\ m.role = k.role => m = k
        BY <1>1, <1>2, <1>3 DEF TurnsInv
    <2>4. \A m, k \in messages' :
            m.turn = k.turn /\ m.role = "user" /\ k.role = "assistant" => m.sequence < k.sequence
        BY <1>0, <1>1, <1>2, <1>3 DEF TurnsInv
    <2> QED BY <2>1, <2>2, <2>3, <2>4 DEF TurnsInv
<1>6. OrderInv'
    <2>1. /\ met \subseteq met'
          /\ "overtaken" \notin met' => ~\E u \in waiting \ blank : u < t
          /\ "restarted" \notin met' => conversation # NoConversation \/ messages = {}
        BY DEF ArchiveTurn
    <2>2. conversation' # NoConversation
        BY <1>0, <1>1 DEF NoConversation
    <2>3. \A m \in messages : m.turn \in Nat /\ m.sequence \in Nat
        BY <1>0 DEF MessageSet
    <2>4. ASSUME "restarted" \notin met' PROVE \A m \in messages : m.sequence < n
        BY <2>1, <2>4 DEF OrderInv
    <2>5. "restarted" \notin met' => \A m \in messages' : m.sequence < conversation'.count
        BY <1>0, <1>1, <1>2, <2>3, <2>4
    <2>6. \A m \in Readable' : m \in messages => m \in Readable
        BY <1>1, <2>1 DEF Readable, Unexpired
    <2>7. ASSUME NEW m \in Readable', m \in messages PROVE m.sequence < n
        <3>1. CASE "restarted" \notin met'
            BY <2>4, <2>7, <3>1
        <3>2. CASE "restarted" \in met'
            <4>1. "limited" \notin met /\ m \in Unexpired
                BY <1>1, <2>1, <2>7, <3>2 DEF Readable, Unexpired
            <4> QED BY <4>1 DEF ArchiveInv, KeptInv
        <3> QED BY <3>1, <3>2
    <2>8. ASSUME "overtaken" \notin met'
          PROVE  /\ \A m \in messages', u \in waiting' \ blank' : m.turn < u
                 /\ \A m, k \in Readable' : m.turn < k.turn => m.sequence < k.sequence
        <3>1. "overtaken" \notin met /\ \A u \in waiting' \ blank' : t < u
            BY <1>0, <1>1, <2>1, <2>8
        <3>2. \A m \in messages', u \in waiting' \ blank' : m.turn < u
            BY <1>1, <1>2, <3>1 DEF OrderInv
        <3>3. \A m \in messages : m.turn < t
            BY <1>0, <3>1 DEF OrderInv
        <3>4. \A m \in Readable' : m \in messages \/ m = first \/ m = second
            BY <1>1 DEF Readable
        <3>5. \A m, k \in Readable' : m.turn < k.turn => m.sequence < k.sequence
            BY <1>0, <1>2, <2>3, <2>6, <2>7, <3>1, <3>3, <3>4 DEF OrderInv
        <3> QED BY <3>2, <3>5
    <2> QED BY <2>5, <2>8 DEF OrderInv
<1>7. CountInv'
    <2>1. Cardinality(waiting) \in Nat
        BY <1>0, SomeTurns
    <2>2. Cardinality(waiting') = Cardinality(waiting) - 1
        BY <1>0, <1>1, SomeTurns
    <2>3. Cardinality(waiting') \in Nat
        BY <1>0, <1>1, SomeTurns
    <2>4. conversation'.count + 2 * Cardinality(waiting') <= 2 * turns /\ n + 2 <= 2 * turns
        BY <1>0, <1>1, <2>1, <2>2, <2>3 DEF CountInv
    <2>5. \A m \in messages' : m.sequence < 2 * turns
        BY <1>0, <1>1, <1>2, <2>4 DEF CountInv
    <2> QED BY <1>1, <2>4, <2>5 DEF CountInv
<1> QED BY <1>5, <1>6, <1>7

(* Every step keeps turns and their order.                                 *)
LEMMA TurnsStep ==
    ASSUME Bounds, ArchiveInv, TurnsInv, OrderInv, CountInv, [Next]_vars
    PROVE  TurnsInv' /\ OrderInv' /\ CountInv'
<1>0. /\ turns \in Nat /\ waiting \subseteq 1..turns /\ messages \subseteq MessageSet
      /\ conversation.count \in Nat /\ today \in Nat
      /\ IsFiniteSet(waiting) /\ Cardinality(waiting) \in Nat
    <2>1. turns \in Nat /\ waiting \subseteq 1..turns
        BY DEF ArchiveInv, ArchiveShape, Bounds
    <2>2. IsFiniteSet(waiting) /\ Cardinality(waiting) \in Nat
        BY <2>1, SomeTurns
    <2> QED BY <2>1, <2>2 DEF ArchiveInv, ArchiveShape, Bounds
<1>1. CASE PublishTurn
    <2>1. /\ turns' = turns + 1 /\ waiting' = waiting \cup {turns + 1}
          /\ blank' \in {blank, blank \cup {turns + 1}}
          /\ UNCHANGED <<messages, today, conversation, dead, met>>
        BY <1>1 DEF PublishTurn
    <2>2. Cardinality(waiting') <= Cardinality(waiting) + 1 /\ Cardinality(waiting') \in Nat
        BY <1>0, <2>1, SomeTurns
    <2>3. TurnsInv'
        BY <1>0, <2>1 DEF TurnsInv, Unexpired
    <2>4. OrderInv'
        <3>1. \A m \in messages : m.turn < turns + 1
            BY <1>0 DEF TurnsInv
        <3>2. Readable' = Readable
            BY <2>1 DEF Readable, Unexpired
        <3> QED BY <2>1, <3>1, <3>2 DEF OrderInv
    <2>5. CountInv'
        <3>1. conversation'.count + 2 * Cardinality(waiting') <= 2 * turns'
            BY <1>0, <2>1, <2>2 DEF CountInv
        <3>2. \A m \in messages' : m.sequence < 2 * turns'
            BY <1>0, <2>1 DEF CountInv, MessageSet
        <3> QED BY <1>0, <2>1, <3>1, <3>2 DEF CountInv
    <2> QED BY <2>3, <2>4, <2>5
<1>2. ASSUME UNCHANGED <<turns, waiting, blank, dead, met, conversation, messages, today>>
      PROVE  TurnsInv' /\ OrderInv' /\ CountInv'
    <2>1. Readable' = Readable
        BY <1>2 DEF Readable, Unexpired
    <2> QED BY <1>2, <2>1 DEF TurnsInv, OrderInv, CountInv
<1>3. ASSUME NEW t \in 1..turns, RejectTurn(t)
      PROVE  TurnsInv' /\ OrderInv' /\ CountInv'
    <2>1. /\ waiting' = waiting \ {t} /\ dead' = dead \cup {t} /\ t \in blank
          /\ UNCHANGED <<turns, blank, met, conversation, messages, today>>
        BY <1>3 DEF RejectTurn
    <2>2. Cardinality(waiting') <= Cardinality(waiting) /\ Cardinality(waiting') \in Nat
        BY <1>0, <2>1, SomeTurns
    <2>3. TurnsInv' /\ OrderInv'
        <3>1. Readable' = Readable
            BY <2>1 DEF Readable, Unexpired
        <3> QED BY <2>1, <3>1 DEF TurnsInv, OrderInv
    <2>4. CountInv'
        BY <1>0, <2>1, <2>2 DEF CountInv
    <2> QED BY <2>3, <2>4
<1>4. CASE ExpireConversation
    <2>1. /\ conversation' = NoConversation /\ conversation'.count = 0
          /\ UNCHANGED <<turns, waiting, blank, dead, met, messages, today>>
        BY <1>4 DEF ExpireConversation, NoConversation
    <2>2. Readable' = Readable
        BY <2>1 DEF Readable, Unexpired
    <2> QED BY <1>0, <2>1, <2>2 DEF TurnsInv, OrderInv, CountInv
<1>5. CASE ExpireMessage
    <2>1. PICK m \in messages : m.expires <= today /\ messages' = messages \ {m}
        BY <1>5 DEF ExpireMessage
    <2>2. UNCHANGED <<turns, waiting, blank, dead, met, conversation, today>>
        BY <1>5 DEF ExpireMessage
    <2>3. IsFiniteSet(messages')
        BY <2>1, FS_RemoveElement DEF TurnsInv
    <2>4. Readable' \subseteq Readable
        BY <2>1, <2>2 DEF Readable, Unexpired
    <2>5. TurnsInv'
        BY <2>1, <2>2, <2>3 DEF TurnsInv
    <2>6. OrderInv'
        BY <2>1, <2>2, <2>4 DEF OrderInv
    <2>7. CountInv'
        BY <2>1, <2>2 DEF CountInv
    <2> QED BY <2>5, <2>6, <2>7
<1>6. CASE NextDay
    <2>1. UNCHANGED <<turns, waiting, blank, dead, met, conversation, messages>>
          /\ today' = today + 1
        BY <1>6 DEF NextDay
    <2>2. Readable' \subseteq Readable
        BY <1>0, <2>1 DEF Readable, Unexpired, MessageSet, Expiries
    <2> QED BY <2>1, <2>2 DEF TurnsInv, OrderInv, CountInv
<1>7. ASSUME NEW t \in 1..turns, ArchiveTurn(t)
      PROVE  TurnsInv' /\ OrderInv' /\ CountInv'
    BY <1>7, ArchiveTurnKeepsTurns
<1> QED BY <1>1, <1>2, <1>3, <1>4, <1>5, <1>6, <1>7
        DEF Next, ChooseExpiry, ChangePlan, vars


--------------------------------------------------------------------------------
(* The places of the messages, and the pages.                              *)

(* A page is asked for within its limits.                                  *)
LEMMA PageLimits ==
    ASSUME MESSAGES_LIMIT_MAX \in Nat \ {0}, NEW size \in Int
    PROVE  /\ SafeLimit(size) \in 1..MESSAGES_LIMIT_MAX /\ SafeLimit(size) \in Nat \ {0}
           /\ \A nth \in Nat \ {0} : Skipped(size, nth) \in Nat
<1>1. SafeLimit(size) \in 1..MESSAGES_LIMIT_MAX
    BY DEF SafeLimit, Least
<1>2. SafeLimit(size) \in Nat \ {0}
    BY <1>1
<1>3. \A i, j \in Nat : i * j \in Nat
    OBVIOUS
<1>4. \A nth \in Nat \ {0} : nth - 1 \in Nat
    OBVIOUS
<1> QED BY <1>1, <1>2, <1>3, <1>4 DEF Skipped

(* Every place is on a page, one of as many as there are places.           *)
LEMMA PageOfPlace ==
    ASSUME NEW p \in Nat \ {0}, NEW l \in Nat \ {0}
    PROVE  \E nth \in 1..p : (nth - 1) * l < p /\ p <= (nth - 1) * l + l
<1> DEFINE d == (p - 1) \div l
<1>1. d \in Nat /\ d * l <= p - 1 /\ p - 1 < d * l + l
    OBVIOUS
<1>2. d <= p - 1
    BY <1>1
<1> HIDE DEF d
<1>3. (d + 1) - 1 = d /\ d + 1 \in 1..p /\ d * l \in Nat
    BY <1>1, <1>2
<1>4. ((d + 1) - 1) * l < p /\ p <= ((d + 1) - 1) * l + l
    <2>1. ASSUME NEW x \in Nat, x <= p - 1, p - 1 < x + l PROVE x < p /\ p <= x + l
        BY <2>1
    <2> QED BY <1>1, <1>3, <2>1
<1> QED BY <1>3, <1>4

(* A later page begins behind the earlier ones.                            *)
LEMMA LaterPage ==
    ASSUME NEW a \in Nat \ {0}, NEW b \in Nat \ {0}, a < b, NEW l \in Nat \ {0}
    PROVE  (a - 1) * l + l <= (b - 1) * l
<1>1. (b - 1 - a) * l \in Nat
    <2>1. \A x, y \in Nat : x * y \in Nat
        OBVIOUS
    <2>2. b - 1 - a \in Nat
        OBVIOUS
    <2> QED BY <2>1, <2>2
<1>2. (b - 1) * l = (a - 1) * l + l + (b - 1 - a) * l /\ (a - 1) * l \in Nat
    OBVIOUS
<1> QED BY <1>1, <1>2

(* What is stored can be put into a line.                                  *)
LEMMA StoredApart ==
    ASSUME ArchiveInv, TurnsInv
    PROVE  messages \subseteq MessageSet /\ IsFiniteSet(messages) /\ Apart(messages)
           /\ Cardinality(messages) \in Nat
<1>1. messages \subseteq MessageSet /\ IsFiniteSet(messages)
    BY DEF ArchiveInv, ArchiveShape, TurnsInv
<1>2. ASSUME NEW m \in messages, NEW n \in messages,
             m.sequence = n.sequence, m.turn = n.turn
      PROVE  m = n
    <2>1. m.sequence \in Nat /\ n.sequence \in Nat
        BY <1>1 DEF MessageSet
    <2>2. m.role = n.role
        BY <1>1, <1>2, <2>1 DEF TurnsInv, MessageSet
    <2> QED BY <1>2, <2>2 DEF TurnsInv
<1> QED BY <1>1, <1>2, FS_CardinalityType DEF Apart

(* A page shows the messages of its places.                                *)
LEMMA PageShowsPlaces ==
    ASSUME MESSAGES_LIMIT_MAX \in Nat \ {0}, ArchiveInv, TurnsInv,
           NEW ties, NEW size \in Int, NEW nth \in Nat \ {0}
    PROVE  LET page == Page(ties, size, nth)
               s == Sorted(messages, ties)
               k == Skipped(size, nth)
           IN  /\ \A i \in DOMAIN page : /\ i \in 1..SafeLimit(size)
                                         /\ k + i \in 1..Cardinality(messages)
                                         /\ page[i] = s[k + i]
               /\ \A p \in 1..Cardinality(messages) :
                    k < p /\ p <= k + SafeLimit(size) =>
                        p - k \in DOMAIN page /\ page[p - k] = s[p]
<1> DEFINE s == Sorted(messages, ties)
           k == Skipped(size, nth)
           l == SafeLimit(size)
           N == Cardinality(messages)
           last == Least(k + l, N)
           read == SubSeq(s, k + 1, last)
<1>1. k \in Nat /\ l \in Nat /\ N \in Nat
    BY PageLimits, StoredApart
<1>2. last \in Nat /\ last <= N /\ last <= k + l /\ (last = N \/ last = k + l)
    BY <1>1 DEF Least
<1>3. \A i \in 1..N : s[i] \in messages
    BY StoredApart, SortedByPlace
<1>4. Page(ties, size, nth) = read
    BY DEF Page, ListMessages
<1> HIDE DEF s, k, l, N, last
<1>5. /\ read \in Seq(messages)
      /\ Len(read) = IF k + 1 <= last THEN last - (k + 1) + 1 ELSE 0
      /\ \A i \in 1..(last - (k + 1) + 1) : read[i] = s[(k + 1) + i - 1]
    <2>1. k + 1 \in Int /\ last \in Int /\ \A i \in (k + 1)..last : s[i] \in messages
        BY <1>1, <1>2, <1>3
    <2> QED BY <2>1, SubSeqProperties
<1> HIDE DEF read
<1>6. DOMAIN read = 1..Len(read)
    BY <1>5
<1>7. ASSUME NEW i \in DOMAIN read
      PROVE  i \in 1..l /\ k + i \in 1..N /\ read[i] = s[k + i]
    <2>1. i \in Nat /\ 1 <= i /\ i <= last - k /\ (k + 1) + i - 1 = k + i
        <3>1. i \in 1..Len(read)
            BY <1>6
        <3>2. i \in Nat /\ 1 <= i /\ k + 1 <= last /\ i <= last - (k + 1) + 1
            BY <1>1, <1>2, <1>5, <3>1
        <3> QED BY <1>1, <1>2, <3>2
    <2>2. i \in 1..(last - (k + 1) + 1)
        BY <1>1, <1>2, <2>1
    <2>3. read[i] = s[k + i]
        BY <1>5, <2>1, <2>2
    <2> QED BY <1>1, <1>2, <2>1, <2>3
<1>8. ASSUME NEW p \in 1..N, k < p, p <= k + l
      PROVE  p - k \in DOMAIN read /\ read[p - k] = s[p]
    <2>1. p <= last /\ p - k \in 1..(last - (k + 1) + 1) /\ (k + 1) + (p - k) - 1 = p
        BY <1>1, <1>2, <1>8
    <2>2. p - k \in DOMAIN read
        BY <1>1, <1>2, <1>5, <1>6, <2>1
    <2> QED BY <1>5, <2>1, <2>2
<1> QED BY <1>4, <1>7, <1>8 DEF s, k, l, N

(* Of two messages in a line, the first was said first.                    *)
LEMMA LineIsAsSaid ==
    ASSUME ArchiveInv, TurnsInv, OrderInv, "overtaken" \notin met,
           NEW m \in Readable, NEW n \in Readable, NEW ties, m # n, Before(m, n, ties)
    PROVE  SaidBefore(m, n)
<1>1. /\ m \in messages /\ n \in messages /\ m \in MessageSet /\ n \in MessageSet
    BY DEF Readable, ArchiveInv, ArchiveShape
<1>2. m.sequence \in Nat /\ n.sequence \in Nat /\ m.turn \in Nat /\ n.turn \in Nat
    BY <1>1 DEF MessageSet
<1>3. m.sequence <= n.sequence
    BY <1>2 DEF Before
<1>4. ~(n.turn < m.turn)
    BY <1>2, <1>3 DEF OrderInv
<1>5. CASE m.turn = n.turn
    <2>1. m.role # n.role
        BY <1>1, <1>5 DEF TurnsInv
    <2>2. ~(m.role = "assistant" /\ n.role = "user")
        BY <1>1, <1>2, <1>3, <1>5 DEF TurnsInv
    <2> QED BY <1>1, <1>5, <2>1, <2>2 DEF SaidBefore, MessageSet
<1> QED BY <1>2, <1>4, <1>5 DEF SaidBefore

(* Page after page, everything is shown once, and what can be read is      *)
(* shown as it was said.                                                   *)
LEMMA PagesReadAsSaid ==
    ASSUME MESSAGES_LIMIT_MAX \in Nat \ {0}, PageSizes \subseteq Int,
           ArchiveInv, TurnsInv, OrderInv
    PROVE  TranscriptReadsAsSaid
<1> DEFINE N == Cardinality(messages)
<1> SUFFICES ASSUME NEW size \in PageSizes, NEW ties \in SUBSET Ties
    PROVE  LET pages == [nth \in 1..N |-> Page(ties, size, nth)]
           IN  /\ \A m \in messages :
                    \E nth \in DOMAIN pages : \E i \in DOMAIN pages[nth] : pages[nth][i] = m
               /\ \A a, b \in DOMAIN pages :
                    \A i \in DOMAIN pages[a], j \in DOMAIN pages[b] :
                      LET m == pages[a][i]
                          n == pages[b][j]
                      IN  a < b \/ (a = b /\ i < j) =>
                            /\ m # n
                            /\ "overtaken" \notin met /\ {m, n} \subseteq Readable
                                 => SaidBefore(m, n)
    BY DEF TranscriptReadsAsSaid
<1> DEFINE s == Sorted(messages, ties)
           l == SafeLimit(size)
           k(nth) == Skipped(size, nth)
           page(nth) == Page(ties, size, nth)
<1>1. N \in Nat /\ l \in Nat \ {0}
    BY StoredApart, PageLimits
<1>2. \A nth \in Nat \ {0} : k(nth) = (nth - 1) * l /\ k(nth) \in Nat
    BY PageLimits DEF Skipped
<1>3. /\ \A m \in messages : \E p \in 1..N : s[p] = m
      /\ \A p, q \in 1..N : p < q => s[p] # s[q] /\ Before(s[p], s[q], ties)
    BY StoredApart, SortedByPlace
<1>4. ASSUME NEW nth \in 1..N
      PROVE  /\ \A i \in DOMAIN page(nth) : /\ i \in 1..l /\ k(nth) + i \in 1..N
                                             /\ page(nth)[i] = s[k(nth) + i]
             /\ \A p \in 1..N : k(nth) < p /\ p <= k(nth) + l =>
                                   p - k(nth) \in DOMAIN page(nth) /\ page(nth)[p - k(nth)] = s[p]
    <2>1. nth \in Nat \ {0}
        BY <1>1
    <2> QED BY <2>1, PageShowsPlaces
<1> HIDE DEF N, s, l, k, page
<1>5. ASSUME NEW m \in messages
      PROVE  \E nth \in 1..N : \E i \in DOMAIN page(nth) : page(nth)[i] = m
    <2>1. PICK p \in 1..N : s[p] = m
        BY <1>3
    <2>2. PICK nth \in 1..p : (nth - 1) * l < p /\ p <= (nth - 1) * l + l
        <3>1. p \in Nat \ {0} /\ l \in Nat \ {0}
            BY <1>1
        <3> QED BY <3>1, PageOfPlace
    <2>3. nth \in 1..N /\ k(nth) < p /\ p <= k(nth) + l
        BY <1>1, <1>2, <2>2
    <2> QED BY <1>4, <2>1, <2>3
<1>6. ASSUME NEW a \in 1..N, NEW b \in 1..N, NEW i \in DOMAIN page(a),
             NEW j \in DOMAIN page(b), a < b \/ (a = b /\ i < j)
      PROVE  /\ page(a)[i] # page(b)[j]
             /\ "overtaken" \notin met /\ {page(a)[i], page(b)[j]} \subseteq Readable
                  => SaidBefore(page(a)[i], page(b)[j])
    <2>1. /\ i \in 1..l /\ k(a) + i \in 1..N /\ page(a)[i] = s[k(a) + i]
          /\ j \in 1..l /\ k(b) + j \in 1..N /\ page(b)[j] = s[k(b) + j]
        BY <1>4
    <2>2. k(a) \in Nat /\ k(b) \in Nat /\ (a < b => k(a) + l <= k(b))
        <3>1. a \in Nat \ {0} /\ b \in Nat \ {0} /\ l \in Nat \ {0}
            BY <1>1
        <3>2. a < b => (a - 1) * l + l <= (b - 1) * l
            BY <3>1, LaterPage
        <3> QED BY <1>2, <3>1, <3>2
    <2>3. k(a) + i < k(b) + j
        BY <1>1, <1>6, <2>1, <2>2
    <2>4. page(a)[i] # page(b)[j] /\ Before(page(a)[i], page(b)[j], ties)
        BY <1>3, <2>1, <2>3
    <2> QED BY <2>4, LineIsAsSaid
<1> QED BY <1>5, <1>6 DEF page

--------------------------------------------------------------------------------
(* The archive as a whole.                                                 *)

PagesAreNumbers == MESSAGES_LIMIT_MAX \in Nat \ {0} /\ PageSizes \subseteq Int

WholeInv == ArchiveInv /\ TurnsInv /\ OrderInv /\ CountInv

(* An archive that has all its parts shows what is retained.               *)
LEMMA WholeIsShown ==
    ASSUME Bounds, PagesAreNumbers, WholeInv
    PROVE  ArchiveIsShown /\ ArchiveTypeOK
<1> USE DEF WholeInv
<1>1. RetainedIsFound
    BY DEF ArchiveInv, KeptInv, RetainedIsFound
<1>2. TranscriptReadsAsSaid
    BY PagesReadAsSaid DEF PagesAreNumbers
<1>3. ArchiveTypeOK
    <2>1. turns \in Nat /\ turns <= MaxTurns /\ MaxTurns \in Nat
        BY DEF ArchiveInv, ArchiveShape, Bounds
    <2>2. Cardinality(waiting) \in Nat
        BY <2>1, SomeTurns DEF ArchiveInv, ArchiveShape
    <2>3. conversation.count \in 0..(2 * MaxTurns)
        BY <2>1, <2>2 DEF ArchiveInv, ArchiveShape, CountInv
    <2>4. \A m \in messages : /\ m.turn \in 1..turns /\ m.role \in {"user", "assistant"}
                              /\ m.sequence \in 0..(2 * MaxTurns - 1)
        BY <2>1 DEF ArchiveInv, ArchiveShape, TurnsInv, CountInv, MessageSet
    <2>5. \A size \in PageSizes : SafeLimit(size) \in 1..MESSAGES_LIMIT_MAX
        BY DEF PagesAreNumbers, SafeLimit, Least
    <2> QED BY <2>3, <2>4, <2>5 DEF ArchiveTypeOK, ArchiveInv, ArchiveShape, CountInv
<1> QED BY <1>1, <1>2, <1>3 DEF ArchiveIsShown

(* The archive keeps all its parts.                                        *)
LEMMA WholeStep ==
    ASSUME Bounds, WholeInv, [Next]_vars
    PROVE  WholeInv'
BY ArchiveInvStep, TurnsStep DEF WholeInv

(* What the dashboard shows of a conversation, page by page, is all that   *)
(* is stored of it, each message once, whichever of two with one number    *)
(* comes first; what can be read is in the order it was said, in whatever  *)
(* order turns are archived, days pass and MongoDB deletes.  Only a turn   *)
(* that overtook an earlier one, numbers that start again over messages    *)
(* that have expired and are not deleted, for these, and a plan that       *)
(* limits a retention that was unlimited take it out of place              *)
(* (listMessages of chat-persistence.repository.ts, getChatConversation of *)
(* dashboard.service.ts).                                                  *)
THEOREM ArchiveIsShownAsSaid ==
    ASSUME Bounds, PagesAreNumbers
    PROVE  Spec => []ArchiveIsShown
<1>1. Init => WholeInv
    BY ArchiveInvInit, TurnsInit DEF WholeInv
<1>2. WholeInv /\ [Next]_vars => WholeInv'
    BY WholeStep
<1>3. WholeInv => ArchiveIsShown
    BY WholeIsShown
<1> QED BY <1>1, <1>2, <1>3, PTL DEF Spec

(* The count of a conversation and the numbers of its messages stay within *)
(* two for every turn, and a page within its limit.                        *)
THEOREM ArchiveTypes ==
    ASSUME Bounds, PagesAreNumbers
    PROVE  Spec => []ArchiveTypeOK
<1>1. Init => WholeInv
    BY ArchiveInvInit, TurnsInit DEF WholeInv
<1>2. WholeInv /\ [Next]_vars => WholeInv'
    BY WholeStep
<1>3. WholeInv => ArchiveTypeOK
    BY WholeIsShown
<1> QED BY <1>1, <1>2, <1>3, PTL DEF Spec
===============================================================================
