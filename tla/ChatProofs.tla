------------------------------ MODULE ChatProofs ------------------------------
(***************************************************************************)
(* Theorems about the memory of the chat (Conversation), for any interval  *)
(* of summaries, any ceiling of the history, any number of turns and jobs  *)
(* under way, and any number of failing calls; and about MCChat, the run   *)
(* of all the machines of the chat: what is proved of the memory, of the   *)
(* settings, of the archive and of the dashboard holds in it too.          *)
(*                                                                         *)
(* The memory rests on one invariant.  BoundInv: a total is a number of    *)
(* messages that are there, and where a turn begins.  DueInv: while a      *)
(* summary is due, whoever asks for the newest one is still under way, or  *)
(* its job is lost.                                                        *)
(* CoverInv: what is counted has been told to the summary, by the job that *)
(* has counted it at the latest.  SaidInv: what was said is in the list.   *)
(***************************************************************************)
EXTENDS MCChat, SequenceTheorems, FiniteSetTheorems, TLAPS

-------------------------------------------------------------------------------
(* The memory of the chat.  What a turn may keep, and how far a job is.    *)
KeptOf(t) ==
    {User({t}), Assistant({-t}), ToolRequest({}, <<[id |-> t]>>), ToolResult({}, t)}
StoredSet == UNION {KeptOf(t) : t \in Nat}

JobState ==
    [at : {"taken", "messages", "count", "summary"}, summary : SUBSET Int, count : Nat,
     texts : SUBSET Int]

Totals == appended \cup jobs \cup DOMAIN running

MemoryShape ==
    /\ list \in Seq(StoredSet)
    /\ count \in Nat /\ turns \in Nat /\ summary \subseteq Int
    /\ Totals \subseteq Nat \ {0}
    /\ running \in [DOMAIN running -> JobState]
    /\ \A n \in DOMAIN running : running[n].count < n

(* No total is beyond the messages, and none is in the middle of a turn.   *)
Boundary(l, n) == n < Len(l) => IsUser(l[n + 1])

BoundInv ==
    {"outlived", "expired"} \cap met = {} =>
        \A n \in Totals \cup {0, count} : n <= Len(list) /\ Boundary(list, n)

(* When a summary is due, the turn or the job that counts all the messages *)
(* is still to come, or is lost; and a job that has stored its count is done with it.  *)
DueInv ==
    {"count lost", "expired", "overtaken", "outlived"} \cap met = {} =>
        /\ Len(list) - count >= SUMMARY_MESSAGE_INTERVAL => Len(list) \in Totals \cup lost
        /\ \A n \in DOMAIN running : At(n, "summary") => n <= count

(* What messages m + 1 to n tell.                                          *)
Told(l, m, n) == UNION {l[i].text : i \in (m + 1)..n}

(* What is counted is in the summary, or will be when the job is done that *)
(* has counted it; and the summary that a job has made tells of all the    *)
(* messages it is about.                                                   *)
CoverInv ==
    {"overtaken", "outlived", "expired", "summary lost"} \cap met = {} =>
        /\ Written => Told(list, 0, count) \subseteq summary
        /\ \A n \in DOMAIN running :
             /\ At(n, "count") => Told(list, running[n].count, n) \subseteq running[n].texts
             /\ At(n, "summary") =>
                    Told(list, 0, count) \subseteq running[n].summary \cup running[n].texts

(* What was said is in the messages, unless some of them were not stored.  *)
SaidInv == "append failed" \notin met => said \subseteq Told(list, 0, Len(list))

MemoryInv == MemoryShape /\ BoundInv /\ DueInv /\ CoverInv /\ SaidInv

(* What a turn has read is the beginning of the messages until it has read *)
(* the count; what was said is in it; and of as many of its messages as    *)
(* reading.covers says, the summary it has read tells.                     *)
ReadingOf(Lists) ==
    [at : {"none", "summary", "count", "told"}, list : Lists, said : SUBSET Int,
     summary : SUBSET Int, covers : Nat, count : Nat]

ReadingState == ReadingOf(Seq(StoredSet))

ReadIs(x, at, l, t, text, m, n) ==
    /\ x.at = at /\ x.list = l /\ x.said = t
    /\ x.summary = text /\ x.covers = m /\ x.count = n

BeginsWith(l, first) ==
    Len(first) <= Len(l) /\ \A i \in 1..Len(first) : l[i] = first[i]

TellsOf(text, l, n) == \A i \in 1..Len(l) : i <= n => l[i].text \subseteq text

ReadingShape ==
    /\ said \subseteq Int /\ reading \in ReadingState
    /\ reading.at \in {"none", "summary"} => reading.covers = 0
    /\ reading.at # "told" => reading.count = 0

ReadingInv ==
    (met \subseteq {"count lost"} /\ reading.said # {}) =>
        /\ reading.said \subseteq Told(reading.list, 0, Len(reading.list))
        /\ reading.at # "told" => BeginsWith(list, reading.list)
        /\ reading.at \in {"count", "told"} =>
               TellsOf(reading.summary, reading.list, reading.covers)
        /\ reading.at = "told" => Boundary(reading.list, reading.count)

-------------------------------------------------------------------------------
(* Parts of a sequence of messages.  SMT knows SubSeq by its elements.     *)
LEMMA PartOf ==
    ASSUME NEW S, NEW l \in Seq(S), NEW m \in Nat, NEW n \in Nat, m <= n, n <= Len(l)
    PROVE  /\ SubSeq(l, m + 1, n) \in Seq(S)
           /\ Len(SubSeq(l, m + 1, n)) = n - m
           /\ \A i \in 1..(n - m) : SubSeq(l, m + 1, n)[i] = l[m + i]
<1>1. \A i \in (m + 1)..n : l[i] \in S
    OBVIOUS
<1>2. m + 1 \in Int /\ n \in Int
    OBVIOUS
<1>3. /\ SubSeq(l, m + 1, n) \in Seq(S)
      /\ Len(SubSeq(l, m + 1, n)) = (IF m + 1 <= n THEN n - (m + 1) + 1 ELSE 0)
      /\ \A i \in 1..(n - (m + 1) + 1) : SubSeq(l, m + 1, n)[i] = l[m + 1 + i - 1]
    BY ONLY <1>1, <1>2, SubSeqProperties
<1> QED BY <1>3

(* And what such a part tells.                                             *)
LEMMA TextsOfPart ==
    ASSUME NEW S, NEW l \in Seq(S), NEW m \in Nat, NEW n \in Nat, m <= n, n <= Len(l)
    PROVE  TextsOf(SubSeq(l, m + 1, n)) = Told(l, m, n)
<1> DEFINE h == SubSeq(l, m + 1, n)
<1>1. h \in Seq(S) /\ Len(h) = n - m /\ \A i \in 1..(n - m) : h[i] = l[m + i]
    BY PartOf
<1> HIDE DEF h
<1>2. DOMAIN h = 1..(n - m)
    BY <1>1
<1>3. ASSUME NEW x PROVE x \in ToSet(h) <=> \E i \in (m + 1)..n : x = l[i]
    <2>1. ASSUME x \in ToSet(h) PROVE \E i \in (m + 1)..n : x = l[i]
        <3>1. PICK j \in 1..(n - m) : x = h[j]
            BY <1>2, <2>1 DEF ToSet
        <3>2. m + j \in (m + 1)..n /\ x = l[m + j]
            BY <1>1, <3>1
        <3> QED BY <3>2
    <2>2. ASSUME NEW i \in (m + 1)..n, x = l[i] PROVE x \in ToSet(h)
        <3>1. i - m \in 1..(n - m) /\ h[i - m] = l[i]
            BY <1>1
        <3> QED BY <1>2, <2>2, <3>1 DEF ToSet
    <2> QED BY <2>1, <2>2
<1>4. UNION {x.text : x \in ToSet(h)} = UNION {l[i].text : i \in (m + 1)..n}
    BY <1>3
<1> QED BY <1>4 DEF TextsOf, Told, h

(* One part after another.                                                 *)
LEMMA ToldAdds ==
    ASSUME NEW l, NEW m \in Nat, NEW n \in Nat, m <= n
    PROVE  Told(l, 0, n) = Told(l, 0, m) \cup Told(l, m, n)
<1>1. \A i : i \in 1..n <=> i \in 1..m \/ i \in (m + 1)..n
    OBVIOUS
<1> QED BY <1>1 DEF Told

(* Messages that come later change nothing.                                *)
LEMMA ToldSame ==
    ASSUME NEW l, NEW k, NEW m \in Nat, NEW n \in Nat, \A i \in 1..n : k[i] = l[i]
    PROVE  Told(k, m, n) = Told(l, m, n)
<1>1. \A i \in (m + 1)..n : k[i] = l[i]
    OBVIOUS
<1> QED BY <1>1 DEF Told

(* What the summarizer leaves out has no text.                             *)
LEMMA SummarizerReadsAll ==
    ASSUME NEW l \in Seq(StoredSet), NEW m \in Nat, NEW n \in Nat, m < n, n <= Len(l)
    PROVE  /\ Range_(l, m, n) # <<>>
           /\ HumanConversation(Range_(l, m, n)) = Told(l, m, n)
<1> DEFINE h == SubSeq(l, m + 1, n)
<1>1. Range_(l, m, n) = h
    BY DEF Range_, Minimum
<1>2. h \in Seq(StoredSet) /\ Len(h) = n - m
    BY PartOf
<1> HIDE DEF h
<1>3. ASSUME NEW x \in ToSet(h), ~(x.role # "tool" /\ ~RequestsTools(x))
      PROVE  x.text = {}
    <2>1. x \in StoredSet
        BY <1>2 DEF ToSet
    <2>2. PICK t \in Nat : x \in KeptOf(t)
        BY <2>1 DEF StoredSet
    <2> QED BY <1>3, <2>2
          DEF KeptOf, User, Assistant, ToolRequest, ToolResult, Message, RequestsTools
<1>4. HumanConversation(h) = TextsOf(h)
    BY <1>3 DEF HumanConversation, TextsOf
<1>5. TextsOf(h) = Told(l, m, n)
    BY TextsOfPart DEF h
<1>6. h # <<>>
    BY <1>2
<1> QED BY <1>1, <1>4, <1>5, <1>6

(* A prompt that begins where a turn does and is not too long is told all  *)
(* the messages that are left.                                             *)
LEMMA PromptTells ==
    ASSUME NEW l \in Seq(StoredSet), NEW n \in Nat, n <= Len(l), Boundary(l, n),
           Len(l) - n <= HISTORY_TAIL_CEILING
    PROVE  TextsOf(PromptHistory(Unsummarized(l, n), HISTORY_TAIL_CEILING))
               = Told(l, n, Len(l))
<1> DEFINE h == SubSeq(l, n + 1, Len(l))
           b == SubSeq(h, IF Len(h) > HISTORY_TAIL_CEILING
                          THEN Len(h) - HISTORY_TAIL_CEILING + 1 ELSE 1, Len(h))
<1>0. Minimum(n, Len(l)) = n
    BY DEF Minimum
<1>1. Unsummarized(l, n) = h
    BY <1>0 DEF Unsummarized
<1>2. h \in Seq(StoredSet) /\ Len(h) = Len(l) - n /\ (n < Len(l) => h[1] = l[n + 1])
    BY PartOf
<1>3. TextsOf(h) = Told(l, n, Len(l))
    BY TextsOfPart
<1>4. n < Len(l) => IsUser(h[1])
    BY <1>2 DEF Boundary
<1>5. PromptHistory(h, HISTORY_TAIL_CEILING) =
          IF SelectInSeq(b, IsUser) = 0 THEN <<>>
          ELSE SubSeq(b, SelectInSeq(b, IsUser), Len(b))
    BY DEF PromptHistory
<1> HIDE DEF h
<1>6. b = h
    <2>1. ~(Len(h) > HISTORY_TAIL_CEILING)
        BY <1>2, ConversationAssumption
    <2>2. b = SubSeq(h, 1, Len(h))
        BY <2>1
    <2> HIDE DEF b
    <2>3. SubSeq(h, 1, Len(h)) = h
        BY <1>2, SubSeqFull
    <2> QED BY <2>2, <2>3
<1> HIDE DEF b
<1>7. CASE n < Len(l)
    <2> DEFINE I == {i \in 1..Len(b) : IsUser(b[i])}
    <2>1. 1 \in I /\ \A i \in I : 1 <= i
        BY <1>2, <1>4, <1>6, <1>7
    <2>2. \A x \in I : (\A y \in I : x <= y) => x = 1
        BY <2>1
    <2> HIDE DEF I
    <2>3. Min(I) = 1
        BY <2>1, <2>2 DEF Min
    <2>4. SelectInSeq(b, IsUser) = Min(I)
        BY <2>1 DEF SelectInSeq, I
    <2>5. PromptHistory(h, HISTORY_TAIL_CEILING) = SubSeq(b, 1, Len(b))
        BY <1>5, <2>3, <2>4
    <2>6. SubSeq(b, 1, Len(b)) = h
        BY <1>2, <1>6, SubSeqFull
    <2> QED BY <1>1, <1>3, <2>5, <2>6
<1>8. CASE n = Len(l)
    <2>1. b = <<>> /\ Len(b) = 0
        BY <1>2, <1>6, <1>8
    <2>2. SelectInSeq(b, IsUser) = 0
        BY <2>1 DEF SelectInSeq
    <2>3. PromptHistory(h, HISTORY_TAIL_CEILING) = <<>>
        BY <1>5, <2>2
    <2> QED BY <1>1, <1>3, <1>6, <2>1, <2>3
<1> QED BY <1>7, <1>8

-------------------------------------------------------------------------------
(* A turn adds its messages, the customer's first.                         *)
LEMMA TurnAdds ==
    ASSUME NEW l \in Seq(StoredSet), NEW t \in Nat, NEW size,
           NEW k, k = l \o MessagesOf(t, size)
    PROVE  /\ k \in Seq(StoredSet) /\ Len(k) >= Len(l) + 2
           /\ \A i \in 1..Len(l) : k[i] = l[i]
           /\ IsUser(k[Len(l) + 1])
           /\ {t, -t} \subseteq Told(k, Len(l), Len(k))
<1> DEFINE u == User({t})
           a == Assistant({-t})
           r == ToolRequest({}, <<[id |-> t]>>)
           s == ToolResult({}, t)
<1>1. u \in StoredSet /\ a \in StoredSet /\ r \in StoredSet /\ s \in StoredSet
    BY DEF StoredSet, KeptOf
<1>2. IsUser(u) /\ u.text = {t} /\ a.text = {-t}
    BY DEF User, Assistant, Message, IsUser
<1>3. MessagesOf(t, size) = <<u, a>> \/ MessagesOf(t, size) = <<u, r, s, a>>
    BY DEF MessagesOf
<1> HIDE DEF u, a, r, s
<1>4. PICK added \in {<<u, a>>, <<u, r, s, a>>} : k = l \o added
    BY <1>3
<1>5. /\ added \in Seq(StoredSet) /\ Len(added) \in Nat /\ Len(added) >= 2
      /\ added[1] = u /\ added[Len(added)] = a
    <2>1. CASE added = <<u, a>>
        BY <1>1, <2>1
    <2>2. CASE added = <<u, r, s, a>>
        BY <1>1, <2>2
    <2> QED BY <1>4, <2>1, <2>2
<1>6. /\ k \in Seq(StoredSet) /\ Len(k) = Len(l) + Len(added)
      /\ \A i \in 1..Len(l) : k[i] = l[i]
      /\ k[Len(l) + 1] = u /\ k[Len(k)] = a
    BY <1>4, <1>5
<1>7. Len(l) + 1 \in (Len(l) + 1)..Len(k) /\ Len(k) \in (Len(l) + 1)..Len(k)
    BY <1>5, <1>6
<1>8. u.text \subseteq Told(k, Len(l), Len(k)) /\ a.text \subseteq Told(k, Len(l), Len(k))
    BY <1>6, <1>7 DEF Told
<1>9. Len(k) >= Len(l) + 2
    BY <1>5, <1>6
<1> QED BY <1>2, <1>6, <1>8, <1>9

(* A job begins, and the others stay as they are.                          *)
LEMMA JobBegins ==
    ASSUME NEW D, NEW f \in [D -> JobState], NEW n, n \notin D, NEW j \in JobState,
           NEW g, g = [k \in D \cup {n} |-> IF k = n THEN j ELSE f[k]]
    PROVE  /\ g \in [D \cup {n} -> JobState] /\ g[n] = j
           /\ \A k \in D : g[k] = f[k]
OBVIOUS

(* One goes on to its next step.                                           *)
LEMMA JobMoves ==
    ASSUME NEW D, NEW f \in [D -> JobState], NEW n \in D,
           NEW at \in {"messages", "count", "summary"}
    PROVE  /\ [f EXCEPT ![n].at = at] \in [D -> JobState]
           /\ [f EXCEPT ![n].at = at][n] = [f[n] EXCEPT !.at = at]
           /\ \A k \in D \ {n} : [f EXCEPT ![n].at = at][k] = f[k]
BY DEF JobState

(* And one ends.                                                           *)
LEMMA JobEnds ==
    ASSUME NEW D, NEW f \in [D -> JobState], NEW n \in D, NEW g,
           g = Restrict(f, D \ {n})
    PROVE  g \in [D \ {n} -> JobState] /\ \A k \in D \ {n} : g[k] = f[k]
BY DEF Restrict

(* A turn is appended.                                                     *)
LEMMA AppendKeeps ==
    ASSUME MemoryInv, AppendMessages
    PROVE  MemoryInv'
<1>1. PICK size : list' = list \o MessagesOf(turns + 1, size)
    BY DEF AppendMessages, Append_
<1>2. /\ turns' = turns + 1 /\ said' = said \cup {turns', -turns'}
      /\ appended' = appended \cup {Len(list')}
      /\ UNCHANGED <<count, summary, jobs, running, lost, met>>
    BY DEF AppendMessages, Append_, Answered
<1>3. MemoryShape
    BY DEF MemoryInv
<1>4. list \in Seq(StoredSet) /\ turns' \in Nat /\ count \in Nat /\ Len(list) \in Nat
    BY <1>2, <1>3 DEF MemoryShape
<1>5. /\ list' \in Seq(StoredSet) /\ Len(list') >= Len(list) + 2
      /\ \A i \in 1..Len(list) : list'[i] = list[i]
      /\ IsUser(list'[Len(list) + 1])
      /\ {turns', -turns'} \subseteq Told(list', Len(list), Len(list'))
    <2>1. PICK t \in Nat : t = turns'
        BY <1>4
    <2>2. PICK k : k = list'
        OBVIOUS
    <2>3. k = list \o MessagesOf(t, size)
        BY <1>1, <1>2, <2>1, <2>2
    <2> QED BY <1>4, <2>1, <2>2, <2>3, TurnAdds
<1>6. Len(list') \in Nat
    BY <1>5
<1>7. Totals' = Totals \cup {Len(list')}
    BY <1>2 DEF Totals
<1>8. MemoryShape'
    BY <1>2, <1>3, <1>4, <1>5, <1>6, <1>7 DEF MemoryShape
<1>9. BoundInv'
    <2> SUFFICES ASSUME {"outlived", "expired"} \cap met = {},
                        NEW n \in Totals' \cup {0, count}
                 PROVE  n <= Len(list') /\ Boundary(list', n)
        BY <1>2 DEF BoundInv
    <2>1. CASE n = Len(list')
        BY <1>6, <2>1 DEF Boundary
    <2>2. CASE n \in Totals \cup {0, count}
        <3>1. n \in Nat /\ n <= Len(list) /\ Boundary(list, n)
            BY <1>3, <2>2 DEF MemoryInv, BoundInv, MemoryShape
        <3>2. CASE n = Len(list)
            BY <1>4, <1>5, <1>6, <3>2 DEF Boundary
        <3>3. CASE n < Len(list)
            <4>1. n + 1 \in 1..Len(list)
                BY <1>4, <3>1, <3>3
            <4> QED BY <1>4, <1>5, <1>6, <3>1, <3>3, <4>1 DEF Boundary
        <3> QED BY <1>4, <3>1, <3>2, <3>3
    <2> QED BY <1>7, <2>1, <2>2
<1>10. DueInv'
    BY <1>2, <1>7 DEF MemoryInv, DueInv, At
<1>11. CoverInv'
    <2> SUFFICES ASSUME {"overtaken", "outlived", "expired", "summary lost"} \cap met = {}
                 PROVE  CoverInv'
        BY <1>2 DEF CoverInv
    <2>1. ASSUME NEW m \in Nat, NEW n \in Totals \cup {count}
          PROVE  Told(list', m, n) = Told(list, m, n)
        <3>0. {"outlived", "expired"} \cap met = {}
            OBVIOUS
        <3>1. n \in Nat /\ n <= Len(list)
            BY <1>3, <3>0 DEF MemoryInv, BoundInv, MemoryShape
        <3>2. \A i \in 1..n : i \in 1..Len(list)
            <4> SUFFICES ASSUME NEW i \in 1..n PROVE i \in 1..Len(list)
                OBVIOUS
            <4>1. i \in Int /\ 1 <= i /\ i <= n
                BY ONLY <3>1
            <4>2. Len(list) \in Nat
                BY <1>4
            <4> QED BY ONLY <3>1, <4>1, <4>2
        <3>3. \A i \in 1..n : list'[i] = list[i]
            BY <1>5, <3>2
        <3>4. PICK k : k = list'
            OBVIOUS
        <3>5. Told(k, m, n) = Told(list, m, n)
            BY ONLY <3>1, <3>3, <3>4, m \in Nat, ToldSame
        <3> QED BY <3>4, <3>5
    <2>2. \A n \in DOMAIN running : running[n].count \in Nat /\ n \in Totals
        BY <1>3 DEF MemoryShape, JobState, Totals
    <2> QED BY <1>2, <2>1, <2>2 DEF MemoryInv, CoverInv, Written, At
<1>12. SaidInv'
    <2>1. PICK k : k = list'
        OBVIOUS
    <2>2. Told(k, 0, Len(list)) = Told(list, 0, Len(list))
        BY <1>4, <1>5, <2>1, ToldSame
    <2>3. Told(k, 0, Len(k)) = Told(k, 0, Len(list)) \cup Told(k, Len(list), Len(k))
        <3>1. Len(list) <= Len(k) /\ Len(k) \in Nat
            BY <1>4, <1>5, <1>6, <2>1
        <3> QED BY <1>4, <3>1, ToldAdds
    <2> QED BY <1>2, <1>5, <2>1, <2>2, <2>3 DEF MemoryInv, SaidInv
<1> QED BY <1>8, <1>9, <1>10, <1>11, <1>12 DEF MemoryInv

(* A turn whose messages are not stored.                                   *)
LEMMA AppendFailsKeeps ==
    ASSUME MemoryInv, AppendFails
    PROVE  MemoryInv'
<1>1. /\ turns' = turns + 1 /\ met' = met \cup {"append failed"}
      /\ UNCHANGED <<list, count, summary, appended, jobs, running, lost>>
    BY DEF AppendFails, Answered, keys
<1>2. MemoryShape' /\ Totals' = Totals
    <2>1. Totals' = Totals
        <3>1. appended' = appended /\ jobs' = jobs /\ running' = running
            BY <1>1
        <3> QED BY ONLY <3>1 DEF Totals
    <2>2. turns' \in Nat
        <3>1. turns \in Nat /\ turns' = turns + 1
            BY <1>1 DEF MemoryInv, MemoryShape
        <3> QED BY ONLY <3>1
    <2> QED BY <1>1, <2>1, <2>2 DEF MemoryInv, MemoryShape
<1>3. BoundInv'
    BY <1>1, <1>2 DEF MemoryInv, BoundInv
<1>4. DueInv'
    BY <1>1, <1>2 DEF MemoryInv, DueInv, At
<1>5. CoverInv'
    BY <1>1 DEF MemoryInv, CoverInv, At, Written
<1>6. SaidInv'
    BY <1>1 DEF SaidInv
<1> QED BY <1>2, <1>3, <1>4, <1>5, <1>6 DEF MemoryInv

(* A turn asks for the summary that is due, or sees that none is.          *)
LEMMA TriggerKeeps ==
    ASSUME MemoryInv, NEW n \in appended, TriggerSummary(n)
    PROVE  MemoryInv'
<1>1. /\ appended' = appended \ {n}
      /\ UNCHANGED <<list, count, summary, running, said, turns, met>>
    BY DEF TriggerSummary, keys
<1>2. \/ jobs' = (IF Due(n, count) THEN jobs \cup {n} ELSE jobs) /\ lost' = lost
      \/ jobs' = jobs \cup {n} /\ lost' = lost
      \/ jobs' = jobs /\ lost' = lost \cup {n}
    BY DEF TriggerSummary
<1>3. Totals' \subseteq Totals
    BY <1>1, <1>2 DEF Totals
<1>4. MemoryShape'
    BY <1>1, <1>3 DEF MemoryInv, MemoryShape
<1>5. BoundInv'
    BY <1>1, <1>3 DEF MemoryInv, BoundInv
<1>6. DueInv'
    <2> SUFFICES ASSUME {"count lost", "expired", "overtaken", "outlived"} \cap met = {}
                 PROVE  DueInv'
        BY <1>1 DEF DueInv
    <2>1. ASSUME Len(list) - count >= SUMMARY_MESSAGE_INTERVAL
          PROVE  Len(list) \in Totals' \cup lost'
        <3>1. Len(list) \in Totals \cup lost
            BY <2>1 DEF MemoryInv, DueInv
        <3>2. Len(list) = n => Due(n, count)
            BY <2>1 DEF Due
        <3>3. CASE Len(list) = n
            BY <1>2, <3>2, <3>3 DEF Totals
        <3>4. CASE Len(list) # n
            BY <1>1, <1>2, <3>1, <3>4 DEF Totals
        <3> QED BY <3>3, <3>4
    <2> QED BY <1>1, <2>1 DEF MemoryInv, DueInv, At
<1>7. CoverInv'
    BY <1>1, <1>2 DEF MemoryInv, CoverInv, At, Written
<1>8. SaidInv'
    BY <1>1, <1>2 DEF MemoryInv, SaidInv
<1> QED BY <1>4, <1>5, <1>6, <1>7, <1>8 DEF MemoryInv

(* A job begins: it is one job less in the queue, and one more under way.  *)
LEMMA TakeKeeps ==
    ASSUME MemoryInv, NEW n \in jobs \cup DOMAIN running, TakeJob(n)
    PROVE  MemoryInv'
<1>1. MemoryShape
    BY DEF MemoryInv
<1>2. /\ n \in jobs /\ n \notin DOMAIN running /\ jobs' = jobs \ {n} /\ met \subseteq met'
      /\ UNCHANGED <<list, count, summary, appended, said, lost, turns>>
    BY DEF TakeJob, keys, turnVars
<1>3. PICK got \in SUBSET Int :
          running' = Begin(n, [at |-> "taken", summary |-> got, count |-> 0, texts |-> {}])
    BY <1>1 DEF TakeJob, MemoryShape
<1>4. n \in Nat \ {0} /\ running \in [DOMAIN running -> JobState]
    BY <1>1, <1>2 DEF MemoryShape, Totals
<1> DEFINE j == [at |-> "taken", summary |-> got, count |-> 0, texts |-> {}]
<1>5. j \in JobState
    BY DEF JobState
<1>6. /\ running' \in [DOMAIN running \cup {n} -> JobState] /\ running'[n] = j
      /\ \A k \in DOMAIN running : running'[k] = running[k]
    BY <1>2, <1>3, <1>4, <1>5 DEF Begin
<1>7. running'[n].at = "taken" /\ running'[n].count = 0
    BY <1>6
<1> HIDE DEF j
<1>8. DOMAIN running' = DOMAIN running \cup {n}
    BY <1>6
<1>9. Totals' = Totals
    BY <1>2, <1>8 DEF Totals
<1>10. MemoryShape'
    <2>1. \A k \in DOMAIN running' : running'[k].count < k
        BY <1>1, <1>4, <1>6, <1>7, <1>8 DEF MemoryShape
    <2> QED BY <1>1, <1>2, <1>6, <1>8, <1>9, <2>1 DEF MemoryShape
<1>11. BoundInv'
    BY <1>2, <1>9 DEF MemoryInv, BoundInv
<1>12. DueInv'
    BY <1>2, <1>6, <1>7, <1>8, <1>9 DEF MemoryInv, DueInv, At
<1>13. CoverInv'
    BY <1>2, <1>6, <1>7, <1>8 DEF MemoryInv, CoverInv, At, Written
<1>14. SaidInv'
    BY <1>2 DEF MemoryInv, SaidInv
<1> QED BY <1>10, <1>11, <1>12, <1>13, <1>14 DEF MemoryInv

(* What a summarizer reads is numbers, whichever range it is given.        *)
LEMMA ReadsNumbers ==
    ASSUME NEW l \in Seq(StoredSet), NEW m \in Nat, NEW n \in Nat
    PROVE  HumanConversation(Range_(l, m, n)) \subseteq Int
<1> DEFINE b == Minimum(n, Len(l))
           h == SubSeq(l, m + 1, b)
<1>1. b \in Nat /\ b <= Len(l)
    BY DEF Minimum
<1> HIDE DEF b
<1>2. \A i \in (m + 1)..b : l[i] \in StoredSet
    BY <1>1
<1>3. m + 1 \in Int /\ b \in Int
    BY <1>1
<1>4. h \in Seq(StoredSet)
    BY ONLY <1>2, <1>3, SubSeqProperties
<1>5. Range_(l, m, n) = h
    BY DEF Range_, b
<1> HIDE DEF h
<1>6. \A x \in ToSet(h) : x.text \subseteq Int
    <2> SUFFICES ASSUME NEW x \in ToSet(h) PROVE x.text \subseteq Int
        OBVIOUS
    <2>1. x \in StoredSet
        BY <1>4 DEF ToSet
    <2>2. PICK t \in Nat : x \in KeptOf(t)
        BY <2>1 DEF StoredSet
    <2>3. x.text \in {{}, {t}, {-t}}
        BY <2>2 DEF KeptOf, User, Assistant, ToolRequest, ToolResult, Message
    <2> QED BY <2>3
<1> QED BY <1>5, <1>6 DEF HumanConversation

(* A job that ends with its count leaves the totals as they are or one     *)
(* fewer, and what it has not written as it was.                           *)
LEMMA FinishEnds ==
    ASSUME MemoryShape, NEW n \in DOMAIN running, Finish(n)
    PROVE  /\ DOMAIN running' = DOMAIN running \ {n}
           /\ running' \in [DOMAIN running \ {n} -> JobState]
           /\ \A k \in DOMAIN running' : running'[k] = running[k]
<1>1. running \in [DOMAIN running -> JobState]
    BY DEF MemoryShape
<1>2. running' = Restrict(running, DOMAIN running \ {n})
    BY DEF Finish
<1>3. /\ running' \in [DOMAIN running \ {n} -> JobState]
      /\ \A k \in DOMAIN running \ {n} : running'[k] = running[k]
    BY <1>1, <1>2, JobEnds
<1> QED BY <1>3

(* A job sees that there is nothing to do for it, or goes on with the      *)
(* count it has read.                                                      *)
LEMMA CheckKeeps ==
    ASSUME MemoryInv, NEW n \in jobs \cup DOMAIN running, CheckCount(n)
    PROVE  MemoryInv'
<1>1. MemoryShape
    BY DEF MemoryInv
<1>2. /\ n \in DOMAIN running /\ running[n].at = "taken"
      /\ UNCHANGED <<list, count, summary, appended, jobs, said, lost, turns, met>>
    BY DEF CheckCount, At, keys, turnVars
<1>3. PICK c \in {count, 0} :
          IF n <= c THEN Finish(n)
          ELSE running' = Begin(n, [at |-> "messages", summary |-> running[n].summary,
                                    count |-> c, texts |-> {}])
    BY DEF CheckCount
<1>4. n \in Nat \ {0} /\ c \in Nat /\ count \in Nat /\ running \in [DOMAIN running -> JobState]
    BY <1>1, <1>2 DEF MemoryShape, Totals
<1>5. CASE n <= c
    <2>1. /\ DOMAIN running' = DOMAIN running \ {n}
          /\ running' \in [DOMAIN running \ {n} -> JobState]
          /\ \A k \in DOMAIN running' : running'[k] = running[k]
        BY <1>1, <1>2, <1>3, <1>5, FinishEnds
    <2>2. Totals' \subseteq Totals
        BY <1>2, <2>1 DEF Totals
    <2>3. MemoryShape'
        BY <1>1, <1>2, <2>1, <2>2 DEF MemoryShape
    <2>4. BoundInv'
        BY <1>2, <2>2 DEF MemoryInv, BoundInv
    <2>5. DueInv'
        <3> SUFFICES ASSUME {"count lost", "expired", "overtaken", "outlived"} \cap met = {}
                     PROVE  DueInv'
            BY <1>2 DEF DueInv
        <3>1. ASSUME Len(list) - count >= SUMMARY_MESSAGE_INTERVAL
              PROVE  Len(list) \in Totals' \cup lost
            <4>1. Len(list) \in Totals \cup lost
                BY <3>1 DEF MemoryInv, DueInv
            <4>2. Len(list) # n
                <5>1. c = 0 \/ c = count
                    OBVIOUS
                <5>2. SUMMARY_MESSAGE_INTERVAL \in Nat \ {0}
                    BY ConversationAssumption
                <5> QED BY ONLY <1>4, <1>5, <3>1, <5>1, <5>2
            <4> QED BY <1>2, <2>1, <4>1, <4>2 DEF Totals
        <3> QED BY <1>2, <2>1, <3>1 DEF MemoryInv, DueInv, At
    <2>6. Written' <=> Written
        BY <1>2, <2>1 DEF Written
    <2>7. CoverInv'
        BY <1>2, <2>1, <2>6 DEF MemoryInv, CoverInv, At
    <2>8. SaidInv'
        BY <1>2 DEF MemoryInv, SaidInv
    <2> QED BY <2>3, <2>4, <2>5, <2>7, <2>8 DEF MemoryInv
<1>6. CASE ~(n <= c)
    <2> DEFINE j == [at |-> "messages", summary |-> running[n].summary,
                     count |-> c, texts |-> {}]
    <2>1. running' = Begin(n, j)
        BY <1>3, <1>6
    <2>2. j \in JobState
        BY <1>2, <1>4 DEF JobState
    <2>3. j.at = "messages" /\ j.count = c
        OBVIOUS
    <2> HIDE DEF j
    <2>4. /\ running' \in [DOMAIN running -> JobState] /\ running'[n] = j
          /\ \A k \in DOMAIN running \ {n} : running'[k] = running[k]
        BY <1>2, <1>4, <2>1, <2>2 DEF Begin
    <2>5. DOMAIN running' = DOMAIN running
        BY <2>4
    <2>6. Totals' = Totals
        BY <1>2, <2>5 DEF Totals
    <2>7. \A k \in DOMAIN running' : running'[k].count < k
        BY <1>1, <1>4, <1>6, <2>3, <2>4, <2>5 DEF MemoryShape
    <2>8. MemoryShape'
        BY <1>1, <1>2, <2>4, <2>5, <2>6, <2>7 DEF MemoryShape
    <2>9. BoundInv'
        BY <1>2, <2>6 DEF MemoryInv, BoundInv
    <2>10. DueInv'
        BY <1>2, <2>3, <2>4, <2>5, <2>6 DEF MemoryInv, DueInv, At
    <2>11. Written' <=> Written
        BY <1>2, <2>3, <2>4, <2>5 DEF Written
    <2>12. CoverInv'
        BY <1>2, <2>3, <2>4, <2>5, <2>11 DEF MemoryInv, CoverInv, At
    <2>13. SaidInv'
        BY <1>2 DEF MemoryInv, SaidInv
    <2> QED BY <2>8, <2>9, <2>10, <2>12, <2>13 DEF MemoryInv
<1> QED BY <1>5, <1>6

(* A job gets on, without its count and its summary being changed.         *)
GetsOn(n, at, texts) ==
    /\ DOMAIN running' = DOMAIN running
    /\ running' \in [DOMAIN running -> JobState]
    /\ running'[n].at = at /\ running'[n].texts = texts
    /\ running'[n].count = running[n].count
    /\ running'[n].summary = running[n].summary
    /\ \A k \in DOMAIN running \ {n} : running'[k] = running[k]

(* A job goes on with what it has read.                                    *)
LEMMA MovesOn ==
    ASSUME MemoryShape, NEW n \in DOMAIN running,
           NEW at \in {"messages", "count", "summary"},
           running' = [running EXCEPT ![n].at = at]
    PROVE  GetsOn(n, at, running[n].texts)
<1>1. running \in [DOMAIN running -> JobState]
    BY DEF MemoryShape
<1>2. /\ running' \in [DOMAIN running -> JobState]
      /\ running'[n] = [running[n] EXCEPT !.at = at]
      /\ \A k \in DOMAIN running \ {n} : running'[k] = running[k]
    BY <1>1, JobMoves
<1>3. running[n] \in JobState
    BY <1>1
<1>4. /\ running'[n].at = at /\ running'[n].texts = running[n].texts
      /\ running'[n].count = running[n].count
      /\ running'[n].summary = running[n].summary
    BY <1>2, <1>3 DEF JobState
<1> QED BY <1>2, <1>4 DEF GetsOn

(* It keeps the shape of the memory, and its totals.                       *)
LEMMA GetsOnShape ==
    ASSUME MemoryInv, NEW n \in DOMAIN running, NEW at, NEW texts,
           GetsOn(n, at, texts),
           UNCHANGED <<list, turns, appended, jobs>>,
           count' \in Nat, summary' \subseteq Int
    PROVE  MemoryShape' /\ Totals' = Totals /\ n \in Totals
<1>1. Totals' = Totals /\ n \in Totals
    BY DEF Totals, GetsOn
<1>2. \A k \in DOMAIN running' : running'[k].count = running[k].count
    BY DEF GetsOn
<1> QED BY <1>1, <1>2 DEF MemoryInv, MemoryShape, GetsOn

(* The messages are summarized; or there are none left, and the job ends.  *)
LEMMA SummarizeKeeps ==
    ASSUME MemoryInv, NEW n \in jobs \cup DOMAIN running, Summarize(n)
    PROVE  MemoryInv'
<1> DEFINE c == running[n].count
           h == Range_(list, c, n)
<1>1. MemoryShape
    BY DEF MemoryInv
<1>2. /\ n \in DOMAIN running /\ running[n].at = "messages"
      /\ UNCHANGED <<list, count, summary, appended, said, lost, turns, jobs, met>>
    BY DEF Summarize, At, keys, turnVars
<1>3. n \in Nat /\ c \in Nat /\ c < n /\ list \in Seq(StoredSet) /\ n \in Totals
    BY <1>1, <1>2 DEF MemoryShape, Totals, JobState
<1>4. ASSUME {"outlived", "expired"} \cap met = {}
      PROVE  h # <<>> /\ HumanConversation(h) = Told(list, c, n)
    <2>1. n <= Len(list)
        BY <1>3, <1>4 DEF MemoryInv, BoundInv
    <2> QED BY <1>3, <2>1, SummarizerReadsAll
<1>5. CASE h = <<>>
    <2>1. ~({"outlived", "expired"} \cap met = {})
        BY <1>4, <1>5
    <2>2. Finish(n)
        BY <1>5 DEF Summarize
    <2>3. /\ DOMAIN running' = DOMAIN running \ {n}
          /\ running' \in [DOMAIN running \ {n} -> JobState]
          /\ \A k \in DOMAIN running' : running'[k] = running[k]
        BY <1>1, <1>2, <2>2, FinishEnds
    <2>4. Totals' \subseteq Totals
        BY <1>2, <2>3 DEF Totals
    <2>5. MemoryShape'
        BY <1>1, <1>2, <2>3, <2>4 DEF MemoryShape
    <2>6. BoundInv' /\ DueInv' /\ CoverInv'
        BY <1>2, <2>1 DEF BoundInv, DueInv, CoverInv
    <2>7. SaidInv'
        BY <1>2 DEF MemoryInv, SaidInv
    <2> QED BY <2>5, <2>6, <2>7 DEF MemoryInv
<1>6. CASE h # <<>>
    <2> DEFINE texts == HumanConversation(h)
               first == [running EXCEPT ![n].at = "count"]
    <2>1. running' = [first EXCEPT ![n].texts = texts]
        BY <1>6 DEF Summarize
    <2>2. texts \subseteq Int
        BY <1>3, ReadsNumbers
    <2>3. running \in [DOMAIN running -> JobState]
        BY <1>1 DEF MemoryShape
    <2>4. /\ first \in [DOMAIN running -> JobState]
          /\ first[n] = [running[n] EXCEPT !.at = "count"]
          /\ \A k \in DOMAIN running \ {n} : first[k] = running[k]
        BY <1>2, <2>3, JobMoves
    <2> HIDE DEF texts, first, c, h
    <2>5. running[n] \in JobState /\ first[n] \in JobState
        BY <1>2, <2>3, <2>4
    <2>6. running'[n] = [first[n] EXCEPT !.texts = texts]
        BY <1>2, <2>1, <2>4
    <2>7. running'[n] \in JobState
        BY <2>2, <2>5, <2>6 DEF JobState
    <2>8. /\ running'[n].at = "count" /\ running'[n].texts = texts
          /\ running'[n].count = running[n].count
          /\ running'[n].summary = running[n].summary
        BY <2>4, <2>5, <2>6 DEF JobState
    <2>9. /\ \A k \in DOMAIN running \ {n} : running'[k] = running[k]
          /\ running' = [k \in DOMAIN running |-> running'[k]]
          /\ DOMAIN running' = DOMAIN running
        BY <2>1, <2>4
    <2>10. running' \in [DOMAIN running -> JobState]
        BY <2>3, <2>7, <2>9
    <2>11. GetsOn(n, "count", texts)
        BY <2>8, <2>9, <2>10 DEF GetsOn
    <2>12. MemoryShape' /\ Totals' = Totals
        BY <1>1, <1>2, <2>11, GetsOnShape DEF MemoryShape
    <2>13. BoundInv'
        BY <1>2, <2>12 DEF MemoryInv, BoundInv
    <2>14. DueInv'
        BY <1>2, <2>11, <2>12 DEF MemoryInv, DueInv, At, GetsOn
    <2>15. CoverInv'
        <3> SUFFICES ASSUME {"overtaken", "outlived", "expired", "summary lost"} \cap met = {}
                     PROVE  CoverInv'
            BY <1>2 DEF CoverInv
        <3>1. texts = Told(list, running[n].count, n)
            BY <1>4 DEF texts, h, c
        <3>2. Written' => Written
            BY <1>2, <2>11 DEF Written, GetsOn
        <3> QED BY <1>2, <2>11, <3>1, <3>2 DEF MemoryInv, CoverInv, At, GetsOn
    <2>16. SaidInv'
        BY <1>2 DEF MemoryInv, SaidInv
    <2> QED BY <2>12, <2>13, <2>14, <2>15, <2>16 DEF MemoryInv
<1> QED BY <1>5, <1>6

(* Gemini answers without a text: nothing is promised of the summary now.  *)
LEMMA EmptyKeeps ==
    ASSUME MemoryInv, NEW n \in jobs \cup DOMAIN running, EmptySummary(n)
    PROVE  MemoryInv'
<1>1. /\ n \in DOMAIN running /\ running[n].at = "messages"
      /\ running' = [running EXCEPT ![n].at = "count"]
      /\ met' = met \cup {"summary lost"}
      /\ UNCHANGED <<list, count, summary, appended, said, lost, turns, jobs>>
    BY DEF EmptySummary, At, keys, turnVars
<1>2. GetsOn(n, "count", running[n].texts)
    BY <1>1, MovesOn DEF MemoryInv
<1>3. MemoryShape' /\ Totals' = Totals
    BY <1>1, <1>2, GetsOnShape DEF MemoryInv, MemoryShape
<1>4. BoundInv'
    BY <1>1, <1>3 DEF MemoryInv, BoundInv
<1>5. DueInv'
    BY <1>1, <1>2, <1>3 DEF MemoryInv, DueInv, At, GetsOn
<1>6. CoverInv'
    BY <1>1 DEF CoverInv
<1>7. SaidInv'
    BY <1>1 DEF MemoryInv, SaidInv
<1> QED BY <1>3, <1>4, <1>5, <1>6, <1>7 DEF MemoryInv

(* A job is put back into the queue, or is lost.                           *)
LEMMA JobFailsKeeps ==
    ASSUME MemoryInv, NEW n \in jobs \cup DOMAIN running, JobFails(n)
    PROVE  MemoryInv'
<1>1. /\ n \in DOMAIN running /\ Finish(n) /\ met \subseteq met'
      /\ \/ jobs' = jobs \cup {n} /\ lost' = lost
         \/ jobs' = jobs /\ lost' = lost \cup {n}
      /\ UNCHANGED <<list, count, summary, appended, said, turns>>
    BY DEF JobFails, keys, turnVars
<1>2. /\ DOMAIN running' = DOMAIN running \ {n}
      /\ running' \in [DOMAIN running \ {n} -> JobState]
      /\ \A k \in DOMAIN running' : running'[k] = running[k]
    BY <1>1, FinishEnds DEF MemoryInv
<1>3. Totals' \subseteq Totals /\ Totals \cup lost = Totals' \cup lost'
    BY <1>1, <1>2 DEF Totals
<1>4. MemoryShape'
    BY <1>1, <1>2, <1>3 DEF MemoryInv, MemoryShape
<1>5. BoundInv'
    BY <1>1, <1>3 DEF MemoryInv, BoundInv
<1>6. DueInv'
    BY <1>1, <1>2, <1>3 DEF MemoryInv, DueInv, At
<1>7. CoverInv'
    <2> SUFFICES ASSUME {"overtaken", "outlived", "expired", "summary lost"} \cap met' = {}
                 PROVE  CoverInv'
        BY DEF CoverInv
    <2>1. running[n].at # "summary"
        BY <1>1 DEF JobFails, At
    <2>2. Written' => Written
        BY <1>2, <2>1 DEF Written
    <2> QED BY <1>1, <1>2, <2>2 DEF MemoryInv, CoverInv, At
<1>8. SaidInv'
    BY <1>1 DEF MemoryInv, SaidInv
<1> QED BY <1>4, <1>5, <1>6, <1>7, <1>8 DEF MemoryInv

(* A job that has read what there is now, alone, is about to make the      *)
(* summary tell of all its messages.                                       *)
LEMMA NotOvertaken ==
    ASSUME MemoryInv, NEW n \in DOMAIN running, running[n].at = "count",
           {"overtaken", "outlived", "expired", "summary lost"}
               \cap (met \cup Overtaken(n)) = {}
    PROVE  /\ count = running[n].count /\ Written
           /\ Told(list, 0, n) \subseteq running[n].summary \cup running[n].texts
           /\ Told(list, 0, count) \subseteq running[n].summary \cup running[n].texts
<1>1. "overtaken" \notin Overtaken(n)
    OBVIOUS
<1>2. /\ count = running[n].count /\ summary = running[n].summary
      /\ \A k \in DOMAIN running \ {n} : ~At(k, "summary")
    BY <1>1 DEF Overtaken
<1>3. Written
    BY <1>2 DEF Written, At
<1>4. Told(list, 0, count) \subseteq summary
    BY <1>3 DEF MemoryInv, CoverInv
<1>5. Told(list, count, n) \subseteq running[n].texts
    BY <1>2 DEF MemoryInv, CoverInv, At
<1>6. n \in Nat /\ count \in Nat /\ count <= n
    <2>1. n \in Nat /\ count \in Nat
        BY DEF MemoryInv, MemoryShape, Totals
    <2>2. running[n].count < n
        BY DEF MemoryInv, MemoryShape
    <2> QED BY ONLY <1>2, <2>1, <2>2
<1>7. Told(list, 0, n) = Told(list, 0, count) \cup Told(list, count, n)
    <2>1. PICK l : l = list
        OBVIOUS
    <2>2. PICK c \in Nat : c = count
        BY <1>6
    <2>3. Told(l, 0, n) = Told(l, 0, c) \cup Told(l, c, n)
        BY ONLY <1>6, <2>2, ToldAdds
    <2> QED BY <2>1, <2>2, <2>3
<1> QED BY <1>2, <1>3, <1>4, <1>5, <1>7

(* The count is stored, or is not; the job goes on to the summary.         *)
LEMMA CountKeeps ==
    ASSUME MemoryInv, NEW n \in DOMAIN running, running[n].at = "count",
           running' = [running EXCEPT ![n].at = "summary"],
           UNCHANGED <<list, summary, appended, said, lost, turns, jobs>>,
           \/ count' = n /\ met' = met \cup Overtaken(n)
           \/ count' = count /\ met' = met \cup {"count lost"} \cup Overtaken(n)
    PROVE  MemoryInv'
<1>1. GetsOn(n, "summary", running[n].texts)
    BY MovesOn DEF MemoryInv
<1>2. n \in Totals /\ n \in Nat /\ count \in Nat
    BY DEF Totals, MemoryInv, MemoryShape
<1>3. MemoryShape' /\ Totals' = Totals
    BY <1>1, <1>2, GetsOnShape DEF MemoryInv, MemoryShape
<1>4. met \cup Overtaken(n) \subseteq met'
    OBVIOUS
<1>5. BoundInv'
    BY <1>2, <1>3, <1>4 DEF MemoryInv, BoundInv
<1>6. DueInv'
    <2> SUFFICES ASSUME {"count lost", "expired", "overtaken", "outlived"}
                            \cap met' = {}
                 PROVE  DueInv'
        BY DEF DueInv
    <2>1. count' = n /\ "overtaken" \notin Overtaken(n)
        BY <1>4
    <2>2. {"count lost", "expired", "overtaken", "outlived"} \cap met = {}
        BY <1>4
    <2>3. /\ count = running[n].count /\ count < n
          /\ \A k \in DOMAIN running \ {n} : ~At(k, "summary")
        BY <2>1 DEF Overtaken, MemoryInv, MemoryShape
    <2>4. ASSUME Len(list) - n >= SUMMARY_MESSAGE_INTERVAL
          PROVE  Len(list) \in Totals \cup lost
        <3>1. Len(list) \in Nat
            <4>1. list \in Seq(StoredSet)
                BY DEF MemoryInv, MemoryShape
            <4> QED BY ONLY <4>1
        <3>2. Len(list) - count >= SUMMARY_MESSAGE_INTERVAL
            BY ONLY <1>2, <2>3, <2>4, <3>1, ConversationAssumption
        <3> QED BY <2>2, <3>2 DEF MemoryInv, DueInv
    <2>5. ASSUME NEW k \in DOMAIN running', At(k, "summary")' PROVE k <= count'
        <3>1. k = n
            BY <1>1, <2>3, <2>5 DEF At, GetsOn
        <3>2. n <= n
            BY ONLY <1>2
        <3> QED BY <2>1, <3>1, <3>2
    <2> QED BY <1>3, <2>1, <2>4, <2>5 DEF DueInv
<1>7. CoverInv'
    <2> SUFFICES ASSUME {"overtaken", "outlived", "expired", "summary lost"} \cap met' = {}
                 PROVE  CoverInv'
        BY DEF CoverInv
    <2>1. {"overtaken", "outlived", "expired", "summary lost"} \cap (met \cup Overtaken(n)) = {}
        BY <1>4
    <2>2. /\ Told(list, 0, n) \subseteq running[n].summary \cup running[n].texts
          /\ Told(list, 0, count) \subseteq running[n].summary \cup running[n].texts
          /\ Written
        BY <2>1, NotOvertaken
    <2>3. ~Written' /\ \A k \in DOMAIN running \ {n} : ~At(k, "summary")'
        BY <1>1, <2>2 DEF Written, At, GetsOn
    <2>4. Told(list', 0, count') \subseteq running'[n].summary \cup running'[n].texts
        BY <1>1, <2>2 DEF GetsOn
    <2>5. ASSUME NEW k \in DOMAIN running', At(k, "count")'
          PROVE  Told(list', running'[k].count, k) \subseteq running'[k].texts
        <3>1. k # n /\ k \in DOMAIN running /\ running'[k] = running[k]
            BY <1>1, <2>5 DEF At, GetsOn
        <3>2. {"overtaken", "outlived", "expired", "summary lost"} \cap met = {}
            BY <2>1
        <3> QED BY <2>5, <3>1, <3>2 DEF MemoryInv, CoverInv, At
    <2> QED BY <1>1, <2>3, <2>4, <2>5 DEF CoverInv, At, GetsOn
<1>8. SaidInv'
    BY <1>4 DEF MemoryInv, SaidInv
<1> QED BY <1>3, <1>5, <1>6, <1>7, <1>8 DEF MemoryInv

(* The summary is stored, or is not, and the job is done.                  *)
LEMMA SummaryKeeps ==
    ASSUME MemoryInv, NEW n \in DOMAIN running, running[n].at = "summary", Finish(n),
           UNCHANGED <<list, count, appended, said, lost, turns, jobs>>,
           \/ summary' = summary /\ met' = met \cup {"summary lost"}
           \/ /\ summary' = running[n].summary \cup running[n].texts \/ summary' = summary
              /\ running[n].summary \cup running[n].texts \subseteq summary'
              /\ met' = met
    PROVE  MemoryInv'
<1>1. MemoryShape
    BY DEF MemoryInv
<1>2. /\ DOMAIN running' = DOMAIN running \ {n}
      /\ running' \in [DOMAIN running \ {n} -> JobState]
      /\ \A k \in DOMAIN running' : running'[k] = running[k]
    BY <1>1, FinishEnds
<1>3. Totals' \subseteq Totals
    BY <1>2 DEF Totals
<1>4. summary' \subseteq Int
    BY <1>1 DEF MemoryShape, JobState
<1>5. MemoryShape'
    BY <1>1, <1>2, <1>3, <1>4 DEF MemoryShape
<1>6. BoundInv'
    BY <1>3 DEF MemoryInv, BoundInv
<1>7. DueInv'
    <2> SUFFICES ASSUME {"count lost", "expired", "overtaken", "outlived"}
                            \cap met' = {}
                 PROVE  DueInv'
        BY DEF DueInv
    <2>1. {"count lost", "expired", "overtaken", "outlived"} \cap met = {}
        OBVIOUS
    <2>2. n <= count
        BY <2>1 DEF MemoryInv, DueInv, At
    <2>3. ASSUME Len(list) - count >= SUMMARY_MESSAGE_INTERVAL
          PROVE  Len(list) \in Totals' \cup lost
        <3>1. Len(list) \in Totals \cup lost
            BY <2>1, <2>3 DEF MemoryInv, DueInv
        <3>2. Len(list) # n
            <4>1. list \in Seq(StoredSet) /\ count \in Nat
                BY <1>1 DEF MemoryShape
            <4>2. Len(list) \in Nat
                BY ONLY <4>1
            <4> QED BY ONLY <2>2, <2>3, <4>1, <4>2, ConversationAssumption
        <3> QED BY <1>2, <3>1, <3>2 DEF Totals
    <2> QED BY <1>2, <2>1, <2>3 DEF MemoryInv, DueInv, At
<1>8. CoverInv'
    <2> SUFFICES ASSUME {"overtaken", "outlived", "expired", "summary lost"} \cap met' = {}
                 PROVE  CoverInv'
        BY DEF CoverInv
    <2>1. met' = met /\ running[n].summary \cup running[n].texts \subseteq summary'
        OBVIOUS
    <2>2. Told(list, 0, count) \subseteq running[n].summary \cup running[n].texts
        BY <2>1 DEF MemoryInv, CoverInv, At
    <2>3. Told(list', 0, count') \subseteq summary'
        BY <2>1, <2>2
    <2> QED BY <1>2, <2>1, <2>3 DEF MemoryInv, CoverInv, At
<1>9. SaidInv'
    BY DEF MemoryInv, SaidInv
<1> QED BY <1>5, <1>6, <1>7, <1>8, <1>9 DEF MemoryInv

(* The count and the summary, as the code stores them.                     *)
LEMMA StoreKeeps ==
    ASSUME MemoryInv, NEW n \in jobs \cup DOMAIN running,
           SetLastSummarizedCount(n) \/ SetSummary(n) \/ SetFails(n)
    PROVE  MemoryInv'
<1>1. CASE SetLastSummarizedCount(n)
    <2>1. /\ n \in DOMAIN running /\ running[n].at = "count"
          /\ running' = [running EXCEPT ![n].at = "summary"]
          /\ UNCHANGED <<list, summary, appended, said, lost, turns, jobs>>
          /\ count' = n /\ met' = met \cup Overtaken(n)
        BY <1>1 DEF SetLastSummarizedCount, At, turnVars
    <2> QED BY <2>1, CountKeeps
<1>2. CASE SetSummary(n)
    <2> DEFINE new == running[n].summary \cup running[n].texts
    <2>1. /\ n \in DOMAIN running /\ running[n].at = "summary" /\ Finish(n)
          /\ UNCHANGED <<list, count, appended, said, lost, turns, jobs>>
          /\ met' = met
          /\ (new = {} /\ summary' = summary) \/ summary' = new
        BY <1>2 DEF SetSummary, At, turnVars
    <2>2. new \subseteq summary'
        BY <2>1
    <2> QED BY <2>1, <2>2, SummaryKeeps
<1>3. CASE SetFails(n)
    <2>1. CASE At(n, "count") /\ running' = [running EXCEPT ![n].at = "summary"]
                 /\ met' = met \cup {"count lost"} \cup Overtaken(n)
        <3>1. UNCHANGED <<list, count, summary, appended, said, lost, turns, jobs>>
            BY <1>3 DEF SetFails, keys, turnVars
        <3>2. n \in DOMAIN running /\ running[n].at = "count"
            BY <2>1 DEF At
        <3> QED BY <2>1, <3>1, <3>2, CountKeeps
    <2>2. CASE At(n, "summary") /\ Finish(n) /\ met' = met \cup {"summary lost"}
        <3>1. UNCHANGED <<list, count, summary, appended, said, lost, turns, jobs>>
            BY <1>3 DEF SetFails, keys, turnVars
        <3>2. n \in DOMAIN running /\ running[n].at = "summary"
            BY <2>2 DEF At
        <3> QED BY <2>2, <3>1, <3>2, SummaryKeeps
    <2> QED BY <1>3, <2>1, <2>2 DEF SetFails
<1> QED BY <1>1, <1>2, <1>3

(* A tick: the list that expires takes everything with it, or leaves       *)
(* something that outlives it; the count and the summary that expire first *)
(* are missing.                                                            *)
LEMMA TickKeeps ==
    ASSUME MemoryInv, Tick
    PROVE  MemoryInv'
<1>1. /\ list' = <<>> \/ list' = list
      /\ count' = 0 \/ count' = count
      /\ summary' = {} \/ summary' = summary
      /\ UNCHANGED <<appended, turns, jobs, running>>
      /\ IF list' = <<>> THEN said' = {} ELSE said' = said /\ lost' = lost
      /\ met \subseteq met'
    BY DEF Tick
<1>2. MemoryShape
    BY DEF MemoryInv
<1>3. Totals' = Totals /\ Totals \subseteq Nat \ {0} /\ DOMAIN running \subseteq Totals
    BY <1>1, <1>2 DEF Totals, MemoryShape
<1>4. MemoryShape'
    <2>1. list' \in Seq(StoredSet)
        <3>1. list \in Seq(StoredSet) /\ <<>> \in Seq(StoredSet)
            BY <1>2 DEF MemoryShape
        <3> QED BY <1>1, <3>1
    <2>2. count' \in Nat /\ summary' \subseteq Int
        BY <1>1, <1>2 DEF MemoryShape
    <2>3. Totals' \subseteq Nat \ {0} /\ turns' \in Nat
        BY <1>1, <1>2, <1>3 DEF MemoryShape
    <2>4. /\ running' \in [DOMAIN running' -> JobState]
          /\ \A n \in DOMAIN running' : running'[n].count < n
        BY <1>1, <1>2 DEF MemoryShape
    <2> QED BY <2>1, <2>2, <2>3, <2>4 DEF MemoryShape
<1>5. CASE list' = <<>>
    <2>1. ASSUME {"outlived", "expired"} \cap met' = {}
          PROVE  Totals = {} /\ count' = 0
        <3>1. {"outlived", "expired"} \cap met = {}
            BY <1>1, <2>1
        <3>2. CASE list = <<>>
            <4>1. \A n \in Totals \cup {0, count} : n <= 0
                BY <3>1, <3>2 DEF MemoryInv, BoundInv
            <4>2. count \in Nat
                BY <1>2 DEF MemoryShape
            <4>3. Totals = {}
                BY ONLY <1>3, <4>1
            <4>4. count <= 0
                BY <4>1
            <4>5. count = 0
                BY ONLY <4>2, <4>4
            <4> QED BY <1>1, <4>3, <4>5
        <3>3. CASE list # <<>>
            <4>1. ~(count' > 0 \/ Pending)
                BY <1>5, <2>1, <3>3 DEF Tick
            <4>2. count' \in Nat
                BY <1>4 DEF MemoryShape
            <4>3. ~(count' > 0)
                BY <4>1
            <4>4. count' = 0
                BY <4>2, <4>3
            <4>5. jobs = {} /\ appended = {} /\ running = <<>>
                BY <4>1 DEF Pending
            <4>6. DOMAIN running = {}
                BY <4>5
            <4>7. Totals = {}
                BY <4>5, <4>6 DEF Totals
            <4> QED BY <4>4, <4>7
        <3> QED BY <3>2, <3>3
    <2>2. Len(list') = 0
        BY <1>5
    <2>3. BoundInv'
        <3> SUFFICES ASSUME {"outlived", "expired"} \cap met' = {},
                            NEW n \in Totals' \cup {0, count'}
                     PROVE  n <= Len(list') /\ Boundary(list', n)
            BY DEF BoundInv
        <3>1. n = 0
            BY <1>3, <2>1
        <3> QED BY <2>2, <3>1 DEF Boundary
    <2>4. DueInv'
        <3> SUFFICES ASSUME {"outlived", "expired"} \cap met' = {} PROVE DueInv'
            BY DEF DueInv
        <3>1. Totals = {} /\ count' = 0
            BY <2>1
        <3>2. ~(Len(list') - count' >= SUMMARY_MESSAGE_INTERVAL)
            BY <2>2, <3>1, ConversationAssumption
        <3> QED BY <1>1, <1>3, <3>1, <3>2 DEF DueInv
    <2>5. CoverInv'
        <3> SUFFICES ASSUME {"outlived", "expired"} \cap met' = {} PROVE CoverInv'
            BY DEF CoverInv
        <3>1. Totals = {} /\ count' = 0
            BY <2>1
        <3>2. PICK k : k = list'
            OBVIOUS
        <3>3. \A i : i \notin (0 + 1)..0
            OBVIOUS
        <3>4. Told(k, 0, 0) = {}
            BY <3>3 DEF Told
        <3> QED BY <1>1, <1>3, <3>1, <3>2, <3>4 DEF CoverInv
    <2>6. SaidInv'
        BY <1>1, <1>5 DEF SaidInv
    <2> QED BY <1>4, <2>3, <2>4, <2>5, <2>6 DEF MemoryInv
<1>6. CASE list' # <<>>
    <2>1. list' = list /\ said' = said /\ lost' = lost
        BY <1>1, <1>6
    <2>2. ASSUME "expired" \notin met' PROVE count' = count /\ summary' = summary
        BY <1>6, <2>2 DEF Tick
    <2>3. BoundInv'
        BY <1>1, <1>3, <2>1, <2>2 DEF MemoryInv, BoundInv
    <2>4. DueInv'
        <3> SUFFICES ASSUME {"count lost", "expired", "overtaken", "outlived"}
                                \cap met' = {}
                     PROVE  DueInv'
            BY DEF DueInv
        <3>1. count' = count
            BY <2>2
        <3>2. {"count lost", "expired", "overtaken", "outlived"} \cap met = {}
            BY <1>1
        <3> QED BY <1>1, <1>3, <2>1, <3>1, <3>2 DEF MemoryInv, DueInv, At
    <2>5. CoverInv'
        BY <1>1, <2>1, <2>2 DEF MemoryInv, CoverInv, At, Written
    <2>6. SaidInv'
        BY <1>1, <2>1 DEF MemoryInv, SaidInv
    <2> QED BY <1>4, <2>3, <2>4, <2>5, <2>6 DEF MemoryInv
<1> QED BY <1>5, <1>6

(* The invariant holds at the start.                                       *)
LEMMA MemoryStart == Init => MemoryInv
<1> SUFFICES ASSUME Init PROVE MemoryInv
    OBVIOUS
<1>1. /\ list = <<>> /\ count = 0 /\ summary = {} /\ appended = {} /\ jobs = {}
      /\ running = <<>> /\ said = {} /\ turns = 0
    BY DEF Init
<1>2. DOMAIN running = {} /\ Totals = {} /\ Len(list) = 0
    BY <1>1 DEF Totals
<1>3. running \in [DOMAIN running -> JobState]
    BY <1>1, <1>2
<1>4. MemoryShape
    BY <1>1, <1>2, <1>3 DEF MemoryShape
<1>5. BoundInv
    <2> SUFFICES ASSUME NEW n \in Totals \cup {0, count}
                 PROVE  n <= Len(list) /\ Boundary(list, n)
        BY DEF BoundInv
    <2>1. n = 0
        BY <1>1, <1>2
    <2> QED BY <1>2, <2>1 DEF Boundary
<1>6. DueInv
    <2>1. ~(Len(list) - count >= SUMMARY_MESSAGE_INTERVAL)
        BY ONLY <1>1, <1>2, ConversationAssumption
    <2> QED BY <1>2, <2>1 DEF DueInv
<1>7. Told(list, 0, count) = {}
    <2>1. \A i : i \notin (0 + 1)..0
        OBVIOUS
    <2> QED BY <1>1, <2>1 DEF Told
<1>8. CoverInv
    BY <1>2, <1>7 DEF CoverInv
<1>9. SaidInv
    BY <1>1 DEF SaidInv
<1> QED BY <1>4, <1>5, <1>6, <1>8, <1>9 DEF MemoryInv

(* Every step keeps it.                                                    *)
LEMMA MemoryStep == MemoryInv /\ [Next]_vars => MemoryInv'
<1> SUFFICES ASSUME MemoryInv, [Next]_vars PROVE MemoryInv'
    OBVIOUS
<1>1. CASE AppendMessages
    BY <1>1, AppendKeeps
<1>2. CASE AppendFails
    BY <1>2, AppendFailsKeeps
<1>3. ASSUME NEW n \in appended, TriggerSummary(n) PROVE MemoryInv'
    BY <1>3, TriggerKeeps
<1>4. ASSUME NEW n \in jobs \cup DOMAIN running, Consume(n) PROVE MemoryInv'
    BY <1>4, TakeKeeps, CheckKeeps, SummarizeKeeps, EmptyKeeps, JobFailsKeeps, StoreKeeps DEF Consume
<1>5. CASE Tick
    BY <1>5, TickKeeps
<1>6. CASE ReadHistory \/ ReadSummary \/ ReadLastSummarizedCount \/ UNCHANGED vars
    <2>1. UNCHANGED <<list, count, summary, appended, jobs, running, said, lost, turns, met>>
        BY <1>6 DEF ReadHistory, ReadSummary, ReadLastSummarizedCount, keys, vars
    <2>2. Totals' = Totals /\ Written' = Written
        BY <2>1 DEF Totals, Written
    <2> QED BY <2>1, <2>2
            DEF MemoryInv, MemoryShape, BoundInv, DueInv, CoverInv, SaidInv, At
<1> QED BY <1>1, <1>2, <1>3, <1>4, <1>5, <1>6 DEF Next

(* What the invariant says of a state in which no job is left.             *)
LEMMA InvKeepsUp == MemoryInv => SummaryKeepsUp
<1> SUFFICES ASSUME MemoryInv,
                    {"count lost", "expired", "overtaken", "outlived"}
                        \cap met = {},
                    ~Pending, Len(list) \notin lost
             PROVE  Len(list) - count < SUMMARY_MESSAGE_INTERVAL
    BY DEF SummaryKeepsUp
<1>1. jobs = {} /\ appended = {} /\ running = <<>>
    BY DEF Pending
<1>2. DOMAIN running = {}
    BY ONLY <1>1
<1>3. Totals = {}
    BY <1>1, <1>2 DEF Totals
<1>4. ~(Len(list) - count >= SUMMARY_MESSAGE_INTERVAL)
    BY <1>3 DEF MemoryInv, DueInv
<1>5. list \in Seq(StoredSet) /\ count \in Nat
    BY DEF MemoryInv, MemoryShape
<1> QED BY ONLY <1>4, <1>5, ConversationAssumption

(* A turn has read nothing at first.                                       *)
LEMMA ReadingStart == Init => ReadingShape /\ ReadingInv
<1> SUFFICES ASSUME Init PROVE ReadingShape /\ ReadingInv
    OBVIOUS
<1>1. said = {} /\ reading = [at |-> "none", list |-> <<>>, said |-> {}, summary |-> {},
                              covers |-> 0, count |-> 0]
    BY DEF Init
<1>2. reading \in ReadingState /\ reading.at = "none" /\ reading.covers = 0
      /\ reading.count = 0 /\ reading.said = {}
    <2>1. PICK T : T = Seq(StoredSet)
        OBVIOUS
    <2>2. <<>> \in T
        BY <2>1
    <2>3. reading \in ReadingOf(T)
        BY ONLY <1>1, <2>2 DEF ReadingOf
    <2> QED BY <1>1, <2>1, <2>3 DEF ReadingState
<1> QED BY <1>1, <1>2 DEF ReadingShape, ReadingInv

(* What a turn has read after one of its reads, whatever lists there are.  *)
LEMMA ReadsOn ==
    ASSUME NEW T, NEW r \in ReadingOf(T), NEW at \in {"summary", "count", "told"}
    PROVE  /\ \A l \in T, t \in SUBSET Int :
                LET x == [r EXCEPT !.at = at, !.list = l, !.said = t]
                IN  x \in ReadingOf(T) /\ ReadIs(x, at, l, t, r.summary, r.covers, r.count)
           /\ \A text \in SUBSET Int, m \in Nat :
                LET x == [r EXCEPT !.at = at, !.summary = text, !.covers = m]
                IN  x \in ReadingOf(T) /\ ReadIs(x, at, r.list, r.said, text, m, r.count)
           /\ \A n \in Nat :
                LET x == [r EXCEPT !.at = at, !.count = n]
                IN  x \in ReadingOf(T)
                    /\ ReadIs(x, at, r.list, r.said, r.summary, r.covers, n)
           /\ LET x == [r EXCEPT !.at = at]
              IN  x \in ReadingOf(T)
                  /\ ReadIs(x, at, r.list, r.said, r.summary, r.covers, r.count)
           /\ LET x == [r EXCEPT !.said = {}]
              IN  x \in ReadingOf(T)
                  /\ ReadIs(x, r.at, r.list, {}, r.summary, r.covers, r.count)
<1>1. ASSUME NEW l \in T, NEW t \in SUBSET Int
      PROVE  LET x == [r EXCEPT !.at = at, !.list = l, !.said = t]
             IN  x \in ReadingOf(T) /\ ReadIs(x, at, l, t, r.summary, r.covers, r.count)
    BY DEF ReadingOf, ReadIs
<1>2. ASSUME NEW text \in SUBSET Int, NEW m \in Nat
      PROVE  LET x == [r EXCEPT !.at = at, !.summary = text, !.covers = m]
             IN  x \in ReadingOf(T) /\ ReadIs(x, at, r.list, r.said, text, m, r.count)
    BY DEF ReadingOf, ReadIs
<1>3. ASSUME NEW n \in Nat
      PROVE  LET x == [r EXCEPT !.at = at, !.count = n]
             IN  x \in ReadingOf(T)
                 /\ ReadIs(x, at, r.list, r.said, r.summary, r.covers, n)
    BY DEF ReadingOf, ReadIs
<1>4. LET x == [r EXCEPT !.at = at]
      IN  x \in ReadingOf(T) /\ ReadIs(x, at, r.list, r.said, r.summary, r.covers, r.count)
    BY DEF ReadingOf, ReadIs
<1>5. LET x == [r EXCEPT !.said = {}]
      IN  x \in ReadingOf(T) /\ ReadIs(x, r.at, r.list, {}, r.summary, r.covers, r.count)
    BY DEF ReadingOf, ReadIs
<1> QED BY <1>1, <1>2, <1>3, <1>4, <1>5

(* The types of what a turn has read.                                      *)
LEMMA ReadingTyped ==
    ASSUME ReadingShape
    PROVE  /\ reading \in ReadingOf(Seq(StoredSet))
           /\ reading.at \in {"none", "summary", "count", "told"}
           /\ reading.list \in Seq(StoredSet) /\ Len(reading.list) \in Nat
           /\ reading.said \in SUBSET Int /\ reading.summary \in SUBSET Int
           /\ reading.covers \in Nat /\ reading.count \in Nat
<1>1. reading \in ReadingOf(Seq(StoredSet))
    BY DEF ReadingShape, ReadingState
<1>2. /\ reading.at \in {"none", "summary", "count", "told"}
      /\ reading.list \in Seq(StoredSet)
      /\ reading.said \in SUBSET Int /\ reading.summary \in SUBSET Int
      /\ reading.covers \in Nat /\ reading.count \in Nat
    BY <1>1 DEF ReadingOf
<1> QED BY <1>1, <1>2

(* The messages are read, and what was said is among them.                 *)
LEMMA HistoryReading ==
    ASSUME MemoryInv, ReadingShape, ReadingInv, ReadHistory
    PROVE  ReadingShape' /\ ReadingInv'
<1>1. reading.at = "none" /\ reading' = [reading EXCEPT !.at = "summary", !.list = list, !.said = said]
      /\ UNCHANGED <<list, said, met>>
    BY DEF ReadHistory, keys
<1>2. list \in Seq(StoredSet) /\ said \in SUBSET Int
      /\ reading.covers = 0 /\ reading.count = 0
    BY <1>1 DEF MemoryInv, MemoryShape, ReadingShape
<1>3. reading \in ReadingOf(Seq(StoredSet))
    BY ReadingTyped
<1>4. [reading EXCEPT !.at = "summary", !.list = list, !.said = said]
          \in ReadingOf(Seq(StoredSet))
      /\ ReadIs([reading EXCEPT !.at = "summary", !.list = list, !.said = said],
                "summary", list, said, reading.summary, reading.covers, reading.count)
    <2> DEFINE T == Seq(StoredSet)
    <2>1. list \in T /\ reading \in ReadingOf(T) /\ "summary" \in {"summary", "count", "told"}
        BY <1>2, <1>3
    <2> HIDE DEF T
    <2>2. /\ [reading EXCEPT !.at = "summary", !.list = list, !.said = said] \in ReadingOf(T)
          /\ ReadIs([reading EXCEPT !.at = "summary", !.list = list, !.said = said],
                    "summary", list, said, reading.summary, reading.covers, reading.count)
        BY ONLY <1>2, <2>1, ReadsOn
    <2> QED BY <2>2 DEF T
<1>5. reading' \in ReadingState
    BY <1>1, <1>4 DEF ReadingState
<1>6. /\ reading'.at = "summary" /\ reading'.list = list /\ reading'.said = said
      /\ reading'.covers = 0 /\ reading'.count = 0
    BY <1>1, <1>2, <1>4 DEF ReadIs
<1>7. BeginsWith(list, list)
    <2>1. Len(list) \in Nat
        BY <1>2
    <2> QED BY <2>1 DEF BeginsWith
<1>8. met \subseteq {"count lost"} => said \subseteq Told(list, 0, Len(list))
    BY DEF MemoryInv, SaidInv
<1>9. ReadingShape'
    BY <1>1, <1>2, <1>5, <1>6 DEF ReadingShape
<1> QED BY <1>1, <1>6, <1>7, <1>8, <1>9 DEF ReadingInv

(* The summary is read, and tells of the messages that its count says.     *)
LEMMA SummaryReading ==
    ASSUME MemoryInv, ReadingShape, ReadingInv, ReadSummary
    PROVE  ReadingShape' /\ ReadingInv'
<1>1. reading.at = "summary" /\ UNCHANGED <<list, said, met>>
    BY DEF ReadSummary, keys
<1>2. list \in Seq(StoredSet) /\ count \in Nat /\ summary \in SUBSET Int
      /\ said \subseteq Int /\ reading.covers = 0 /\ reading.count = 0
    BY <1>1 DEF MemoryInv, MemoryShape, ReadingShape
<1>3. reading.list \in Seq(StoredSet) /\ reading.summary \in SUBSET Int
      /\ reading \in ReadingOf(Seq(StoredSet))
    BY ReadingTyped
<1>4. PICK text \in SUBSET Int, m \in Nat :
          /\ reading' \in ReadingOf(Seq(StoredSet))
          /\ ReadIs(reading', "count", reading.list, reading.said, text, m, 0)
          /\ m = 0 \/ (Written /\ m = count /\ text = summary)
    <2> DEFINE T == Seq(StoredSet)
    <2>0. reading \in ReadingOf(T) /\ "count" \in {"summary", "count", "told"}
        BY <1>3
    <2> HIDE DEF T
    <2>1. CASE reading' = [reading EXCEPT !.at = "count", !.summary = summary,
                                          !.covers = IF Written THEN count ELSE 0]
        <3> DEFINE c == IF Written THEN count ELSE 0
        <3>1. c \in Nat /\ (c = 0 \/ (Written /\ c = count))
            BY <1>2
        <3>2. reading' = [reading EXCEPT !.at = "count", !.summary = summary, !.covers = c]
            BY <2>1
        <3> HIDE DEF c
        <3>3. reading' \in ReadingOf(T)
              /\ ReadIs(reading', "count", reading.list, reading.said, summary, c, reading.count)
            BY ONLY <1>2, <2>0, <3>1, <3>2, ReadsOn
        <3> QED BY <1>2, <3>1, <3>3 DEF T
    <2>2. CASE reading' = [reading EXCEPT !.at = "count"]
        <3>1. reading' \in ReadingOf(T)
              /\ ReadIs(reading', "count", reading.list, reading.said, reading.summary,
                        reading.covers, reading.count)
            BY ONLY <2>0, <2>2, ReadsOn
        <3> QED BY <1>2, <1>3, <3>1 DEF T
    <2> QED BY <2>1, <2>2 DEF ReadSummary
<1>5. reading' \in ReadingState
    BY <1>4 DEF ReadingState
<1>6. /\ reading'.at = "count" /\ reading'.list = reading.list /\ reading'.said = reading.said
      /\ reading'.summary = text /\ reading'.covers = m /\ reading'.count = 0
    BY <1>4 DEF ReadIs
<1>7. ReadingShape'
    BY <1>1, <1>2, <1>5, <1>6 DEF ReadingShape
<1>8. ASSUME met \subseteq {"count lost"}, BeginsWith(list, reading.list)
      PROVE  TellsOf(text, reading.list, m)
    <2> SUFFICES ASSUME NEW i \in 1..Len(reading.list), i <= m
                 PROVE  reading.list[i].text \subseteq text
        BY DEF TellsOf
    <2>1. Len(reading.list) \in Nat
        BY <1>3
    <2>2. i \in Nat /\ 1 <= i
        BY ONLY <2>1
    <2>3. m # 0
        BY ONLY <2>2, i <= m
    <2>4. Written /\ m = count /\ text = summary
        BY <1>4, <2>3
    <2>5. Told(list, 0, count) \subseteq summary
        BY <1>8, <2>4 DEF MemoryInv, CoverInv
    <2>6. i \in (0 + 1)..count
        BY ONLY <1>2, <2>2, <2>4, i <= m
    <2>7. list[i].text \subseteq Told(list, 0, count)
        BY <2>6 DEF Told
    <2>8. list[i] = reading.list[i]
        BY <1>8 DEF BeginsWith
    <2> QED BY <2>4, <2>5, <2>7, <2>8
<1> QED BY <1>1, <1>6, <1>7, <1>8 DEF ReadingInv

(* The count is read, and the messages after it begin with a turn.         *)
LEMMA CountReading ==
    ASSUME MemoryInv, ReadingShape, ReadingInv, ReadLastSummarizedCount
    PROVE  ReadingShape' /\ ReadingInv'
<1>1. reading.at = "count" /\ UNCHANGED <<list, said, met>>
    BY DEF ReadLastSummarizedCount, keys
<1>2. list \in Seq(StoredSet) /\ count \in Nat /\ said \subseteq Int /\ reading.count = 0
    BY <1>1 DEF MemoryInv, MemoryShape, ReadingShape
<1>3. reading.list \in Seq(StoredSet) /\ reading \in ReadingOf(Seq(StoredSet))
    BY ReadingTyped
<1>4. PICK n \in {0, count} :
          /\ reading' \in ReadingOf(Seq(StoredSet))
          /\ ReadIs(reading', "told", reading.list, reading.said, reading.summary,
                    reading.covers, n)
    <2> DEFINE T == Seq(StoredSet)
    <2>0. reading \in ReadingOf(T) /\ "told" \in {"summary", "count", "told"}
        BY <1>3
    <2> HIDE DEF T
    <2>1. CASE reading' = [reading EXCEPT !.at = "told", !.count = count]
        <3>1. reading' \in ReadingOf(T)
              /\ ReadIs(reading', "told", reading.list, reading.said, reading.summary,
                        reading.covers, count)
            BY ONLY <1>2, <2>0, <2>1, ReadsOn
        <3> QED BY <3>1 DEF T
    <2>2. CASE reading' = [reading EXCEPT !.at = "told"]
        <3>1. reading' \in ReadingOf(T)
              /\ ReadIs(reading', "told", reading.list, reading.said, reading.summary,
                        reading.covers, reading.count)
            BY ONLY <2>0, <2>2, ReadsOn
        <3> QED BY <1>2, <3>1 DEF T
    <2> QED BY <2>1, <2>2 DEF ReadLastSummarizedCount
<1>5. n \in Nat
    BY <1>2
<1>6. reading' \in ReadingState
    BY <1>4 DEF ReadingState
<1>7. /\ reading'.at = "told" /\ reading'.list = reading.list /\ reading'.said = reading.said
      /\ reading'.summary = reading.summary /\ reading'.covers = reading.covers
      /\ reading'.count = n
    BY <1>4 DEF ReadIs
<1>8. ReadingShape'
    BY <1>1, <1>2, <1>6, <1>7 DEF ReadingShape
<1>9. ASSUME met \subseteq {"count lost"}, BeginsWith(list, reading.list)
      PROVE  Boundary(reading.list, n)
    <2>1. Boundary(list, n)
        BY <1>9 DEF MemoryInv, BoundInv
    <2>2. SUFFICES ASSUME n < Len(reading.list) PROVE IsUser(reading.list[n + 1])
        BY DEF Boundary
    <2>3. Len(reading.list) \in Nat /\ Len(list) \in Nat
        BY <1>2, <1>3
    <2>4. Len(reading.list) <= Len(list)
        BY <1>9 DEF BeginsWith
    <2>5. n < Len(list) /\ n + 1 \in 1..Len(reading.list)
        BY ONLY <1>5, <2>2, <2>3, <2>4
    <2>6. IsUser(list[n + 1])
        BY <2>1, <2>5 DEF Boundary
    <2>7. list[n + 1] = reading.list[n + 1]
        BY <1>9, <2>5 DEF BeginsWith
    <2> QED BY <2>6, <2>7
<1> QED BY <1>1, <1>7, <1>8, <1>9 DEF ReadingInv

(* The other steps leave what a turn has read as it is; more messages do   *)
(* not change the first ones, and a session that ends is not judged.       *)
LEMMA OthersReading ==
    ASSUME MemoryInv, ReadingShape, ReadingInv, [Next]_vars,
           ~(ReadHistory \/ ReadSummary \/ ReadLastSummarizedCount)
    PROVE  ReadingShape' /\ ReadingInv'
<1>0. list \in Seq(StoredSet) /\ turns \in Nat
    BY DEF MemoryInv, MemoryShape
<1>1. met \subseteq met'
    <2>1. ASSUME NEW n \in jobs \cup DOMAIN running, Consume(n) PROVE met \subseteq met'
        BY <2>1 DEF Consume, TakeJob, CheckCount, Summarize, EmptySummary, JobFails,
           SetLastSummarizedCount, SetSummary, SetFails
    <2>2. ASSUME NEW n \in appended, TriggerSummary(n) PROVE met \subseteq met'
        BY <2>2 DEF TriggerSummary
    <2> QED BY <2>1, <2>2 DEF Next, vars, AppendMessages, Append_, AppendFails, Tick
<1>2. CASE Tick
    <2>1. CASE list' = <<>>
        <3>1. said' = {} /\ reading' = [reading EXCEPT !.said = {}]
            BY <1>2, <2>1 DEF Tick
        <3>2. reading \in ReadingOf(Seq(StoredSet))
            BY ReadingTyped
        <3>3. PICK T : T = Seq(StoredSet)
            OBVIOUS
        <3>4. reading' \in ReadingOf(T)
              /\ ReadIs(reading', reading.at, reading.list, {}, reading.summary,
                        reading.covers, reading.count)
            <4>1. reading \in ReadingOf(T) /\ "told" \in {"summary", "count", "told"}
                BY <3>2, <3>3
            <4> QED BY ONLY <3>1, <4>1, ReadsOn
        <3>5. reading' \in ReadingState
            BY <3>3, <3>4 DEF ReadingState
        <3>6. /\ reading'.at = reading.at /\ reading'.said = {}
              /\ reading'.covers = reading.covers /\ reading'.count = reading.count
            BY <3>4 DEF ReadIs
        <3> QED BY <3>1, <3>5, <3>6 DEF ReadingShape, ReadingInv
    <2>2. CASE list' # <<>>
        <3>1. UNCHANGED <<list, said, reading>>
            BY <1>2, <2>2 DEF Tick
        <3> QED BY <1>1, <3>1 DEF ReadingShape, ReadingInv
    <2> QED BY <2>1, <2>2
<1>3. CASE AppendMessages
    <2>1. reading' = reading /\ said' = said \cup {turns + 1, -(turns + 1)}
        BY <1>3 DEF AppendMessages, Append_, Answered
    <2>2. PICK size : list' = list \o MessagesOf(turns + 1, size)
        BY <1>3 DEF AppendMessages, Append_
    <2>3. list' \in Seq(StoredSet) /\ Len(list') >= Len(list)
          /\ \A i \in 1..Len(list) : list'[i] = list[i]
        <3>1. turns + 1 \in Nat
            BY <1>0
        <3>2. Len(list') >= Len(list) + 2 /\ list' \in Seq(StoredSet)
            BY <1>0, <2>2, <3>1, TurnAdds
        <3>3. \A i \in 1..Len(list) : list'[i] = list[i]
            BY <1>0, <2>2, <3>1, TurnAdds
        <3>4. Len(list') \in Nat /\ Len(list) \in Nat
            BY <1>0, <3>2
        <3> QED BY <3>2, <3>3, <3>4
    <2>4. BeginsWith(list, reading.list) => BeginsWith(list', reading.list)
        <3>1. reading.list \in Seq(StoredSet)
            BY ReadingTyped
        <3>2. Len(reading.list) \in Nat /\ Len(list) \in Nat /\ Len(list') \in Nat
            BY <1>0, <2>3, <3>1
        <3>3. ASSUME Len(reading.list) <= Len(list), NEW i \in 1..Len(reading.list)
              PROVE  i \in 1..Len(list)
            BY ONLY <3>2, <3>3
        <3>4. Len(reading.list) <= Len(list) => Len(reading.list) <= Len(list')
            BY ONLY <2>3, <3>2
        <3> QED BY <2>3, <3>3, <3>4 DEF BeginsWith
    <2>5. said' \subseteq Int
        BY <1>0, <2>1 DEF ReadingShape
    <2> QED BY <1>1, <2>1, <2>4, <2>5 DEF ReadingShape, ReadingInv
<1>4. CASE AppendFails
    <2>1. UNCHANGED <<reading, list>> /\ said' = said \cup {turns + 1, -(turns + 1)}
        BY <1>4 DEF AppendFails, Answered, keys
    <2>2. said' \subseteq Int
        BY <1>0, <2>1 DEF ReadingShape
    <2> QED BY <1>1, <2>1, <2>2 DEF ReadingShape, ReadingInv
<1>5. CASE UNCHANGED <<list, said, reading>>
    BY <1>1, <1>5 DEF ReadingShape, ReadingInv
<1>6. ASSUME NEW n \in jobs \cup DOMAIN running, Consume(n)
      PROVE  UNCHANGED <<list, said, reading>>
    BY <1>6 DEF Consume, TakeJob, CheckCount, Summarize, EmptySummary, JobFails,
       SetLastSummarizedCount, SetSummary, SetFails, keys, turnVars
<1>7. ASSUME NEW n \in appended, TriggerSummary(n)
      PROVE  UNCHANGED <<list, said, reading>>
    BY <1>7 DEF TriggerSummary, keys
<1>8. UNCHANGED vars => UNCHANGED <<list, said, reading>>
    BY DEF vars
<1> QED BY <1>2, <1>3, <1>4, <1>5, <1>6, <1>7, <1>8 DEF Next

(* So every step keeps what a turn has read.                               *)
LEMMA ReadingStep ==
    MemoryInv /\ ReadingShape /\ ReadingInv /\ [Next]_vars => ReadingShape' /\ ReadingInv'
BY HistoryReading, SummaryReading, CountReading, OthersReading

(* What is counted is in the summary.                                      *)
LEMMA InvCovers == MemoryInv => SummaryCovers
<1> SUFFICES ASSUME MemoryInv,
                    {"overtaken", "outlived", "expired", "summary lost"} \cap met = {},
                    Written
             PROVE  TextsOf(SubSeq(list, 1, Minimum(count, Len(list)))) \subseteq summary
    BY DEF SummaryCovers
<1>0. list \in Seq(StoredSet) /\ count \in Nat
    BY DEF MemoryInv, MemoryShape
<1>1. list \in Seq(StoredSet) /\ count \in Nat /\ Len(list) \in Nat
    BY ONLY <1>0
<1>2. count <= Len(list)
    BY DEF MemoryInv, BoundInv
<1>3. Minimum(count, Len(list)) = count
    BY ONLY <1>1, <1>2 DEF Minimum
<1>4. Told(list, 0, count) \subseteq summary
    BY DEF MemoryInv, CoverInv
<1>5. TextsOf(SubSeq(list, 1, count)) = Told(list, 0, count)
    <2>1. 0 \in Nat /\ 0 <= count /\ 0 + 1 = 1
        BY ONLY <1>1
    <2>2. PICK first : first = 0 + 1
        OBVIOUS
    <2>3. TextsOf(SubSeq(list, first, count)) = Told(list, 0, count)
        BY <1>1, <1>2, <2>1, <2>2, TextsOfPart
    <2> QED BY <2>1, <2>2, <2>3
<1> QED BY <1>3, <1>4, <1>5

(* And what a turn is told is everything that was said.                    *)
LEMMA InvTells == ReadingShape /\ ReadingInv => TurnIsTold
<1> SUFFICES ASSUME ReadingShape, ReadingInv,
                    reading.at = "told", reading.count <= reading.covers,
                    met \subseteq {"count lost"},
                    Len(reading.list) - reading.count <= HISTORY_TAIL_CEILING,
                    reading.said # {}
             PROVE  reading.said \subseteq TurnPrompt.summary \cup TextsOf(TurnPrompt.history)
    BY DEF TurnIsTold
<1>1. PICK l, n, m, text :
          l = reading.list /\ n = reading.count /\ m = reading.covers /\ text = reading.summary
    OBVIOUS
<1>2. l \in Seq(StoredSet) /\ n \in Nat /\ m \in Nat /\ n <= m /\ Len(l) \in Nat
    BY <1>1, ReadingTyped
<1>3. reading.said \subseteq Told(l, 0, Len(l)) /\ TellsOf(text, l, m) /\ Boundary(l, n)
    BY <1>1 DEF ReadingInv
<1>4. TurnPrompt.summary = text
      /\ TurnPrompt.history = PromptHistory(Unsummarized(l, n), HISTORY_TAIL_CEILING)
    BY <1>1 DEF TurnPrompt
<1>5. n \in Nat /\ m \in Nat /\ n <= m /\ Len(l) \in Nat
    BY <1>2
<1>6. ASSUME NEW k \in Nat, k <= n, k <= Len(l) PROVE Told(l, 0, k) \subseteq text
    <2>1. \A i \in (0 + 1)..k : i \in 1..Len(l) /\ i <= m
        BY ONLY <1>5, k \in Nat, k <= n, k <= Len(l)
    <2> QED BY <1>3, <2>1 DEF Told, TellsOf
<1>7. CASE n <= Len(l)
    <2>1. TextsOf(TurnPrompt.history) = Told(l, n, Len(l))
        BY <1>1, <1>2, <1>3, <1>4, <1>7, PromptTells
    <2>2. Told(l, 0, Len(l)) = Told(l, 0, n) \cup Told(l, n, Len(l))
        BY <1>2, <1>5, <1>7, ToldAdds
    <2>3. Told(l, 0, n) \subseteq text
        <3>1. n <= n
            BY ONLY <1>5
        <3> QED BY <1>5, <1>6, <1>7, <3>1
    <2> QED BY <1>3, <1>4, <2>1, <2>2, <2>3
<1>8. CASE ~(n <= Len(l))
    <2>1. Len(l) <= n /\ Len(l) <= Len(l)
        BY ONLY <1>5, <1>8
    <2>2. PICK k \in Nat : k = Len(l)
        BY <1>5
    <2>3. Told(l, 0, k) \subseteq text
        BY <1>6, <2>1, <2>2
    <2> QED BY <1>3, <1>4, <2>2, <2>3
<1> QED BY <1>7, <1>8

(* When no job is left, fewer messages than SUMMARY_MESSAGE_INTERVAL are   *)
(* not summarized (checkAndTriggerSummary of chat.service.ts, and          *)
(* processSummarize of chat-summary.consumer.ts).                          *)
THEOREM SummariesKeepUp == Spec => []SummaryKeepsUp
<1> QED BY MemoryStart, MemoryStep, InvKeepsUp, PTL DEF Spec

(* What was said is in the messages or in the summary that a turn is told  *)
(* (handleMessage of chat.service.ts with its three reads, and             *)
(* processSummarize).                                                      *)
THEOREM NothingIsForgotten == Spec => []NothingForgotten
<1>1. MemoryInv /\ ReadingShape /\ ReadingInv => NothingForgotten
    BY InvCovers, InvTells DEF NothingForgotten
<1> QED BY <1>1, MemoryStart, MemoryStep, ReadingStart, ReadingStep, PTL DEF Spec

-------------------------------------------------------------------------------
(* The state of the memory is of its types.                                *)

(* What t turns may have said.                                             *)
Utterances(t) == (-t)..t

OnlySaidInv ==
    /\ \A i \in DOMAIN list : list[i].text \subseteq Utterances(turns)
    /\ summary \subseteq Utterances(turns) /\ said \subseteq Utterances(turns)
    /\ \A n \in DOMAIN running :
         running[n].summary \cup running[n].texts \subseteq Utterances(turns)

(* A list is there as long as it has time left.                            *)
TtlInv ==
    /\ {listTtl, countTtl, summaryTtl} \subseteq 0..TTL
    /\ (listTtl = 0) = (list = <<>>)

(* Nor has a turn read anything else.                                      *)
OnlySaidReadInv == reading.summary \cup reading.said \subseteq Utterances(turns)

ConversationTypeInv == OnlySaidInv /\ OnlySaidReadInv /\ TtlInv

(* What a summarizer reads is among what is said in the messages.          *)
LEMMA ReadsWhatIsThere ==
    ASSUME NEW l \in Seq(StoredSet), NEW m \in Nat, NEW n \in Nat, NEW S,
           \A i \in DOMAIN l : l[i].text \subseteq S
    PROVE  HumanConversation(Range_(l, m, n)) \subseteq S
<1> DEFINE b == Minimum(n, Len(l))
           h == SubSeq(l, m + 1, b)
           Within == {x \in StoredSet : x.text \subseteq S}
<1>1. b \in Nat /\ b <= Len(l)
    BY DEF Minimum
<1> HIDE DEF b
<1>2. \A i \in (m + 1)..b : l[i] \in Within
    <2> SUFFICES ASSUME NEW i \in (m + 1)..b PROVE l[i] \in Within
        OBVIOUS
    <2>1. i \in DOMAIN l
        BY <1>1
    <2> QED BY <2>1
<1>3. m + 1 \in Int /\ b \in Int
    BY <1>1
<1> HIDE DEF Within
<1>4. h \in Seq(Within)
    BY ONLY <1>2, <1>3, SubSeqProperties
<1>5. Range_(l, m, n) = h
    BY DEF Range_, b
<1> HIDE DEF h
<1>6. \A x \in ToSet(h) : x.text \subseteq S
    BY <1>4 DEF ToSet, Within
<1> QED BY <1>5, <1>6 DEF HumanConversation

(* There is nothing at first.                                              *)
LEMMA ConversationTypeStart == TTL \in Nat \ {0} /\ Init => ConversationTypeInv
<1> SUFFICES ASSUME TTL \in Nat \ {0}, Init PROVE ConversationTypeInv
    OBVIOUS
<1>1. OnlySaidInv
    BY DEF Init, OnlySaidInv
<1>2. TtlInv
    BY DEF Init, TtlInv
<1>3. OnlySaidReadInv
    BY DEF Init, OnlySaidReadInv
<1> QED BY <1>1, <1>2, <1>3 DEF ConversationTypeInv

(* The keys are stored with all their time, which then passes.             *)
LEMMA TtlStep ==
    ASSUME TTL \in Nat \ {0}, MemoryShape, TtlInv, [Next]_vars
    PROVE  TtlInv'
<1>1. CASE AppendMessages
    <2>1. PICK size \in Sizes : list' = list \o MessagesOf(turns + 1, size)
        BY <1>1 DEF AppendMessages, Append_
    <2>2. Len(list') >= Len(list) + 2 /\ list' \in Seq(StoredSet)
        <3> HIDE DEF MessagesOf
        <3>1. turns + 1 \in Nat /\ list \in Seq(StoredSet)
            BY DEF MemoryShape
        <3> QED BY <2>1, <3>1, TurnAdds
    <2>3. list' # <<>>
        BY <2>2 DEF MemoryShape
    <2> QED BY <1>1, <2>3 DEF AppendMessages, Append_, TtlInv
<1>2. ASSUME NEW n \in jobs \cup DOMAIN running, Consume(n)
      PROVE  TtlInv'
    <2>1. UNCHANGED <<list, listTtl>> /\ countTtl' \in {countTtl, TTL}
          /\ summaryTtl' \in {summaryTtl, TTL}
        BY <1>2 DEF Consume, TakeJob, CheckCount, Summarize, EmptySummary, JobFails,
           SetLastSummarizedCount, SetSummary, SetFails, keys
    <2> QED BY <2>1 DEF TtlInv
<1>3. CASE Tick
    BY <1>3 DEF Tick, TtlInv, Left
<1>4. CASE \/ AppendFails \/ (\E n \in appended : TriggerSummary(n)) \/ UNCHANGED vars
           \/ ReadHistory \/ ReadSummary \/ ReadLastSummarizedCount
    BY <1>4 DEF AppendFails, TriggerSummary, ReadHistory, ReadSummary,
       ReadLastSummarizedCount, keys, vars, TtlInv
<1> QED BY <1>1, <1>2, <1>3, <1>4 DEF Next

(* A turn says more, and nothing that was said is lost.                    *)
LEMMA OnlySaidAppend ==
    ASSUME MemoryShape, OnlySaidInv, AppendMessages \/ AppendFails
    PROVE  OnlySaidInv'
<1>1. turns \in Nat /\ turns' = turns + 1 /\ said' = said \cup {turns + 1, -(turns + 1)}
      /\ UNCHANGED <<summary, running>>
    BY DEF MemoryShape, AppendMessages, AppendFails, Append_, Answered, keys
<1>2. /\ Utterances(turns) \subseteq Utterances(turns')
      /\ {turns + 1, -(turns + 1)} \subseteq Utterances(turns')
    BY <1>1 DEF Utterances
<1>3. \A i \in DOMAIN list' : list'[i].text \subseteq Utterances(turns')
    <2>1. CASE list' = list
        BY <1>2, <2>1 DEF OnlySaidInv
    <2>2. CASE AppendMessages
        <3> DEFINE u == User({turns + 1})
                   a == Assistant({-(turns + 1)})
                   r == ToolRequest({}, <<[id |-> turns + 1]>>)
                   s == ToolResult({}, turns + 1)
                   Within == {x \in {u, a, r, s} \cup ToSet(list) :
                                  x.text \subseteq Utterances(turns')}
        <3>1. /\ u.text = {turns + 1} /\ a.text = {-(turns + 1)}
              /\ r.text = {} /\ s.text = {}
            BY DEF User, Assistant, ToolRequest, ToolResult, Message
        <3>2. PICK size \in Sizes : list' = list \o MessagesOf(turns + 1, size)
            BY <2>2 DEF AppendMessages, Append_
        <3>3. \/ MessagesOf(turns + 1, size) = <<u, a>>
              \/ MessagesOf(turns + 1, size) = <<u, r, s, a>>
            BY DEF MessagesOf
        <3> HIDE DEF u, a, r, s
        <3>4. u \in Within /\ a \in Within /\ r \in Within /\ s \in Within
            BY <1>2, <3>1
        <3>5. list \in Seq(Within)
            <4>1. \A i \in DOMAIN list : list[i] \in Within
                BY <1>2 DEF OnlySaidInv, ToSet
            <4> HIDE DEF Within
            <4> QED BY <4>1 DEF MemoryShape
        <3>6. \A x \in Within : x.text \subseteq Utterances(turns')
            OBVIOUS
        <3> HIDE DEF Within
        <3>7. MessagesOf(turns + 1, size) \in Seq(Within)
            <4>1. <<u, a>> \in Seq(Within) /\ <<u, r, s, a>> \in Seq(Within)
                BY <3>4
            <4> QED BY <3>3, <4>1
        <3>8. list' \in Seq(Within)
            BY <3>2, <3>5, <3>7
        <3> QED BY <3>6, <3>8
    <2> QED BY <2>1, <2>2 DEF AppendFails, keys
<1> QED BY <1>1, <1>2, <1>3 DEF OnlySaidInv

(* A job knows what it has read.                                           *)
LEMMA OnlySaidTake ==
    ASSUME MemoryShape, OnlySaidInv, NEW n \in jobs \cup DOMAIN running,
           TakeJob(n) \/ CheckCount(n)
    PROVE  OnlySaidInv'
<1>1. UNCHANGED <<list, summary, said, turns>>
    BY DEF TakeJob, CheckCount, keys, turnVars
<1>2. \/ n \in DOMAIN running /\ Finish(n)
      \/ \E job : running' = Begin(n, job) /\ job.texts = {}
                  /\ job.summary \subseteq Utterances(turns)
    <2>1. CASE TakeJob(n)
        <3>1. PICK got \in {summary, {}} :
                 running' = Begin(n, [at |-> "taken", summary |-> got, count |-> 0, texts |-> {}])
            BY <2>1 DEF TakeJob
        <3>2. got \subseteq Utterances(turns)
            BY DEF OnlySaidInv
        <3> QED BY <3>1, <3>2
    <2>2. CASE CheckCount(n)
        <3>1. n \in DOMAIN running
            BY <2>2 DEF CheckCount, At
        <3>2. running[n].summary \subseteq Utterances(turns)
            BY <3>1 DEF OnlySaidInv
        <3>3. Finish(n) \/ \E got \in {count, 0} :
                 running' = Begin(n, [at |-> "messages", summary |-> running[n].summary,
                                      count |-> got, texts |-> {}])
            BY <2>2 DEF CheckCount
        <3> QED BY <3>1, <3>2, <3>3
    <2> QED BY <2>1, <2>2
<1>3. CASE n \in DOMAIN running /\ Finish(n)
    BY <1>1, <1>3, FinishEnds DEF OnlySaidInv
<1>4. ASSUME NEW job, running' = Begin(n, job), job.texts = {},
             job.summary \subseteq Utterances(turns)
      PROVE  OnlySaidInv'
    <2>1. \A k \in DOMAIN running' :
             running'[k] = job \/ (k \in DOMAIN running /\ running'[k] = running[k])
        BY <1>4 DEF Begin
    <2> QED BY <1>1, <1>4, <2>1 DEF OnlySaidInv
<1> QED BY <1>2, <1>3, <1>4

(* A job that goes on, or ends, knows no more than what is in the list.    *)
LEMMA OnlySaidJob ==
    ASSUME MemoryShape, OnlySaidInv, NEW n \in jobs \cup DOMAIN running,
           \/ Summarize(n) \/ EmptySummary(n) \/ JobFails(n)
           \/ SetLastSummarizedCount(n) \/ SetSummary(n) \/ SetFails(n)
    PROVE  OnlySaidInv'
<1>1. /\ n \in DOMAIN running /\ UNCHANGED <<list, said, turns>>
      /\ summary' = summary \/ summary' = running[n].summary \cup running[n].texts
    BY DEF Summarize, EmptySummary, JobFails, SetLastSummarizedCount, SetSummary, SetFails,
       At, keys, turnVars
<1>2. running \in [DOMAIN running -> JobState]
    BY DEF MemoryShape
<1>3. \/ Finish(n)
      \/ \E at \in {"count", "summary"} : running' = [running EXCEPT ![n].at = at]
      \/ \E texts \in SUBSET Utterances(turns) :
           running' = [running EXCEPT ![n].at = "count", ![n].texts = texts]
    <2>1. ASSUME Summarize(n), ~Finish(n)
          PROVE  \E texts \in SUBSET Utterances(turns) :
                   running' = [running EXCEPT ![n].at = "count", ![n].texts = texts]
        <3>1. HumanConversation(Range_(list, running[n].count, n)) \subseteq Utterances(turns)
            <4>1. n \in Nat /\ running[n].count \in Nat /\ list \in Seq(StoredSet)
                BY <1>1, <1>2 DEF MemoryShape, Totals, JobState
            <4> QED BY <4>1, ReadsWhatIsThere DEF OnlySaidInv
        <3> QED BY <2>1, <3>1 DEF Summarize
    <2> QED BY <2>1 DEF EmptySummary, JobFails, SetLastSummarizedCount, SetSummary, SetFails
<1>4. ASSUME NEW k \in DOMAIN running'
      PROVE  running'[k].summary \cup running'[k].texts \subseteq Utterances(turns)
    <2>1. CASE Finish(n)
        BY <1>1, <1>4, <2>1, FinishEnds DEF OnlySaidInv
    <2>2. ASSUME NEW at \in {"count", "summary"}, running' = [running EXCEPT ![n].at = at]
          PROVE  running'[k].summary \cup running'[k].texts \subseteq Utterances(turns)
        <3>1. k \in DOMAIN running /\ running'[k].summary = running[k].summary
              /\ running'[k].texts = running[k].texts
            BY <1>1, <1>2, <1>4, <2>2 DEF JobState
        <3> QED BY <3>1 DEF OnlySaidInv
    <2>3. ASSUME NEW texts \in SUBSET Utterances(turns),
                 running' = [running EXCEPT ![n].at = "count", ![n].texts = texts]
          PROVE  running'[k].summary \cup running'[k].texts \subseteq Utterances(turns)
        <3> DEFINE first == [running EXCEPT ![n].at = "count"]
        <3>1. first \in [DOMAIN running -> JobState]
              /\ \A j \in DOMAIN running : first[j].summary = running[j].summary
                                           /\ first[j].texts = running[j].texts
            BY <1>1, <1>2 DEF JobState
        <3>2. running' = [first EXCEPT ![n].texts = texts]
            BY <2>3
        <3> HIDE DEF first
        <3>3. k \in DOMAIN running /\ running'[k].summary = running[k].summary
              /\ running'[k].texts \in {running[k].texts, texts}
            BY <1>1, <1>4, <3>1, <3>2 DEF JobState
        <3> QED BY <3>3 DEF OnlySaidInv
    <2> QED BY <1>3, <2>1, <2>2, <2>3
<1> QED BY <1>1, <1>4 DEF OnlySaidInv

(* Nor does a turn.                                                        *)
LEMMA OnlySaidReading ==
    ASSUME MemoryShape, ReadingShape, OnlySaidInv, OnlySaidReadInv, [Next]_vars
    PROVE  OnlySaidReadInv'
<1>1. PICK T :
          /\ T = Seq(StoredSet) /\ reading \in ReadingOf(T) /\ list \in T
          /\ said \in SUBSET Int /\ summary \in SUBSET Int /\ count \in Nat /\ turns \in Nat
    BY ReadingTyped DEF MemoryShape, ReadingShape
<1>2. Utterances(turns) \subseteq Utterances(turns') \/ turns' = turns
    <2>1. turns' = turns \/ turns' = turns + 1
        BY DEF Next, vars, ReadHistory, ReadSummary, ReadLastSummarizedCount, AppendMessages,
           Append_, AppendFails, Answered, TriggerSummary, Tick, Consume, TakeJob, CheckCount,
           Summarize, EmptySummary, JobFails, SetLastSummarizedCount, SetSummary, SetFails,
           turnVars
    <2> QED BY <1>1, <2>1 DEF Utterances
<1>3. /\ reading'.summary \in {reading.summary, summary}
      /\ reading'.said \in {reading.said, said, {}}
    <2>1. CASE ReadHistory
        <3>1. reading' = [reading EXCEPT !.at = "summary", !.list = list, !.said = said]
            BY <2>1 DEF ReadHistory
        <3>2. ReadIs(reading', "summary", list, said, reading.summary, reading.covers,
                     reading.count)
            BY ONLY <1>1, <3>1, ReadsOn
        <3> QED BY <3>2 DEF ReadIs
    <2>2. CASE ReadSummary
        <3>1. PICK m \in Nat : \/ reading' = [reading EXCEPT !.at = "count", !.summary = summary,
                                                             !.covers = m]
                               \/ reading' = [reading EXCEPT !.at = "count"]
            BY <1>1, <2>2 DEF ReadSummary
        <3>2. ASSUME reading' = [reading EXCEPT !.at = "count", !.summary = summary, !.covers = m]
              PROVE  ReadIs(reading', "count", reading.list, reading.said, summary, m,
                            reading.count)
            BY ONLY <1>1, <3>2, m \in Nat, ReadsOn
        <3>3. ASSUME reading' = [reading EXCEPT !.at = "count"]
              PROVE  ReadIs(reading', "count", reading.list, reading.said, reading.summary,
                            reading.covers, reading.count)
            BY ONLY <1>1, <3>3, ReadsOn
        <3> QED BY <3>1, <3>2, <3>3 DEF ReadIs
    <2>3. CASE ReadLastSummarizedCount
        <3>1. \/ reading' = [reading EXCEPT !.at = "told", !.count = count]
              \/ reading' = [reading EXCEPT !.at = "told"]
            BY <2>3 DEF ReadLastSummarizedCount
        <3>2. ASSUME reading' = [reading EXCEPT !.at = "told", !.count = count]
              PROVE  ReadIs(reading', "told", reading.list, reading.said, reading.summary,
                            reading.covers, count)
            BY ONLY <1>1, <3>2, ReadsOn
        <3>3. ASSUME reading' = [reading EXCEPT !.at = "told"]
              PROVE  ReadIs(reading', "told", reading.list, reading.said, reading.summary,
                            reading.covers, reading.count)
            BY ONLY <1>1, <3>3, ReadsOn
        <3> QED BY <3>1, <3>2, <3>3 DEF ReadIs
    <2>4. CASE Tick
        <3>1. reading' = reading \/ reading' = [reading EXCEPT !.said = {}]
            BY <2>4 DEF Tick
        <3>2. "told" \in {"summary", "count", "told"}
            OBVIOUS
        <3>3. reading' = reading \/ ReadIs(reading', reading.at, reading.list, {},
                     reading.summary, reading.covers, reading.count)
            BY ONLY <1>1, <3>1, <3>2, ReadsOn
        <3> QED BY <3>3 DEF ReadIs
    <2>5. ASSUME NEW n \in jobs \cup DOMAIN running, Consume(n) PROVE reading' = reading
        BY <2>5 DEF Consume, TakeJob, CheckCount, Summarize, EmptySummary, JobFails,
           SetLastSummarizedCount, SetSummary, SetFails, turnVars
    <2>6. ASSUME \/ AppendMessages \/ AppendFails \/ UNCHANGED vars
                 \/ \E n \in appended : TriggerSummary(n)
          PROVE  reading' = reading
        BY <2>6 DEF AppendMessages, Append_, AppendFails, TriggerSummary, vars
    <2> QED BY <2>1, <2>2, <2>3, <2>4, <2>5, <2>6 DEF Next
<1> QED BY <1>2, <1>3 DEF OnlySaidInv, OnlySaidReadInv

(* Every step keeps the types.                                             *)
LEMMA ConversationTypeStep ==
    TTL \in Nat \ {0} /\ MemoryInv /\ ReadingShape /\ ConversationTypeInv /\ [Next]_vars
        => ConversationTypeInv'
<1> SUFFICES ASSUME TTL \in Nat \ {0}, MemoryInv, ReadingShape, ConversationTypeInv,
                    [Next]_vars
             PROVE  ConversationTypeInv'
    OBVIOUS
<1>1. MemoryShape /\ OnlySaidInv /\ OnlySaidReadInv /\ TtlInv
    BY DEF MemoryInv, ConversationTypeInv
<1>2. ASSUME NEW n \in jobs \cup DOMAIN running, Consume(n) PROVE OnlySaidInv'
    BY <1>1, <1>2, OnlySaidTake, OnlySaidJob DEF Consume
<1>3. ASSUME Tick PROVE OnlySaidInv'
    <2>1. /\ list' = list \/ list' = <<>>
          /\ summary' \subseteq summary /\ said' \subseteq said
          /\ turns' = turns /\ running' = running
        BY <1>3 DEF Tick
    <2>2. DOMAIN <<>> = {}
        OBVIOUS
    <2> QED BY <1>1, <2>1, <2>2 DEF OnlySaidInv
<1>4. ASSUME \/ (\E n \in appended : TriggerSummary(n)) \/ UNCHANGED vars
             \/ ReadHistory \/ ReadSummary \/ ReadLastSummarizedCount
      PROVE  OnlySaidInv'
    <2>1. ASSUME NEW n \in appended, TriggerSummary(n)
          PROVE  UNCHANGED <<list, summary, said, turns, running>>
        BY <2>1 DEF TriggerSummary, keys
    <2>2. ReadHistory \/ ReadSummary \/ ReadLastSummarizedCount \/ UNCHANGED vars
              => UNCHANGED <<list, summary, said, turns, running>>
        BY DEF ReadHistory, ReadSummary, ReadLastSummarizedCount, keys, vars
    <2>3. UNCHANGED <<list, summary, said, turns, running>>
        BY <1>4, <2>1, <2>2
    <2> QED BY <1>1, <2>3 DEF OnlySaidInv
<1>5. ASSUME AppendMessages \/ AppendFails PROVE OnlySaidInv'
    BY <1>1, <1>5, OnlySaidAppend
<1>6. OnlySaidInv'
    BY <1>2, <1>3, <1>4, <1>5 DEF Next
<1>7. OnlySaidReadInv'
    BY <1>1, OnlySaidReading
<1> QED BY <1>1, <1>6, <1>7, TtlStep DEF ConversationTypeInv

(* They are the types that the memory has.                                 *)
LEMMA ConversationTypesHold ==
    MemoryInv /\ ReadingShape /\ ConversationTypeInv => ConversationTypeOK
<1> SUFFICES ASSUME MemoryInv, ReadingShape, ConversationTypeInv PROVE ConversationTypeOK
    OBVIOUS
<1>1. \A m \in ToSet(list) : m.text \subseteq -turns..turns
    BY DEF ConversationTypeInv, OnlySaidInv, Utterances, ToSet
<1>2. summary \cup said \subseteq -turns..turns
    BY DEF ConversationTypeInv, OnlySaidInv, Utterances
<1>3. \A n \in DOMAIN running : running[n].at \in {"taken", "messages", "count", "summary"}
    BY DEF MemoryInv, MemoryShape, JobState
<1>5. /\ reading.at \in {"none", "summary", "count", "told"}
      /\ reading.summary \cup reading.said \subseteq -turns..turns
    BY ReadingTyped DEF ConversationTypeInv, OnlySaidReadInv, Utterances
<1>4. count \in Nat /\ appended \cup jobs \cup DOMAIN running \subseteq Nat \ {0}
    BY DEF MemoryInv, MemoryShape, Totals
<1> QED BY <1>1, <1>2, <1>3, <1>4, <1>5 DEF ConversationTypeOK, ConversationTypeInv, TtlInv

-------------------------------------------------------------------------------
(* The settings, for any number of readers, writers, updates and failing   *)
(* commands, and whatever an update may change.                            *)
Requesters == Readers \cup Writers
RequestPlaces == {"idle", "fetch", "fill", "cache", "complete"}

(* What is served has been stored: the views that are held, cached, and    *)
(* the current one, all are among those the document has gone through.     *)
SettingsViewInv ==
    /\ pc \in [Requesters -> RequestPlaces]
    /\ held \in [Requesters -> past \cup {Settings!Absent}]
    /\ cached \in past \cup {Settings!Absent}
    /\ Settings!Current \in past

(* Until requests cross, whoever is about to store a view holds the        *)
(* current one, and an update that is about to store its own is the only   *)
(* reason for another one to be cached.                                    *)
SettingsCurrentInv ==
    crossed = {} =>
        /\ \A x \in Requesters : pc[x] \in {"fill", "cache"} => held[x] = Settings!Current
        /\ cached # Settings!Absent /\ (\A w \in Writers : pc[w] # "cache") =>
             cached = Settings!Current

SettingsInv == SettingsViewInv /\ SettingsCurrentInv

(* The first view is the only one there has been, and nobody holds any.    *)
LEMMA SettingsInvInit == Settings!Init => SettingsInv
<1> SUFFICES ASSUME Settings!Init PROVE SettingsInv
    OBVIOUS
<1>1. SettingsViewInv
    BY DEF Settings!Init, SettingsViewInv, Requesters, RequestPlaces
<1>2. SettingsCurrentInv
    BY DEF Settings!Init, SettingsCurrentInv, Requesters, RequestPlaces
<1> QED BY <1>1, <1>2 DEF SettingsInv

(* The view depends on the document alone.                                 *)
LEMMA SameSettingsView == settings' = settings => Settings!Current' = Settings!Current
BY DEF Settings!Current, Settings!MapToFullSettings

(* A reader leaves the document alone, and stores nothing but what it has  *)
(* read.                                                                   *)
LEMMA SettingsReaderStep ==
    ASSUME SettingsInv, NEW r \in Readers, NEW fails \in BOOLEAN,
           Settings!Get(r, fails) \/ Settings!Fetch(r) \/ Settings!Fill(r, fails)
    PROVE  SettingsInv'
<1>1. CASE Settings!Get(r, fails)
    BY <1>1, SameSettingsView DEF SettingsInv, SettingsViewInv, SettingsCurrentInv,
       Settings!Get, Requesters, RequestPlaces
<1>2. CASE Settings!Fetch(r)
    BY <1>2, SameSettingsView DEF SettingsInv, SettingsViewInv, SettingsCurrentInv,
       Settings!Fetch, Requesters, RequestPlaces
<1>3. CASE Settings!Fill(r, fails)
    BY <1>3, SameSettingsView DEF SettingsInv, SettingsViewInv, SettingsCurrentInv,
       Settings!Fill, Settings!Stored, Requesters, RequestPlaces
<1> QED BY <1>1, <1>2, <1>3

(* An update makes the new view the current one, and whoever still holds   *)
(* another one has crossed it; a writer stores what it has written.        *)
LEMMA SettingsWriterStep ==
    ASSUME SettingsInv, NEW w \in Writers, NEW fails \in BOOLEAN,
           \/ Settings!Upsert(w) \/ Settings!CacheUpdate(w, fails)
           \/ Settings!MarkOnboardingCompleted(w)
    PROVE  SettingsInv'
<1>1. CASE Settings!Upsert(w)
    <2>1. past' = past \cup {Settings!Current'}
        BY <1>1 DEF Settings!Upsert, Settings!Current, Settings!MapToFullSettings
    <2>2. held' = [held EXCEPT ![w] = Settings!Current'] /\ pc' = [pc EXCEPT ![w] = "cache"]
        BY <1>1 DEF Settings!Upsert, Settings!ViewAfterUpdate, Settings!Current,
           Settings!MapToFullSettings
    <2>3. SettingsViewInv'
        BY <1>1, <2>1, <2>2 DEF SettingsInv, SettingsViewInv, Settings!Upsert, Requesters,
           RequestPlaces
    <2>4. SettingsCurrentInv'
        <3> SUFFICES ASSUME crossed' = {} PROVE SettingsCurrentInv'
            BY DEF SettingsCurrentInv
        <3>1. crossed = {} /\ \A x \in Requesters : pc[x] \notin {"fill", "cache"}
            BY <1>1 DEF Settings!Upsert, SettingsInv, SettingsViewInv, Requesters,
               RequestPlaces
        <3>2. \A x \in Requesters : pc'[x] \in {"fill", "cache"} => held'[x] = Settings!Current'
            BY <2>2, <3>1 DEF SettingsInv, SettingsViewInv, Requesters, RequestPlaces
        <3>3. pc'[w] = "cache"
            BY <2>2 DEF SettingsInv, SettingsViewInv, Requesters, RequestPlaces
        <3> QED BY <3>2, <3>3 DEF SettingsCurrentInv
    <2> QED BY <2>3, <2>4 DEF SettingsInv
<1>2. CASE Settings!CacheUpdate(w, fails)
    BY <1>2, SameSettingsView DEF SettingsInv, SettingsViewInv, SettingsCurrentInv,
       Settings!CacheUpdate, Settings!Stored, Requesters, RequestPlaces
<1>3. CASE Settings!MarkOnboardingCompleted(w)
    BY <1>3, SameSettingsView DEF SettingsInv, SettingsViewInv, SettingsCurrentInv,
       Settings!MarkOnboardingCompleted, Requesters, RequestPlaces
<1> QED BY <1>1, <1>2, <1>3

(* Every step keeps SettingsInv.                                           *)
LEMMA SettingsInvStep == SettingsInv /\ [Settings!Next]_(Settings!vars) => SettingsInv'
<1> SUFFICES ASSUME SettingsInv, [Settings!Next]_(Settings!vars) PROVE SettingsInv'
    OBVIOUS
<1>1. ASSUME NEW fails \in BOOLEAN, Settings!Command(fails) PROVE SettingsInv'
    BY <1>1, SettingsReaderStep, SettingsWriterStep DEF Settings!Command
<1>2. CASE Settings!CommandSucceeds \/ Settings!CommandFails
    BY <1>1, <1>2 DEF Settings!CommandSucceeds, Settings!CommandFails
<1>3. ASSUME NEW r \in Readers, Settings!Fetch(r) PROVE SettingsInv'
    BY <1>3, SettingsReaderStep
<1>4. ASSUME NEW w \in Writers, Settings!Upsert(w) \/ Settings!MarkOnboardingCompleted(w)
      PROVE  SettingsInv'
    BY <1>4, SettingsWriterStep
<1>5. CASE Settings!Expire
    BY <1>5, SameSettingsView DEF SettingsInv, SettingsViewInv, SettingsCurrentInv,
       Settings!Expire, Requesters, RequestPlaces
<1>6. CASE UNCHANGED Settings!vars
    BY <1>6, SameSettingsView DEF SettingsInv, SettingsViewInv, SettingsCurrentInv,
       Settings!vars, Requesters, RequestPlaces
<1> QED BY <1>2, <1>3, <1>4, <1>5, <1>6 DEF Settings!Next

(* So what is served is current.                                           *)
LEMMA InvServesCurrent == SettingsInv => Settings!SettingsAreCurrent
BY DEF SettingsInv, SettingsViewInv, SettingsCurrentInv, Settings!SettingsAreCurrent,
   Settings!ServedWasStored, Settings!FreshUnlessCrossed, Requesters, RequestPlaces

(* Whatever overlaps and fails, what is served is one state of the         *)
(* document, and the current one unless requests crossed                   *)
(* (getCachedOrFetch and upsert of assistant-settings.service.ts).         *)
THEOREM ServedSettingsAreCurrent == Settings!Spec => []Settings!SettingsAreCurrent
BY SettingsInvInit, SettingsInvStep, InvServesCurrent, PTL DEF Settings!Spec

(* The state of the settings is of its types: among others, a reader never *)
(* goes where only a writer does.                                          *)
FullViews ==
    {v \in [Settings!Fields -> Settings!Null..MaxUpdates] : v["isEnabled"] # Settings!Null}

SettingsTypeInv ==
    /\ settings \in [Settings!Fields -> Settings!Null..MaxUpdates]
    /\ cached \in FullViews \cup {Settings!Absent}
    /\ held \in [Requesters -> FullViews \cup {Settings!Absent}]
    /\ \A x \in Requesters : pc[x] \in {"fill", "cache"} => held[x] \in FullViews
    /\ onboarded \in BOOLEAN
    /\ pc \in [Requesters -> RequestPlaces]
    /\ \A r \in Readers : pc[r] \in {"idle", "fetch", "fill"}
    /\ \A w \in Writers : pc[w] \in {"idle", "cache", "complete"}
    /\ updates \in 0..MaxUpdates /\ errors \in 0..MaxErrors
    /\ crossed \subseteq {"crossed", "unsaved"}

(* A request reads, or it writes.                                          *)
SettingsSound == Readers \cap Writers = {} /\ MaxUpdates \in Nat /\ MaxErrors \in Nat

(* A full view of a document.                                              *)
LEMMA FullView ==
    ASSUME NEW doc \in [Settings!Fields -> Settings!Null..MaxUpdates], MaxUpdates \in Nat
    PROVE  Settings!MapToFullSettings(doc) \in FullViews
BY DEF FullViews, Settings!MapToFullSettings, Settings!Fields, Settings!NullableFields,
   Settings!Null, Settings!Default

(* The types are there at first.                                           *)
LEMMA SettingsTypeInit == SettingsSound /\ Settings!Init => SettingsTypeInv
<1> SUFFICES ASSUME SettingsSound, Settings!Init PROVE SettingsTypeInv
    OBVIOUS
<1>1. settings \in [Settings!Fields -> Settings!Null..MaxUpdates]
    BY DEF SettingsSound, Settings!Init, Settings!Null, Settings!Default
<1>2. 0 \in 0..MaxUpdates /\ 0 \in 0..MaxErrors
    BY DEF SettingsSound
<1> QED BY <1>1, <1>2 DEF Settings!Init, SettingsTypeInv, Requesters, RequestPlaces

(* A reader keeps them.                                                    *)
LEMMA SettingsTypeReader ==
    ASSUME SettingsSound, SettingsTypeInv, NEW r \in Readers, NEW fails \in BOOLEAN,
           errors' \in 0..MaxErrors,
           Settings!Get(r, fails) \/ Settings!Fetch(r) \/ Settings!Fill(r, fails)
    PROVE  SettingsTypeInv'
<1> USE DEF SettingsSound, SettingsTypeInv, Requesters, RequestPlaces
<1>1. CASE Settings!Get(r, fails)
    BY <1>1 DEF Settings!Get
<1>2. CASE Settings!Fetch(r)
    <2>1. Settings!Current \in FullViews
        BY FullView DEF Settings!Current
    <2> QED BY <1>2, <2>1 DEF Settings!Fetch
<1>3. CASE Settings!Fill(r, fails)
    BY <1>3 DEF Settings!Fill, Settings!Stored
<1> QED BY <1>1, <1>2, <1>3

(* So does a writer.                                                       *)
LEMMA SettingsTypeWriter ==
    ASSUME SettingsSound, SettingsTypeInv, NEW w \in Writers, NEW fails \in BOOLEAN,
           errors' \in 0..MaxErrors,
           \/ Settings!Upsert(w) \/ Settings!CacheUpdate(w, fails)
           \/ Settings!MarkOnboardingCompleted(w)
    PROVE  SettingsTypeInv'
<1> USE DEF SettingsSound, SettingsTypeInv, Requesters, RequestPlaces
<1>1. CASE Settings!Upsert(w)
    <2>1. PICK fields \in Changes, value \in {Settings!Null, updates + 1} :
              /\ settings' = [f \in Settings!Fields |-> IF f \in fields THEN value ELSE settings[f]]
              /\ held' = [held EXCEPT ![w] = Settings!ViewAfterUpdate(settings', fields)]
        BY <1>1 DEF Settings!Upsert
    <2>2. updates' \in 0..MaxUpdates /\ value \in Settings!Null..MaxUpdates
        BY <1>1 DEF Settings!Upsert, Settings!Null
    <2>3. settings' \in [Settings!Fields -> Settings!Null..MaxUpdates]
        BY <2>1, <2>2
    <2>4. Settings!ViewAfterUpdate(settings', fields) \in FullViews
        BY <2>3, FullView DEF Settings!ViewAfterUpdate
    <2>5. /\ held' \in [Requesters -> FullViews \cup {Settings!Absent}]
          /\ held'[w] \in FullViews
          /\ \A x \in Requesters \ {w} : held'[x] = held[x]
        BY <2>1, <2>4
    <2>6. /\ pc' = [pc EXCEPT ![w] = "cache"] /\ UNCHANGED <<cached, onboarded, errors>>
          /\ crossed' = crossed \/ crossed' = crossed \cup {"crossed"}
        BY <1>1 DEF Settings!Upsert
    <2>7. /\ pc' \in [Requesters -> RequestPlaces]
          /\ \A x \in Requesters : pc'[x] \in {"fill", "cache"} => held'[x] \in FullViews
          /\ \A x \in Readers : pc'[x] \in {"idle", "fetch", "fill"}
          /\ \A x \in Writers : pc'[x] \in {"idle", "cache", "complete"}
        BY <2>5, <2>6
    <2> QED BY <2>2, <2>3, <2>5, <2>6, <2>7
<1>2. CASE Settings!CacheUpdate(w, fails)
    BY <1>2 DEF Settings!CacheUpdate, Settings!Stored
<1>3. CASE Settings!MarkOnboardingCompleted(w)
    BY <1>3 DEF Settings!MarkOnboardingCompleted
<1> QED BY <1>1, <1>2, <1>3

(* Every step keeps the types.                                             *)
LEMMA SettingsTypeStep ==
    SettingsSound /\ SettingsTypeInv /\ [Settings!Next]_(Settings!vars) => SettingsTypeInv'
<1> SUFFICES ASSUME SettingsSound, SettingsTypeInv, [Settings!Next]_(Settings!vars)
             PROVE  SettingsTypeInv'
    OBVIOUS
<1>1. ASSUME NEW fails \in BOOLEAN, Settings!Command(fails), errors' \in 0..MaxErrors
      PROVE  SettingsTypeInv'
    BY <1>1, SettingsTypeReader, SettingsTypeWriter DEF Settings!Command
<1>2. CASE Settings!CommandSucceeds \/ Settings!CommandFails
    <2>1. errors' \in 0..MaxErrors
        <3>1. errors \in 0..MaxErrors /\ MaxErrors \in Nat
            BY DEF SettingsTypeInv, SettingsSound
        <3>2. errors' = errors \/ (errors < MaxErrors /\ errors' = errors + 1)
            BY <1>2 DEF Settings!CommandSucceeds, Settings!CommandFails
        <3> QED BY ONLY <3>1, <3>2
    <2> QED BY <1>1, <1>2, <2>1 DEF Settings!CommandSucceeds, Settings!CommandFails
<1>3. ASSUME NEW r \in Readers, Settings!Fetch(r) PROVE SettingsTypeInv'
    <2>1. errors' \in 0..MaxErrors
        BY <1>3 DEF Settings!Fetch, SettingsTypeInv
    <2>2. Settings!Get(r, FALSE) \/ Settings!Fetch(r) \/ Settings!Fill(r, FALSE)
        BY <1>3
    <2> QED BY <2>1, <2>2, SettingsTypeReader
<1>4. ASSUME NEW w \in Writers, Settings!Upsert(w) \/ Settings!MarkOnboardingCompleted(w)
      PROVE  SettingsTypeInv'
    <2>1. errors' \in 0..MaxErrors
        BY <1>4 DEF Settings!Upsert, Settings!MarkOnboardingCompleted, SettingsTypeInv
    <2>2. \/ Settings!Upsert(w) \/ Settings!CacheUpdate(w, FALSE)
          \/ Settings!MarkOnboardingCompleted(w)
        BY <1>4
    <2> QED BY <2>1, <2>2, SettingsTypeWriter
<1>5. CASE Settings!Expire
    BY <1>5 DEF Settings!Expire, SettingsTypeInv
<1>6. CASE UNCHANGED Settings!vars
    BY <1>6 DEF Settings!vars, SettingsTypeInv
<1> QED BY <1>2, <1>3, <1>4, <1>5, <1>6 DEF Settings!Next

(* They are the types that the settings have.                              *)
LEMMA SettingsTypesHold == SettingsSound /\ SettingsTypeInv => Settings!SettingsTypeOK
<1> SUFFICES ASSUME SettingsSound, SettingsTypeInv PROVE Settings!SettingsTypeOK
    OBVIOUS
<1>1. cached = Settings!Absent \/
        (cached \in [Settings!Fields -> Settings!Null..MaxUpdates]
         /\ cached["isEnabled"] # Settings!Null)
    BY DEF SettingsTypeInv, FullViews
<1>2. \A x \in Requesters :
        pc[x] \in IF x \in Readers THEN {"idle", "fetch", "fill"}
                  ELSE {"idle", "cache", "complete"}
    BY DEF SettingsTypeInv, SettingsSound, Requesters
<1> QED BY <1>1, <1>2 DEF Settings!SettingsTypeOK, SettingsTypeInv, Requesters

-------------------------------------------------------------------------------
(* The run of all the parts.  A step of one part is a step of it that      *)
(* leaves the others alone, so that what is proved of a part by itself     *)
(* holds in the run.  The modules below are parts of MCChat with the       *)
(* theorems about them.                                                    *)

ArchiveProofs == INSTANCE ChatArchiveProofs
                     WITH MaxTurns <- 3, Retentions <- {0, 1, 2}, PageSizes <- {1, 3, 9},
                          MESSAGES_LIMIT_MAX <- 4, MaxDays <- 2, MaxPlanChanges <- 1,
                          messages <- archived, turns <- answered, met <- spoilt

PagesProofs == INSTANCE DashboardProofs
                   WITH PlanSeeds <- <<"basic", "max">>,
                        Releases <- <<[basic |-> 1, max |-> -1], [basic |-> 2, max |-> -1]>>,
                        MaxErrors <- 1, Period <- 1, MaxUsed <- 2,
                        MaxChanges <- 1, list <- planList, errors <- failed, met <- unclean,
                        shown <- onPage, changes <- events

(* The strings in the catalogue and in the responses of the run.           *)
TurnNames ==
    {"p1", "p2", "v1", "v2", "v3", "v4", "c1", "c2", "red", "blue", "q", "n",
     "none", "blank", "hidden", "available", "words", "topic1", "topic2", "topic3",
     "search_products", "get_product_details", "get_store_categories",
     "get_store_policies", "other"}

TurnProofs == INSTANCE ChatTurnProofs
                  WITH Names <- TurnNames, Catalogue <- SmallCatalogue, Updates <- SmallUpdates,
                        Responses <- SmallResponses,
                        Topics <- <<"topic1", "topic2", "topic3">>,
                        HISTORY_TAIL_CEILING <- 5, MAX_TOOL_ROUNDS <- 2,
                        MaxCalls <- 3

(* The memory in the run is a conversation.                                *)
LEMMA MemoryIsAConversation ==
    /\ ChatInit => Init
    /\ [ChatNext]_chatVars => [Next]_vars
<1>1. ChatInit => Init
    BY DEF ChatInit
<1>2. [ChatNext]_chatVars => [Next]_vars
    BY DEF ChatNext, MemoryNext, TurnNext, SettingsNext, ArchiveNext, PagesNext, chatVars
<1> QED BY <1>1, <1>2

(* Summaries keep up in the run.                                           *)
THEOREM SummariesKeepUpInRun == ChatSpec => []SummaryKeepsUp
BY MemoryIsAConversation, MemoryStart, MemoryStep, InvKeepsUp, PTL DEF ChatSpec

(* Nothing is forgotten in the run.                                        *)
THEOREM NothingIsForgottenInRun == ChatSpec => []NothingForgotten
<1>1. MemoryInv /\ ReadingShape /\ ReadingInv => NothingForgotten
    BY InvCovers, InvTells DEF NothingForgotten
<1> QED BY <1>1, MemoryIsAConversation, MemoryStart, MemoryStep, ReadingStart, ReadingStep,
           PTL DEF ChatSpec

(* The settings in the run are the settings.                               *)
LEMMA SettingsInRun ==
    /\ ChatInit => Settings!Init
    /\ [ChatNext]_chatVars => [Settings!Next]_(Settings!vars)
<1>1. ChatInit => Settings!Init
    BY DEF ChatInit
<1>2. UNCHANGED settingsVars => UNCHANGED Settings!vars
    BY DEF Settings!vars, settingsVars
<1>3. [ChatNext]_chatVars => [Settings!Next]_(Settings!vars)
    BY <1>2 DEF ChatNext, MemoryNext, TurnNext, SettingsNext, ArchiveNext, PagesNext,
       chatVars
<1> QED BY <1>1, <1>3

(* What is served in the run is one state of the settings, and the current *)
(* one unless requests crossed (assistant-settings.service.ts).            *)
THEOREM ServedSettingsAreCurrentInRun == ChatSpec => []SettingsAreCurrent
<1>1. SettingsInv => SettingsAreCurrent
    BY InvServesCurrent DEF SettingsAreCurrent
<1> QED BY SettingsInRun, SettingsInvInit, SettingsInvStep, <1>1, PTL DEF ChatSpec

(* And the plans are those that DashboardProofs is about.                  *)
LEMMA PagesStart == ChatInit => PagesProofs!Init
<1>1. Pages!Init = PagesProofs!Init
    BY DEF Pages!PlanIds, PagesProofs!PlanIds, Pages!Absent, PagesProofs!Absent,
           Pages!NoList, PagesProofs!NoList, Pages!AllPlans, PagesProofs!AllPlans,
           Pages!Lookups, PagesProofs!Lookups, Pages!NoPlan, PagesProofs!NoPlan,
           Pages!Idle, PagesProofs!Idle, Pages!PlansInit, PagesProofs!PlansInit,
           Pages!NoSubscription, PagesProofs!NoSubscription, Pages!NoPage,
           PagesProofs!NoPage, Pages!NothingShown, PagesProofs!NothingShown,
           Pages!Init, PagesProofs!Init
<1> QED BY <1>1 DEF ChatInit

(* And their steps are its steps.                                          *)
LEMMA PagesStep == [ChatNext]_chatVars => [PagesProofs!Next]_(PagesProofs!vars)
<1>1. Pages!Next = PagesProofs!Next
    BY DEF Pages!PlanIds, PagesProofs!PlanIds, Pages!Unlimited,
           PagesProofs!Unlimited, Pages!Absent, PagesProofs!Absent, Pages!NoList,
           PagesProofs!NoList, Pages!AllPlans, PagesProofs!AllPlans,
           Pages!Lookups, PagesProofs!Lookups, Pages!NoPlan, PagesProofs!NoPlan,
           Pages!Idle, PagesProofs!Idle, Pages!planVars, PagesProofs!planVars,
           Pages!PlansInit, PagesProofs!PlansInit, Pages!Seeding,
           PagesProofs!Seeding, Pages!Succeeds, PagesProofs!Succeeds, Pages!Fails,
           PagesProofs!Fails, Pages!IsCached, PagesProofs!IsCached, Pages!Cached,
           PagesProofs!Cached, Pages!Stored, PagesProofs!Stored, Pages!Moves,
           PagesProofs!Moves, Pages!Get, PagesProofs!Get, Pages!Find,
           PagesProofs!Find, Pages!FindFails, PagesProofs!FindFails, Pages!Fill,
           PagesProofs!Fill, Pages!Read, PagesProofs!Read, Pages!StartProcess,
           PagesProofs!StartProcess, Pages!KeysToDelete, PagesProofs!KeysToDelete,
           Pages!UpsertPlan, PagesProofs!UpsertPlan, Pages!Deleted,
           PagesProofs!Deleted, Pages!DelList, PagesProofs!DelList,
           Pages!DelByPattern, PagesProofs!DelByPattern, Pages!ExpirePlan,
           PagesProofs!ExpirePlan, Pages!Seed, PagesProofs!Seed, Pages!Statuses,
           PagesProofs!Statuses, Pages!Accessible, PagesProofs!Accessible,
           Pages!NoSubscription, PagesProofs!NoSubscription, Pages!storeVars,
           PagesProofs!storeVars, Pages!vars, PagesProofs!vars, Pages!NoPage,
           PagesProofs!NoPage, Pages!NothingShown, PagesProofs!NothingShown,
           Pages!Init, PagesProofs!Init, Pages!HasAccess, PagesProofs!HasAccess,
           Pages!LimitNow, PagesProofs!LimitNow, Pages!ChatAllowed,
           PagesProofs!ChatAllowed, Pages!AtLeast0, PagesProofs!AtLeast0,
           Pages!DaysRemaining, PagesProofs!DaysRemaining,
           Pages!CalculateUsagePercent, PagesProofs!CalculateUsagePercent,
           Pages!ShowsAccess, PagesProofs!ShowsAccess, Pages!PlanLimit,
           PagesProofs!PlanLimit, Pages!MessagesRemaining,
           PagesProofs!MessagesRemaining, Pages!Shown, PagesProofs!Shown,
           Pages!BeginPage, PagesProofs!BeginPage, Pages!ReadSubscription,
           PagesProofs!ReadSubscription, Pages!IsFatal, PagesProofs!IsFatal,
           Pages!Without, PagesProofs!Without,
           Pages!Lost, PagesProofs!Lost, Pages!SubscriptionFails,
           PagesProofs!SubscriptionFails, Pages!Reads, PagesProofs!Reads,
           Pages!LookUp, PagesProofs!LookUp, Pages!ReadPlans,
           PagesProofs!ReadPlans, Pages!ReadPlansFails,
           PagesProofs!ReadPlansFails, Pages!ReadUsage, PagesProofs!ReadUsage,
           Pages!Build, PagesProofs!Build, Pages!Change, PagesProofs!Change,
           Pages!StoreChange, PagesProofs!StoreChange, Pages!SubscriptionEvent,
           PagesProofs!SubscriptionEvent, Pages!CountMessage,
           PagesProofs!CountMessage, Pages!TimePasses, PagesProofs!TimePasses,
           Pages!SeedPlans, PagesProofs!SeedPlans, Pages!Next, PagesProofs!Next
<1>2. UNCHANGED pageVars => UNCHANGED PagesProofs!vars
    BY DEF PagesProofs!vars, PagesProofs!planVars, PagesProofs!storeVars, pageVars
<1> QED BY <1>1, <1>2
        DEF ChatNext, MemoryNext, TurnNext, SettingsNext, ArchiveNext, PagesNext, chatVars

(* So the pages in the run are pages.                                      *)
LEMMA PagesInRun == ChatSpec => PagesProofs!Spec
BY PagesStart, PagesStep, PTL DEF ChatSpec, PagesProofs!Spec

(* After a start the plans in use in the run are those that were seeded    *)
(* (plans.service.ts).                                                     *)
THEOREM PlansAreAsSeededInRun == ChatSpec => []SeededPlansAreUsed
<1>1. PagesProofs!Spec => []PagesProofs!SeededPlansAreUsed
    <2> DEFINE first == [basic |-> 1, max |-> -1]
    <2>1. PagesProofs!PlanIds = {"basic", "max"}
        BY DEF PagesProofs!PlanIds
    <2>2. <<first, [basic |-> 2, max |-> -1]>>[1] \in [PagesProofs!PlanIds -> {1, -1}]
        BY <2>1
    <2> QED BY <2>2, PagesProofs!PlansAreAsSeeded
<1>2. Pages!SeededPlansAreUsed = PagesProofs!SeededPlansAreUsed
    BY DEF Pages!PlanIds, PagesProofs!PlanIds, Pages!Absent, PagesProofs!Absent,
           Pages!NoList, PagesProofs!NoList, Pages!Seeding, PagesProofs!Seeding,
           Pages!SeededPlansAreUsed, PagesProofs!SeededPlansAreUsed
<1>3. PagesProofs!SeededPlansAreUsed => SeededPlansAreUsed
    BY <1>2 DEF SeededPlansAreUsed
<1> QED BY <1>1, <1>3, PagesInRun, PTL

(* The plans of the run are plans as DashboardProofs asks for them.        *)
LEMMA PlansOfTheRun == PagesProofs!PlansAreNumbers
<1> DEFINE first == [basic |-> 1, max |-> -1]
           second == [basic |-> 2, max |-> -1]
<1>1. PagesProofs!PlanIds = {"basic", "max"}
    BY DEF PagesProofs!PlanIds
<1>2. first \in PagesProofs!Limits /\ second \in PagesProofs!Limits
    BY <1>1 DEF PagesProofs!Limits
<1>3. <<"basic", "max">> \in Seq(PagesProofs!PlanIds) /\ <<"basic", "max">> # <<>>
    BY <1>1
<1>4. PagesProofs!AllPlans \notin PagesProofs!PlanIds
    BY <1>1 DEF PagesProofs!AllPlans
<1> HIDE DEF first, second
<1>5. /\ 1 \in DOMAIN <<first, second>>
      /\ \A version \in DOMAIN <<first, second>> :
           <<first, second>>[version] \in PagesProofs!Limits
    BY <1>2
<1> QED BY <1>3, <1>4, <1>5 DEF first, second, PagesProofs!PlansAreNumbers

(* Both pages of the dashboard tell in the run what the services that      *)
(* decide about a chat would say (dashboard.service.ts).                   *)
THEOREM PagesAgreeInRun == ChatSpec => []PagesAgree
<1>1. PagesProofs!Spec => []PagesProofs!PagesAgree
    BY PlansOfTheRun, PagesProofs!PagesTellTheTruth
<1>2. Pages!PagesAgree = PagesProofs!PagesAgree
    BY DEF Pages!PlanIds, PagesProofs!PlanIds, Pages!Unlimited,
           PagesProofs!Unlimited, Pages!Absent, PagesProofs!Absent,
           Pages!NoList, PagesProofs!NoList, Pages!AllPlans,
           PagesProofs!AllPlans, Pages!Lookups, PagesProofs!Lookups,
           Pages!NoPlan, PagesProofs!NoPlan, Pages!Idle, PagesProofs!Idle,
           Pages!Seeding, PagesProofs!Seeding, Pages!HasAccess,
           PagesProofs!HasAccess, Pages!Accessible, PagesProofs!Accessible,
           Pages!LimitNow, PagesProofs!LimitNow, Pages!ChatAllowed,
           PagesProofs!ChatAllowed, Pages!AtLeast0, PagesProofs!AtLeast0,
           Pages!DaysRemaining, PagesProofs!DaysRemaining,
           Pages!CalculateUsagePercent, PagesProofs!CalculateUsagePercent,
           Pages!ShowsAccess, PagesProofs!ShowsAccess, Pages!PlanLimit,
           PagesProofs!PlanLimit, Pages!MessagesRemaining,
           PagesProofs!MessagesRemaining, Pages!Statuses, PagesProofs!Statuses,
           Pages!NoSubscription, PagesProofs!NoSubscription, Pages!NoPage,
           PagesProofs!NoPage, Pages!Shown, PagesProofs!Shown,
           Pages!NothingShown, PagesProofs!NothingShown, Pages!Settled,
           PagesProofs!Settled, Pages!BillingAgrees, PagesProofs!BillingAgrees,
           Pages!OverviewAgrees, PagesProofs!OverviewAgrees, Pages!PagesAgree,
           PagesProofs!PagesAgree, Pages!Cached, PagesProofs!Cached,
           Pages!IsCached, PagesProofs!IsCached, Pages!Succeeds,
           PagesProofs!Succeeds, Pages!Fails, PagesProofs!Fails
<1>3. PagesProofs!PagesAgree => PagesAgree
    BY <1>2 DEF PagesAgree
<1> QED BY <1>1, <1>3, PagesInRun, PTL

(* The archive of the run is the one that ChatArchiveProofs is about.      *)
LEMMA ArchiveStart == ChatInit => ArchiveProofs!Init
<1>1. Archive!Init = ArchiveProofs!Init
    BY DEF Archive!NoConversation, ArchiveProofs!NoConversation,
           Archive!NotRead, ArchiveProofs!NotRead, Archive!Init,
           ArchiveProofs!Init
<1> QED BY <1>1 DEF ChatInit

(* And so are its steps.                                                   *)
LEMMA ArchiveStep == [ChatNext]_chatVars => [ArchiveProofs!Next]_(ArchiveProofs!vars)
<1>1. Archive!Next = ArchiveProofs!Next
    BY DEF Archive!Unlimited, ArchiveProofs!Unlimited, Archive!Never,
           ArchiveProofs!Never, Archive!NoConversation,
           ArchiveProofs!NoConversation, Archive!NotRead, ArchiveProofs!NotRead,
           Archive!PublishTurn, ArchiveProofs!PublishTurn, Archive!ExpiryAfter,
           ArchiveProofs!ExpiryAfter, Archive!ChooseExpiry,
           ArchiveProofs!ChooseExpiry, Archive!ExpiryOfConversation,
           ArchiveProofs!ExpiryOfConversation,
           Archive!PERSISTED_MESSAGES_PER_TURN,
           ArchiveProofs!PERSISTED_MESSAGES_PER_TURN,
           Archive!ReserveConversationSequence,
           ArchiveProofs!ReserveConversationSequence, Archive!FirstSequence,
           ArchiveProofs!FirstSequence, Archive!MessagesOfTurn,
           ArchiveProofs!MessagesOfTurn, Archive!ArchiveTurn,
           ArchiveProofs!ArchiveTurn, Archive!RejectTurn,
           ArchiveProofs!RejectTurn, Archive!ExpireConversation,
           ArchiveProofs!ExpireConversation, Archive!ExpireMessage,
           ArchiveProofs!ExpireMessage, Archive!NextDay, ArchiveProofs!NextDay,
           Archive!ChangePlan, ArchiveProofs!ChangePlan, Archive!Next,
           ArchiveProofs!Next
<1>2. UNCHANGED archiveVars => UNCHANGED ArchiveProofs!vars
    BY DEF ArchiveProofs!vars, archiveVars
<1> QED BY <1>1, <1>2
        DEF ChatNext, MemoryNext, TurnNext, SettingsNext, ArchiveNext, PagesNext, chatVars

(* So the archive in the run is an archive, of sizes and pages that are    *)
(* numbers.                                                                *)
LEMMA ArchiveInRun == ChatSpec => ArchiveProofs!Spec
BY ArchiveStart, ArchiveStep, PTL DEF ChatSpec, ArchiveProofs!Spec

LEMMA ArchiveOfTheRun == ArchiveProofs!Bounds /\ ArchiveProofs!PagesAreNumbers
BY DEF ArchiveProofs!Bounds, ArchiveProofs!PagesAreNumbers

(* The dashboard shows in the run what is retained, page by page, as it    *)
(* was said (dashboard.service.ts, chat-persistence.repository.ts).        *)
THEOREM ArchiveIsShownInRun == ChatSpec => []ArchiveIsShown
<1>1. ArchiveProofs!Spec => []ArchiveProofs!ArchiveIsShown
    BY ArchiveOfTheRun, ArchiveProofs!ArchiveIsShownAsSaid
<1>2. Archive!ArchiveIsShown = ArchiveProofs!ArchiveIsShown
    BY DEF Archive!Cardinality, ArchiveProofs!Cardinality, Archive!Least,
           ArchiveProofs!Least, Archive!SafeLimit,
           ArchiveProofs!SafeLimit, Archive!Before, ArchiveProofs!Before,
           Archive!Sorted, ArchiveProofs!Sorted, Archive!ListMessages,
           ArchiveProofs!ListMessages, Archive!Skipped, ArchiveProofs!Skipped,
           Archive!Page, ArchiveProofs!Page, Archive!Unexpired,
           ArchiveProofs!Unexpired, Archive!RetainedIsFound,
           ArchiveProofs!RetainedIsFound, Archive!SaidBefore,
           ArchiveProofs!SaidBefore, Archive!Readable,
           ArchiveProofs!Readable, Archive!Ties,
           ArchiveProofs!Ties, Archive!TranscriptReadsAsSaid,
           ArchiveProofs!TranscriptReadsAsSaid, Archive!ArchiveIsShown,
           ArchiveProofs!ArchiveIsShown
<1>3. ArchiveProofs!ArchiveIsShown => ArchiveIsShown
    BY <1>2 DEF ArchiveIsShown
<1> QED BY <1>1, <1>3, ArchiveInRun, PTL

(* The catalogue of the run and what is written to it are sound, and so    *)
(* are the responses of Gemini.                                            *)
LEMMA CatalogueIsSound ==
    /\ DOMAIN SmallCatalogue = {"p1", "p2"}
    /\ SmallCatalogue \in [DOMAIN SmallCatalogue -> TurnProofs!Documents]
    /\ SmallUpdates \in [DOMAIN SmallCatalogue -> SUBSET TurnProofs!Documents]
<1> DEFINE V(id, status, price, inStock, options) ==
               Variant(id, status, price, inStock, options)
           v1 == V("v1", "available", 1, FALSE, {"red"})
           v2 == V("v2", "available", 5, TRUE, {"red"})
           v3 == V("v3", "hidden", 0, TRUE, {"red"})
           v4 == V("v4", "available", 2, TRUE, {"blue"})
           w1 == V("v1", "available", 4, TRUE, {"red"})
           w2 == V("v2", "hidden", 2, TRUE, {"red"})
           w4 == V("v4", "available", 6, FALSE, {"blue"})
           D(price, category, variants) == Product(price, category, variants)
           d1 == D(0, "c1", <<v1, v2, v3, v4>>)
           d2 == D(3, "c2", <<>>)
           u1 == D(0, "c1", <<w1, w2, w4>>)
<1>1. \A id, status \in TurnNames, price \in Nat, inStock \in BOOLEAN,
         options \in SUBSET TurnNames :
        V(id, status, price, inStock, options) \in TurnProofs!Variants
    BY DEF Variant, TurnProofs!Variants
<1>2. {"p1", "p2", "v1", "v2", "v3", "v4", "c1", "c2", "red", "blue", "available", "hidden"}
          \subseteq TurnNames
    BY DEF TurnNames
<1>3. 0 \in Nat /\ 1 \in Nat /\ 2 \in Nat /\ 3 \in Nat /\ 4 \in Nat /\ 5 \in Nat /\ 6 \in Nat
    OBVIOUS
<1>4. {"red"} \in SUBSET TurnNames /\ {"blue"} \in SUBSET TurnNames
    BY <1>2
<1> HIDE DEF V
<1>5. /\ v1 \in TurnProofs!Variants /\ v2 \in TurnProofs!Variants
      /\ v3 \in TurnProofs!Variants /\ v4 \in TurnProofs!Variants
      /\ w1 \in TurnProofs!Variants /\ w2 \in TurnProofs!Variants
      /\ w4 \in TurnProofs!Variants
    BY <1>1, <1>2, <1>3, <1>4
<1> HIDE DEF v1, v2, v3, v4, w1, w2, w4
<1>6. /\ <<v1, v2, v3, v4>> \in Seq(TurnProofs!Variants)
      /\ <<w1, w2, w4>> \in Seq(TurnProofs!Variants)
      /\ <<>> \in Seq(TurnProofs!Variants)
    BY <1>5
<1>7. \A price \in Nat, category \in TurnNames, variants \in Seq(TurnProofs!Variants) :
          D(price, category, variants) \in TurnProofs!Documents
    BY <1>2 DEF Product, TurnProofs!Documents
<1>8. /\ SmallCatalogue = [p1 |-> d1, p2 |-> d2]
      /\ SmallUpdates = [p1 |-> {u1}, p2 |-> {}]
    BY DEF SmallCatalogue, SmallUpdates, v1, v2, v3, v4, w1, w2, w4, V
<1> HIDE DEF D
<1>9. /\ d1 \in TurnProofs!Documents /\ d2 \in TurnProofs!Documents
      /\ u1 \in TurnProofs!Documents
    BY <1>2, <1>3, <1>6, <1>7
<1> HIDE DEF d1, d2, u1
<1>10. /\ DOMAIN SmallCatalogue = {"p1", "p2"} /\ DOMAIN SmallUpdates = {"p1", "p2"}
       /\ SmallCatalogue["p1"] = d1 /\ SmallCatalogue["p2"] = d2
       /\ SmallUpdates["p1"] = {u1} /\ SmallUpdates["p2"] = {}
    BY <1>8
<1>11. /\ SmallCatalogue = [p \in {"p1", "p2"} |-> SmallCatalogue[p]]
       /\ SmallUpdates = [p \in {"p1", "p2"} |-> SmallUpdates[p]]
    BY <1>8
<1> QED BY <1>9, <1>10, <1>11

(* Their calls are calls with arguments of the right types.                *)
LEMMA ResponsesAreSound ==
    SmallResponses \subseteq [text : SUBSET TurnNames, calls : Seq(TurnProofs!ToolCalls)]
<1> DEFINE Args == TurnProofs!Args
           Calls == TurnProofs!ToolCalls
<1>1. {"words", "v1", "v2", "p2", "q", "n", "none", "blank", "red", "search_products",
       "get_product_details", "get_store_categories", "get_store_policies", "other"}
          \subseteq TurnNames
    BY DEF TurnNames
<1>2. {} \in {S \in SUBSET TurnNames : IsFiniteSet(S)}
      /\ {"red"} \in {S \in SUBSET TurnNames : IsFiniteSet(S)}
    BY <1>1, FS_EmptySet, FS_Singleton
<1> DEFINE Finite == {S \in SUBSET TurnNames : IsFiniteSet(S)}
<1>a. Args = [query : TurnNames, category : TurnNames, maxPrice : Int, optionFilter : Finite,
              productName : TurnNames, variantId : TurnNames]
    <2>1. \A S : TurnProofs!IsFiniteSet(S) = IsFiniteSet(S)
        BY DEF TurnProofs!IsFiniteSet, IsFiniteSet
    <2> QED BY <2>1 DEF TurnProofs!Args
<1>b. {} \in Finite /\ {"red"} \in Finite
    BY <1>2
<1> HIDE DEF Args, Finite
<1>c. -1 \in Int /\ 3 \in Int
    OBVIOUS
<1>3. NoArgs \in Args
    BY <1>1, <1>a, <1>b, <1>c DEF NoArgs
<1>d. ASSUME NEW args \in Args, NEW text \in TurnNames
      PROVE  /\ [args EXCEPT !.query = text] \in Args
             /\ [args EXCEPT !.category = text] \in Args
             /\ [args EXCEPT !.productName = text] \in Args
             /\ [args EXCEPT !.variantId = text] \in Args
    BY <1>a
<1>e. ASSUME NEW args \in Args, NEW budget \in Int PROVE [args EXCEPT !.maxPrice = budget] \in Args
    BY <1>a
<1>f. ASSUME NEW args \in Args PROVE [args EXCEPT !.optionFilter = {"red"}] \in Args
    BY <1>a, <1>b
<1>4. ASSUME NEW budget \in Int PROVE Search(budget) \in Calls
    <2> DEFINE args == [NoArgs EXCEPT !.query = "q", !.maxPrice = budget,
                                      !.optionFilter = {"red"}]
    <2>1. [NoArgs EXCEPT !.query = "q"] \in Args
        BY <1>1, <1>3, <1>d
    <2>2. [[NoArgs EXCEPT !.query = "q"] EXCEPT !.maxPrice = budget] \in Args
        BY <2>1, <1>e
    <2>a. [[[NoArgs EXCEPT !.query = "q"] EXCEPT !.maxPrice = budget]
              EXCEPT !.optionFilter = {"red"}] \in Args
        BY <2>2, <1>f
    <2>3. args \in Args
        BY <2>a
    <2> HIDE DEF args
    <2>4. Search(budget) = [name |-> "search_products", args |-> args]
        BY DEF Search, Call, args
    <2> QED BY <1>1, <2>3, <2>4 DEF Calls, Args, TurnProofs!ToolCalls
<1>5. ASSUME NEW name \in TurnNames, NEW id \in TurnNames PROVE Details(name, id) \in Calls
    <2> DEFINE args == [NoArgs EXCEPT !.productName = name, !.variantId = id]
    <2>1. [NoArgs EXCEPT !.productName = name] \in Args
        BY <1>3, <1>d
    <2>a. [[NoArgs EXCEPT !.productName = name] EXCEPT !.variantId = id] \in Args
        BY <2>1, <1>d
    <2>2. args \in Args
        BY <2>a
    <2> HIDE DEF args
    <2>3. Details(name, id) = [name |-> "get_product_details", args |-> args]
        BY DEF Details, Call, args
    <2> QED BY <1>1, <2>2, <2>3 DEF Calls, Args, TurnProofs!ToolCalls
<1>6. ASSUME NEW name \in TurnNames PROVE Call(name, NoArgs) \in Calls
    BY <1>1, <1>3 DEF Call, Calls, Args, TurnProofs!ToolCalls
<1>7. Call("search_products", [NoArgs EXCEPT !.category = "blank"]) \in Calls
    <2>1. [NoArgs EXCEPT !.category = "blank"] \in Args
        BY <1>1, <1>3, <1>d
    <2> QED BY <1>1, <2>1 DEF Call, Calls, Args, TurnProofs!ToolCalls
<1> DEFINE c1 == Search(-1)
           c2 == Call("get_store_categories", NoArgs)
           c3 == Call("get_store_policies", NoArgs)
           c4 == Call("other", NoArgs)
           c5 == Search(3)
           c6 == Details("none", "v1")
           c7 == Details("n", "none")
           c8 == Call("search_products", [NoArgs EXCEPT !.category = "blank"])
<1>8. {c1, c2, c3, c4, c5, c6, c7, c8} \subseteq Calls
    <2>1. -1 \in Int /\ 3 \in Int
        OBVIOUS
    <2> QED BY <1>1, <1>4, <1>5, <1>6, <1>7, <2>1
<1>9. SmallResponses =
        {[text |-> {"words"}, calls |-> <<c1>>], [text |-> {}, calls |-> <<c2, c3, c4>>],
         [text |-> {"words"}, calls |-> <<c5, c6>>], [text |-> {}, calls |-> <<c7, c5, c8>>],
         [text |-> {}, calls |-> <<>>], [text |-> {"v2"}, calls |-> <<>>],
         [text |-> {"words", "v1", "p2"}, calls |-> <<>>]}
    BY DEF SmallResponses
<1> HIDE DEF c1, c2, c3, c4, c5, c6, c7, c8, Calls
<1>10. /\ <<c1>> \in Seq(Calls) /\ <<c2, c3, c4>> \in Seq(Calls) /\ <<c5, c6>> \in Seq(Calls)
       /\ <<c7, c5, c8>> \in Seq(Calls) /\ <<>> \in Seq(Calls)
    BY <1>8
<1>11. {{}, {"words"}, {"v2"}, {"words", "v1", "p2"}} \subseteq SUBSET TurnNames
    BY <1>1
<1>12. SmallResponses \subseteq [text : SUBSET TurnNames, calls : Seq(Calls)]
    BY <1>9, <1>10, <1>11
<1> QED BY <1>12 DEF Calls

(* So the theorems about turns hold for them.                              *)
LEMMA TurnIsSound == TurnProofs!Sound
<1>1. IsFiniteSet({"p1", "p2"})
    <2>1. IsFiniteSet({"p1"}) /\ IsFiniteSet({"p2"})
        BY FS_Singleton
    <2>2. {"p1", "p2"} = {"p1"} \cup {"p2"}
        OBVIOUS
    <2> QED BY <2>1, <2>2, FS_Union
<1>2. <<"topic1", "topic2", "topic3">> \in Seq(TurnNames)
    BY DEF TurnNames
<1>3. {"none", "blank", "hidden", "available", "words", "p1", "p2"} \subseteq TurnNames
    BY DEF TurnNames
<1>4. {TurnProofs!Nothing, TurnProofs!Blank, TurnProofs!Hidden, TurnProofs!Available,
       TurnProofs!Words} \subseteq TurnNames
    BY <1>3 DEF TurnProofs!Nothing, TurnProofs!Blank, TurnProofs!Hidden,
                TurnProofs!Available, TurnProofs!Words
<1>5. DOMAIN SmallCatalogue \subseteq TurnNames /\ TurnProofs!IsFiniteSet(DOMAIN SmallCatalogue)
    BY <1>1, <1>3, CatalogueIsSound DEF TurnProofs!IsFiniteSet, IsFiniteSet
<1>6. 5 \in Nat \ {0} /\ 2 \in Nat \ {0} /\ 3 \in Nat
    OBVIOUS
<1> QED BY <1>2, <1>4, <1>5, <1>6, CatalogueIsSound, ResponsesAreSound DEF TurnProofs!Sound

(* The turns in the run are those that ChatTurnProofs is about.            *)
LEMMA TurnStart == ChatInit => TurnProofs!Init
<1>1. Turn!Init = TurnProofs!Init
    BY DEF Turn!Init, TurnProofs!Init, Turn!IndexEntry, TurnProofs!IndexEntry,
           Turn!NoReply, TurnProofs!NoReply, Turn!MinPrice, TurnProofs!MinPrice,
           Turn!Active, TurnProofs!Active, Turn!HasVariants, TurnProofs!HasVariants,
           Turn!NoMinimum, TurnProofs!NoMinimum, Turn!Min, TurnProofs!Min, Turn!Hidden,
           TurnProofs!Hidden
<1> QED BY <1>1 DEF ChatInit

(* The tools of the run are those that ChatTurnProofs is about.            *)
LEMMA SameTools ==
    /\ \A a : Turn!Result(a) = TurnProofs!Result(a)
    /\ \A a, b : Turn!Given(a, b) = TurnProofs!Given(a, b)
    /\ \A a, b : Turn!Refuses(a, b) = TurnProofs!Refuses(a, b)
    /\ \A a, b : Turn!FindsById(a, b) = TurnProofs!FindsById(a, b)
    /\ \A a, b, c : Turn!SearchResult(a, b, c) = TurnProofs!SearchResult(a, b, c)
    /\ \A a, b : Turn!DetailsByHit(a, b) = TurnProofs!DetailsByHit(a, b)
    /\ \A a, b : Turn!DetailsById(a, b) = TurnProofs!DetailsById(a, b)
    /\ \A a : Turn!Categories(a) = TurnProofs!Categories(a)
    /\ \A a, b, c : Turn!Hits(a, b, c) = TurnProofs!Hits(a, b, c)
    /\ \A a : Turn!SearchFilters(a) = TurnProofs!SearchFilters(a)
    /\ \A a, b : Turn!Select(a, b) = TurnProofs!Select(a, b)
    /\ \A a, b : Turn!DetailCards(a, b) = TurnProofs!DetailCards(a, b)
<1>1. \A a, b : Turn!Select(a, b) = TurnProofs!Select(a, b)
    BY DEF Turn!Select, TurnProofs!Select, Turn!Ascending, TurnProofs!Ascending,
           Turn!Cardinality, TurnProofs!Cardinality
<1>2. \A a : Turn!Result(a) = TurnProofs!Result(a)
    BY DEF Turn!Result, TurnProofs!Result, Turn!ToSet, TurnProofs!ToSet
<1>3. \A a : Turn!SearchFilters(a) = TurnProofs!SearchFilters(a)
    BY DEF Turn!SearchFilters, TurnProofs!SearchFilters, Turn!Filters,
           TurnProofs!Filters, Turn!ParseString, TurnProofs!ParseString,
           Turn!ParseNumber, TurnProofs!ParseNumber, Turn!Blank, TurnProofs!Blank,
           Turn!Nothing, TurnProofs!Nothing, Turn!NoMaximum, TurnProofs!NoMaximum
<1>4. \A a, b : Turn!Given(a, b) = TurnProofs!Given(a, b)
    BY DEF Turn!Given, TurnProofs!Given, Turn!Nothing, TurnProofs!Nothing, Turn!Blank,
           TurnProofs!Blank
<1>5. \A a, b : Turn!Refuses(a, b) = TurnProofs!Refuses(a, b)
    BY <1>4 DEF Turn!Refuses, TurnProofs!Refuses, Turn!ToolNames, TurnProofs!ToolNames,
       Turn!ToolParameters, TurnProofs!ToolParameters
<1>6. \A a, b : Turn!PickBestVariant(a, b) = TurnProofs!PickBestVariant(a, b)
    BY DEF Turn!PickBestVariant, TurnProofs!PickBestVariant, Turn!Active,
           TurnProofs!Active, Turn!NoMaximum, TurnProofs!NoMaximum, Turn!OrElse,
           TurnProofs!OrElse, Turn!IsAvailable, TurnProofs!IsAvailable, Turn!Score,
           TurnProofs!Score, Turn!Min, TurnProofs!Min, Turn!Hidden, TurnProofs!Hidden,
           Turn!Available, TurnProofs!Available, Turn!Cardinality,
           TurnProofs!Cardinality
<1>7. \A a, b, c : Turn!CardOf(a, b, c) = TurnProofs!CardOf(a, b, c)
    BY <1>6 DEF Turn!CardOf, TurnProofs!CardOf, Turn!HasVariants,
       TurnProofs!HasVariants, Turn!VariantCard, TurnProofs!VariantCard,
       Turn!StandardCard, TurnProofs!StandardCard, Turn!IsAvailable,
       TurnProofs!IsAvailable, Turn!Available, TurnProofs!Available
<1>8. \A a : Turn!HasCard(a) = TurnProofs!HasCard(a)
    BY DEF Turn!HasCard, TurnProofs!HasCard, Turn!HasVariants, TurnProofs!HasVariants,
           Turn!Active, TurnProofs!Active, Turn!Hidden, TurnProofs!Hidden
<1>9. \A a, b, c : Turn!SearchCards(a, b, c) = TurnProofs!SearchCards(a, b, c)
    BY <1>1, <1>7, <1>8 DEF Turn!SearchCards, TurnProofs!SearchCards
<1>10. \A a, b : Turn!DetailCards(a, b) = TurnProofs!DetailCards(a, b)
    BY <1>1 DEF Turn!DetailCards, TurnProofs!DetailCards, Turn!Active,
       TurnProofs!Active, Turn!HasVariants, TurnProofs!HasVariants, Turn!VariantCard,
       TurnProofs!VariantCard, Turn!StandardCard, TurnProofs!StandardCard, Turn!Hidden,
       TurnProofs!Hidden, Turn!IsAvailable, TurnProofs!IsAvailable, Turn!Available,
       TurnProofs!Available
<1>11. \A a, b : Turn!WithExternalId(a, b) = TurnProofs!WithExternalId(a, b)
    BY DEF Turn!WithExternalId, TurnProofs!WithExternalId, Turn!Hidden,
           TurnProofs!Hidden, Turn!Carries, TurnProofs!Carries, Turn!ToSet,
           TurnProofs!ToSet
<1>12. \A a, b : Turn!FindsById(a, b) = TurnProofs!FindsById(a, b)
    BY <1>4, <1>11 DEF Turn!FindsById, TurnProofs!FindsById
<1>13. \A a, b, c : Turn!SearchResult(a, b, c) = TurnProofs!SearchResult(a, b, c)
    BY <1>2, <1>3, <1>9 DEF Turn!SearchResult, TurnProofs!SearchResult
<1>14. \A a, b : Turn!DetailsByHit(a, b) = TurnProofs!DetailsByHit(a, b)
    BY <1>2, <1>10 DEF Turn!DetailsByHit, TurnProofs!DetailsByHit, Turn!NoResults,
       TurnProofs!NoResults
<1>15. \A a, b : Turn!DetailsById(a, b) = TurnProofs!DetailsById(a, b)
    BY <1>2, <1>10, <1>11 DEF Turn!DetailsById, TurnProofs!DetailsById
<1>16. \A a : Turn!Categories(a) = TurnProofs!Categories(a)
    BY DEF Turn!Categories, TurnProofs!Categories, Turn!DistinctCategories,
           TurnProofs!DistinctCategories, Turn!Hidden, TurnProofs!Hidden, Turn!Nothing,
           TurnProofs!Nothing
<1>17. \A a, b, c : Turn!Hits(a, b, c) = TurnProofs!Hits(a, b, c)
    BY DEF Turn!Hits, TurnProofs!Hits, Turn!Allows, TurnProofs!Allows, Turn!SetToSeqs,
           TurnProofs!SetToSeqs, Turn!Hidden, TurnProofs!Hidden, Turn!Nothing,
           TurnProofs!Nothing, Turn!NoMaximum, TurnProofs!NoMaximum, Turn!Cardinality,
           TurnProofs!Cardinality
<1> QED BY <1>2, <1>4, <1>5, <1>10, <1>12, <1>13, <1>14, <1>15, <1>16, <1>17, <1>3, <1>1

(* And so is the catalogue that they look at.                              *)
LEMMA SameCatalogue ==
    /\ \A doc : Turn!IndexEntry(doc) = TurnProofs!IndexEntry(doc)
    /\ \A p : Turn!UpToDate(p) = TurnProofs!UpToDate(p)
    /\ \A p, doc : Turn!WriteDocument(p, doc) = TurnProofs!WriteDocument(p, doc)
    /\ \A p, doc : Turn!WriteEntry(p, doc) = TurnProofs!WriteEntry(p, doc)
    /\ \A s : Turn!ToSet(s) = TurnProofs!ToSet(s)
<1>1. \A doc : Turn!IndexEntry(doc) = TurnProofs!IndexEntry(doc)
    BY DEF Turn!IndexEntry, TurnProofs!IndexEntry, Turn!MinPrice, TurnProofs!MinPrice,
           Turn!Active, TurnProofs!Active, Turn!HasVariants, TurnProofs!HasVariants,
           Turn!NoMinimum, TurnProofs!NoMinimum, Turn!Min, TurnProofs!Min, Turn!Hidden,
           TurnProofs!Hidden
<1>2. \A p : Turn!UpToDate(p) = TurnProofs!UpToDate(p)
    BY <1>1 DEF Turn!UpToDate, TurnProofs!UpToDate
<1>3. \A p, doc : Turn!WriteDocument(p, doc) = TurnProofs!WriteDocument(p, doc)
    BY DEF Turn!WriteDocument, TurnProofs!WriteDocument
<1>4. \A p, doc : Turn!WriteEntry(p, doc) = TurnProofs!WriteEntry(p, doc)
    BY <1>1 DEF Turn!WriteEntry, TurnProofs!WriteEntry
<1>5. \A s : Turn!ToSet(s) = TurnProofs!ToSet(s)
    BY DEF Turn!ToSet, TurnProofs!ToSet
<1> QED BY <1>1, <1>2, <1>3, <1>4, <1>5

(* And the ids in it.                                                      *)
LEMMA SameIds == Turn!Ids = TurnProofs!Ids
<1>1. \A p : Turn!Versions(p) = TurnProofs!Versions(p)
    BY DEF Turn!Versions, TurnProofs!Versions
<1> QED BY <1>1, SameCatalogue DEF Turn!Ids, TurnProofs!Ids

(* And their steps are its steps.                                          *)
LEMMA TurnStep == [ChatNext]_chatVars => [TurnProofs!Next]_(TurnProofs!vars)
<1>1. \A a, b : Turn!PromptHistory(a, b) = TurnProofs!PromptHistory(a, b)
    BY DEF Turn!PromptHistory, TurnProofs!PromptHistory, Turn!SelectInSeq,
           TurnProofs!SelectInSeq, Turn!IsUser, TurnProofs!IsUser, Turn!Min,
           TurnProofs!Min
<1>2. \A a, b : Turn!ParseGeminiResponse(a, b) = TurnProofs!ParseGeminiResponse(a, b)
    BY DEF Turn!ParseGeminiResponse, TurnProofs!ParseGeminiResponse, Turn!Ascending,
           TurnProofs!Ascending, Turn!ToSet, TurnProofs!ToSet, Turn!Cardinality,
           TurnProofs!Cardinality
<1>3. \A a : Turn!DeduplicateCards(a) = TurnProofs!DeduplicateCards(a)
    BY SameTools DEF Turn!DeduplicateCards, TurnProofs!DeduplicateCards, Turn!Max,
       TurnProofs!Max, Turn!Min, TurnProofs!Min
<1>4. \A a, b : Turn!BuildResponse(a, b) = TurnProofs!BuildResponse(a, b)
    BY SameTools, <1>3, SameIds DEF Turn!BuildResponse, TurnProofs!BuildResponse
<1>5. \A a, b : Turn!Done(a, b) = TurnProofs!Done(a, b)
    BY DEF Turn!Done, TurnProofs!Done, Turn!Executing, TurnProofs!Executing
<1>6. Turn!StartTurn = TurnProofs!StartTurn
    BY <1>1 DEF Turn!StartTurn, TurnProofs!StartTurn, Turn!Room, TurnProofs!Room,
       Turn!data, TurnProofs!data, Turn!User, TurnProofs!User,
       Turn!ToSet, TurnProofs!ToSet, Turn!NoReply, TurnProofs!NoReply, Turn!Message,
       TurnProofs!Message, Turn!NoCall, TurnProofs!NoCall
<1>7. Turn!GenerationFails = TurnProofs!GenerationFails
    BY DEF Turn!GenerationFails, TurnProofs!GenerationFails, Turn!NoReply,
           TurnProofs!NoReply, Turn!data, TurnProofs!data
<1>8. Turn!Answer = TurnProofs!Answer
    BY <1>4, SameIds DEF Turn!Answer, TurnProofs!Answer, Turn!Finish, TurnProofs!Finish,
       Turn!Words, TurnProofs!Words, Turn!data, TurnProofs!data, Turn!Assistant,
       TurnProofs!Assistant, Turn!CleanText, TurnProofs!CleanText, Turn!Message,
       TurnProofs!Message, Turn!NoCall, TurnProofs!NoCall
<1>9. Turn!RequestTools = TurnProofs!RequestTools
    BY SameTools, <1>2 DEF Turn!RequestTools, TurnProofs!RequestTools, Turn!ToolRequest,
       TurnProofs!ToolRequest, Turn!Executing, TurnProofs!Executing, Turn!NoResults,
       TurnProofs!NoResults, Turn!data, TurnProofs!data, Turn!Message,
       TurnProofs!Message, Turn!NoCall, TurnProofs!NoCall
<1>10. \A a : Turn!Refuse(a) = TurnProofs!Refuse(a)
    BY SameTools, <1>5 DEF Turn!Refuse, TurnProofs!Refuse, Turn!Reading,
       TurnProofs!Reading, Turn!NameOf, TurnProofs!NameOf, Turn!ArgsOf,
       TurnProofs!ArgsOf, Turn!ModelError, TurnProofs!ModelError
<1>11. \A a : Turn!ReadIndex(a) = TurnProofs!ReadIndex(a)
    <2>1. \A hits : {q \in Turn!ToSet(hits) : Turn!UpToDate(q)} =
                        {q \in TurnProofs!ToSet(hits) : TurnProofs!UpToDate(q)}
        BY SameCatalogue
    <2> QED BY <2>1, SameTools, <1>5 DEF Turn!ReadIndex, TurnProofs!ReadIndex, Turn!NameOf,
            TurnProofs!NameOf, Turn!ArgsOf, TurnProofs!ArgsOf, Turn!NoResults,
            TurnProofs!NoResults, Turn!Executing, TurnProofs!Executing, Turn!Reading,
            TurnProofs!Reading, Turn!Cardinality, TurnProofs!Cardinality, Turn!Filters,
            TurnProofs!Filters, Turn!Nothing, TurnProofs!Nothing, Turn!NoMaximum,
            TurnProofs!NoMaximum
<1>12. \A a : Turn!ReadDocuments(a) = TurnProofs!ReadDocuments(a)
    BY SameTools, <1>5 DEF Turn!ReadDocuments, TurnProofs!ReadDocuments, Turn!NameOf,
       TurnProofs!NameOf, Turn!ArgsOf, TurnProofs!ArgsOf, Turn!NoResults,
       TurnProofs!NoResults, Turn!Policies, TurnProofs!Policies
<1>13. \A a : Turn!ExecutionFails(a) = TurnProofs!ExecutionFails(a)
    BY SameTools, <1>5 DEF Turn!ExecutionFails, TurnProofs!ExecutionFails, Turn!NameOf,
       TurnProofs!NameOf, Turn!ArgsOf, TurnProofs!ArgsOf, Turn!ModelError,
       TurnProofs!ModelError
<1>14. Turn!CollectResults = TurnProofs!CollectResults
    BY <1>4, SameIds DEF Turn!CollectResults, TurnProofs!CollectResults, Turn!LastRound,
       TurnProofs!LastRound, Turn!Finish, TurnProofs!Finish, Turn!Words,
       TurnProofs!Words, Turn!ToolResults, TurnProofs!ToolResults, Turn!data,
       TurnProofs!data, Turn!Assistant, TurnProofs!Assistant, Turn!CleanText,
       TurnProofs!CleanText, Turn!ToolResult, TurnProofs!ToolResult, Turn!Message,
       TurnProofs!Message, Turn!NoCall, TurnProofs!NoCall
<1>15. /\ Turn!UpsertProduct = TurnProofs!UpsertProduct
       /\ Turn!FinishUpsert = TurnProofs!FinishUpsert
       /\ Turn!HideProduct = TurnProofs!HideProduct
    <2>1. Turn!Change = TurnProofs!Change
        BY DEF Turn!Change, TurnProofs!Change, Turn!Room, TurnProofs!Room
    <2> QED BY <2>1, SameCatalogue DEF Turn!UpsertProduct, TurnProofs!UpsertProduct,
            Turn!FinishUpsert, TurnProofs!FinishUpsert, Turn!HideProduct,
            TurnProofs!HideProduct, Turn!Owed, TurnProofs!Owed, Turn!Hidden,
            TurnProofs!Hidden, Turn!turnVars, TurnProofs!turnVars
<1>16. Turn!Execute = TurnProofs!Execute
    BY <1>10, <1>11, <1>12, <1>13 DEF Turn!Execute, TurnProofs!Execute, Turn!data,
       TurnProofs!data
<1>17. Turn!Next = TurnProofs!Next
    BY <1>6, <1>7, <1>8, <1>9, <1>16, <1>14, <1>15 DEF Turn!Next, TurnProofs!Next
<1>18. UNCHANGED promptVars => UNCHANGED TurnProofs!vars
    BY DEF TurnProofs!vars, promptVars
<1> QED BY <1>17, <1>18
        DEF ChatNext, MemoryNext, TurnNext, SettingsNext, ArchiveNext, PagesNext, chatVars

(* So the turns in the run are turns.                                      *)
LEMMA TurnInRun == ChatSpec => TurnProofs!Spec
BY TurnStart, TurnStep, PTL DEF ChatSpec, TurnProofs!Spec

(* A search in the run shows what was asked for                            *)
(* (products-chat.service.ts).                                             *)
THEOREM SearchesKeepTheirPromiseInRun == ChatSpec => SearchKeepsPromise
<1>1. TurnProofs!Spec => TurnProofs!SearchKeepsPromise
    BY TurnIsSound, TurnProofs!SearchesKeepTheirPromise
<1>2. \A card, documents, f :
        Turn!KeepsPromise(card, documents, f) = TurnProofs!KeepsPromise(card, documents, f)
    BY DEF Turn!KeepsPromise, TurnProofs!KeepsPromise, Turn!NoMaximum,
           TurnProofs!NoMaximum, Turn!Hidden, TurnProofs!Hidden, Turn!Nothing,
           TurnProofs!Nothing, Turn!HasVariants, TurnProofs!HasVariants,
           Turn!IsAvailable, TurnProofs!IsAvailable, Turn!Available,
           TurnProofs!Available, Turn!ToSet, TurnProofs!ToSet
<1> DEFINE Here ==
        \A i \in DOMAIN progress :
          (/\ Turn!NameOf(i) = "search_products" /\ progress[i].at # "done"
           /\ i \in DOMAIN progress' /\ progress'[i].at = "done") =>
              \A card \in Turn!ToSet(progress'[i].result.cards) :
                  /\ card \in Turn!ToSet(Turn!DetailCards(card.product, docs[card.product]))
                  /\ <<i, card.product>> \in steady =>
                         Turn!KeepsPromise(card, docs, Turn!SearchFilters(Turn!ArgsOf(i)))
           There ==
        \A i \in DOMAIN progress :
          (/\ TurnProofs!NameOf(i) = "search_products" /\ progress[i].at # "done"
           /\ i \in DOMAIN progress' /\ progress'[i].at = "done") =>
              \A card \in TurnProofs!ToSet(progress'[i].result.cards) :
                  /\ card \in TurnProofs!ToSet(TurnProofs!DetailCards(card.product,
                                                                    docs[card.product]))
                  /\ <<i, card.product>> \in steady =>
                         TurnProofs!KeepsPromise(card, docs,
                             TurnProofs!SearchFilters(TurnProofs!ArgsOf(i)))
<1>3. Here = There
    BY <1>2, SameTools, SameCatalogue DEF Turn!NameOf, TurnProofs!NameOf, Turn!ArgsOf,
       TurnProofs!ArgsOf
<1>4. UNCHANGED TurnProofs!vars => UNCHANGED Turn!vars
    BY DEF Turn!vars, TurnProofs!vars
<1> HIDE DEF Here, There
<1>5. [There]_(TurnProofs!vars) => [Here]_(Turn!vars)
    BY <1>3, <1>4
<1> QED BY <1>1, <1>5, TurnInRun, PTL DEF Here, There,
        SearchKeepsPromise, Turn!SearchKeepsPromise, TurnProofs!SearchKeepsPromise

(* A reply in the run shows the cards it has a tag for, each of them once  *)
(* (chat-response.builder.ts).                                             *)
THEOREM TaggedCardsAreShownOnceInRun == ChatSpec => TaggedAreShownOnce
<1>1. TurnProofs!Spec => TurnProofs!TaggedAreShownOnce
    BY TurnIsSound, TurnProofs!TaggedCardsAreShownOnce
<1>2. [reply'.status = "answered" /\ stage' # stage =>
        LET tagged == reply'.tagged \cap {c.id : c \in TurnProofs!ToSet(found)} IN
        /\ {c.id : c \in TurnProofs!ToSet(reply'.cards)} = tagged
        /\ Len(reply'.cards) = TurnProofs!Cardinality(tagged)]_(TurnProofs!vars)
      => [reply'.status = "answered" /\ stage' # stage =>
        LET tagged == reply'.tagged \cap {c.id : c \in Turn!ToSet(found)} IN
        /\ {c.id : c \in Turn!ToSet(reply'.cards)} = tagged
        /\ Len(reply'.cards) = Turn!Cardinality(tagged)]_(Turn!vars)
    BY DEF Turn!ToSet, TurnProofs!ToSet, Turn!Cardinality, TurnProofs!Cardinality,
       Turn!vars, TurnProofs!vars, Turn!data, TurnProofs!data, Turn!turnVars, TurnProofs!turnVars
<1> QED BY <1>1, <1>2, TurnInRun, PTL
        DEF TaggedAreShownOnce, Turn!TaggedAreShownOnce, TurnProofs!TaggedAreShownOnce

(* The prompts of the run are those that ChatTurnProofs is about.          *)
LEMMA SamePrompts == Turn!PromptsAreSound = TurnProofs!PromptsAreSound
<1>1. \A a : Turn!Sanitized(a) = TurnProofs!Sanitized(a)
    BY SameTools DEF Turn!Sanitized, TurnProofs!Sanitized, Turn!SelectLastInSeq,
       TurnProofs!SelectLastInSeq, Turn!IsUser, TurnProofs!IsUser, Turn!RequestsTools,
       TurnProofs!RequestsTools, Turn!Assistant, TurnProofs!Assistant, Turn!Max,
       TurnProofs!Max, Turn!Message, TurnProofs!Message, Turn!NoCall, TurnProofs!NoCall
<1>2. \A a, b : Turn!Sharing(a, b) = TurnProofs!Sharing(a, b)
    BY DEF Turn!Sharing, TurnProofs!Sharing, Turn!Cardinality, TurnProofs!Cardinality,
           Turn!Continues, TurnProofs!Continues
<1>3. \A a, b : Turn!ContentOf(a, b) = TurnProofs!ContentOf(a, b)
    BY <1>2 DEF Turn!ContentOf, TurnProofs!ContentOf, Turn!Content, TurnProofs!Content,
       Turn!ResponsePart, TurnProofs!ResponsePart, Turn!RequestsTools,
       TurnProofs!RequestsTools, Turn!RequestParts, TurnProofs!RequestParts,
       Turn!IsUser, TurnProofs!IsUser, Turn!TextPart, TurnProofs!TextPart,
       Turn!CallPart, TurnProofs!CallPart, Turn!NoCall, TurnProofs!NoCall
<1>4. \A a : Turn!ToGeminiContents(a) = TurnProofs!ToGeminiContents(a)
    <2> SUFFICES ASSUME NEW a
                 PROVE  Turn!ToGeminiContents(a) = TurnProofs!ToGeminiContents(a)
        OBVIOUS
    <2> DEFINE heard == {i \in DOMAIN a : a[i].role # "system"}
               Begins(s) == Turn!Ascending({i \in DOMAIN s : ~Turn!Continues(s, i)})
               Starts(s) == TurnProofs!Ascending({i \in DOMAIN s : ~TurnProofs!Continues(s, i)})
               Sends(s) == [k \in DOMAIN Begins(s) |-> Turn!ContentOf(s, Begins(s)[k])]
               Posts(s) == [k \in DOMAIN Starts(s) |-> TurnProofs!ContentOf(s, Starts(s)[k])]
    <2>1. Turn!ToGeminiContents(a) = Sends(Turn!Sanitized(Turn!Select(a, heard)))
        BY DEF Turn!ToGeminiContents
    <2>2. TurnProofs!ToGeminiContents(a) = Posts(TurnProofs!Sanitized(TurnProofs!Select(a, heard)))
        BY DEF TurnProofs!ToGeminiContents
    <2>3. \A s : Begins(s) = Starts(s)
        BY DEF Turn!Ascending, TurnProofs!Ascending, Turn!Continues, TurnProofs!Continues,
               Turn!Cardinality, TurnProofs!Cardinality
    <2> HIDE DEF Begins, Starts
    <2>4. \A s : Sends(s) = Posts(s)
        BY <1>3, <2>3
    <2> HIDE DEF Sends, Posts, heard
    <2>5. Turn!Sanitized(Turn!Select(a, heard)) = TurnProofs!Sanitized(TurnProofs!Select(a, heard))
        BY SameTools, <1>1
    <2> QED BY <2>1, <2>2, <2>4, <2>5
<1>5. \A a, b : Turn!IdsOf(a, b) = TurnProofs!IdsOf(a, b)
    BY SameTools DEF Turn!IdsOf, TurnProofs!IdsOf
<1>6. \A a : Turn!WellFormed(a) = TurnProofs!WellFormed(a)
    <2>1. \A ids : Turn!Cardinality(Turn!ToSet(ids)) = TurnProofs!Cardinality(TurnProofs!ToSet(ids))
        BY DEF Turn!Cardinality, TurnProofs!Cardinality, Turn!ToSet, TurnProofs!ToSet
    <2> QED BY <1>5, <2>1 DEF Turn!WellFormed, TurnProofs!WellFormed
<1>7. \A a : Turn!Mentions(a) = TurnProofs!Mentions(a)
    BY DEF Turn!Mentions, TurnProofs!Mentions, Turn!ToSet, TurnProofs!ToSet
<1>8. Turn!RequestsWellFormed = TurnProofs!RequestsWellFormed
    BY <1>4, <1>6 DEF Turn!RequestsWellFormed, TurnProofs!RequestsWellFormed
<1>9. Turn!LastTurnReplayed = TurnProofs!LastTurnReplayed
    BY <1>4, <1>7 DEF Turn!LastTurnReplayed, TurnProofs!LastTurnReplayed,
       Turn!SelectLastInSeq, TurnProofs!SelectLastInSeq, Turn!IsUser, TurnProofs!IsUser,
       Turn!Max, TurnProofs!Max
<1>10. Turn!DeclaredCallsAccepted = TurnProofs!DeclaredCallsAccepted
    BY SameTools DEF Turn!DeclaredCallsAccepted, TurnProofs!DeclaredCallsAccepted,
       Turn!NameOf, TurnProofs!NameOf, Turn!ToolNames, TurnProofs!ToolNames,
       Turn!ToGeminiTool, TurnProofs!ToGeminiTool, Turn!ArgsOf, TurnProofs!ArgsOf,
       Turn!ToolParameters, TurnProofs!ToolParameters, Turn!GeminiType,
       TurnProofs!GeminiType, Turn!Required, TurnProofs!Required
<1>11. Turn!PromptsAreSound = TurnProofs!PromptsAreSound
    BY <1>8, <1>9, <1>10 DEF Turn!PromptsAreSound, TurnProofs!PromptsAreSound
<1> QED BY <1>11

(* What is sent to Gemini in the run is what it accepts                    *)
(* (gemini-content.mapper.ts, conversation-context.service.ts,             *)
(* tool-executor.ts).                                                      *)
THEOREM PromptsAreAcceptedInRun == ChatSpec => []PromptsAreSound
<1>1. TurnProofs!Spec => []TurnProofs!PromptsAreSound
    BY TurnIsSound, TurnProofs!PromptsAreAccepted
<1>2. TurnProofs!PromptsAreSound => PromptsAreSound
    BY SamePrompts DEF PromptsAreSound
<1> QED BY <1>1, <1>2, TurnInRun, PTL

(* What the parts are proved to have as types, they have in the run.       *)
LEMMA SameTypes ==
    /\ Turn!ChatTypeOK = TurnProofs!ChatTypeOK
    /\ Archive!ArchiveTypeOK = ArchiveProofs!ArchiveTypeOK
    /\ Pages!DashboardTypeOK = PagesProofs!DashboardTypeOK
<1>1. Turn!ChatTypeOK = TurnProofs!ChatTypeOK
    BY SameIds, SameCatalogue DEF Turn!ChatTypeOK, TurnProofs!ChatTypeOK
<1>2. Archive!ArchiveTypeOK = ArchiveProofs!ArchiveTypeOK
    BY DEF Archive!ArchiveTypeOK, ArchiveProofs!ArchiveTypeOK, Archive!SafeLimit,
           ArchiveProofs!SafeLimit, Archive!Least, ArchiveProofs!Least
<1>3. Pages!DashboardTypeOK = PagesProofs!DashboardTypeOK
    BY DEF Pages!DashboardTypeOK, PagesProofs!DashboardTypeOK, Pages!Seeding,
           PagesProofs!Seeding, Pages!NoSubscription, PagesProofs!NoSubscription,
           Pages!Statuses, PagesProofs!Statuses, Pages!PlanIds, PagesProofs!PlanIds,
           Pages!Lookups, PagesProofs!Lookups
<1> QED BY <1>1, <1>2, <1>3

(* Every variable keeps its type in the run, for any number of requests    *)
(* for the settings, of updates and of errors.                             *)
THEOREM TypesInRun ==
    ASSUME SettingsSound, TTL \in Nat \ {0}
    PROVE  ChatSpec => []MCTypeOK
<1>1. ChatSpec => []ConversationTypeOK
    <2>1. MemoryInv /\ ReadingShape /\ ConversationTypeInv /\ [ChatNext]_chatVars
              => ConversationTypeInv'
        BY MemoryIsAConversation, ConversationTypeStep
    <2>2. ChatInit => MemoryInv /\ ReadingShape /\ ReadingInv /\ ConversationTypeInv
        BY MemoryIsAConversation, MemoryStart, ReadingStart, ConversationTypeStart
    <2>3. MemoryInv /\ ReadingShape /\ ReadingInv /\ [ChatNext]_chatVars
              => MemoryInv' /\ ReadingShape' /\ ReadingInv'
        BY MemoryIsAConversation, MemoryStep, ReadingStep
    <2> QED BY <2>1, <2>2, <2>3, ConversationTypesHold, PTL DEF ChatSpec
<1>2. ChatSpec => []Settings!SettingsTypeOK
    <2>1. ChatInit => SettingsTypeInv
        BY SettingsInRun, SettingsTypeInit
    <2>2. SettingsTypeInv /\ [ChatNext]_chatVars => SettingsTypeInv'
        BY SettingsInRun, SettingsTypeStep
    <2>3. SettingsTypeInv => Settings!SettingsTypeOK
        BY SettingsTypesHold
    <2> QED BY <2>1, <2>2, <2>3, PTL DEF ChatSpec
<1>3. ChatSpec => []TurnProofs!ChatTypeOK
    <2>1. TurnProofs!Spec => []TurnProofs!ChatTypeOK
        BY TurnIsSound, TurnProofs!ChatTypes
    <2> QED BY <2>1, TurnInRun, PTL
<1>4. ChatSpec => []ArchiveProofs!ArchiveTypeOK
    <2>1. ArchiveProofs!Spec => []ArchiveProofs!ArchiveTypeOK
        BY ArchiveOfTheRun, ArchiveProofs!ArchiveTypes
    <2> QED BY <2>1, ArchiveInRun, PTL
<1>5. ChatSpec => []PagesProofs!DashboardTypeOK
    <2>1. PagesProofs!Spec => []PagesProofs!DashboardTypeOK
        BY PlansOfTheRun, PagesProofs!DashboardTypes
    <2> QED BY <2>1, PagesInRun, PTL
<1>6. /\ ConversationTypeOK /\ Settings!SettingsTypeOK /\ TurnProofs!ChatTypeOK
      /\ ArchiveProofs!ArchiveTypeOK /\ PagesProofs!DashboardTypeOK
      => MCTypeOK
    BY SameTypes DEF MCTypeOK
<1> QED BY <1>1, <1>2, <1>3, <1>4, <1>5, <1>6, PTL
===============================================================================
