----------------------------- MODULE Conversation -----------------------------
(***************************************************************************)
(* One conversation in Redis: the list of its messages, the summary of the *)
(* first of them and how many these are, each under a key of its own with  *)
(* a time to live (conversation-store.ts); the turns that read and append  *)
(* (chat.service.ts); and the jobs that keep the summary up to date        *)
(* (chat-summary.consumer.ts, conversation-summarizer.ts).                 *)
(*                                                                         *)
(* What the customer says in turn t is t and the answer is -t; a summary   *)
(* is the set of what it tells: what Gemini leaves out of one is its own   *)
(* affair.  Time is counted in ticks, TTL of them to a session.  Delivery  *)
(* of the jobs is MessageHandler's: here a job may be taken at any time,   *)
(* by several callbacks at once, and when it fails it comes back or is     *)
(* dead-lettered.                                                          *)
(***************************************************************************)
EXTENDS PromptContents

CONSTANTS
    SUMMARY_MESSAGE_INTERVAL,
    HISTORY_TAIL_CEILING,
    Sizes,        \* how many messages a turn may keep: 2, or 4 with a tool call
    TTL,
    MaxRunning,   \* bound: turns, and jobs, that are under way at a time
    MaxTurns,     \* bound: turns begun in a behaviour
    MaxTicks,     \* bound: ticks in a behaviour
    MaxFailures   \* bound: failing calls to Redis, RabbitMQ and Gemini

ASSUME ConversationAssumption ==
    /\ SUMMARY_MESSAGE_INTERVAL \in Nat \ {0}
    /\ HISTORY_TAIL_CEILING \in Nat

VARIABLES
    list, count, summary,                 \* what the keys hold
    listTtl, countTtl, summaryTtl,        \* ticks left; at 0 there is no key
    appended,                             \* the turns that have not triggered yet: their totals
    jobs,                                 \* the queue: a set of totals
    running,                              \* the jobs being done, by their totals
    reading,                              \* what a turn has read so far: any turn, one at most
    said,                                 \* ghost: what was said in this session
    lost,                                 \* ghost: the totals whose jobs nobody will do
    turns, ticks, failures,               \* for the bounds
    met                                   \* ghost: what may cost the assistant its memory

keys == <<list, count, summary, listTtl, countTtl, summaryTtl>>
turnVars == <<appended, reading, said, turns>>
vars == <<list, count, summary, listTtl, countTtl, summaryTtl, appended, jobs, running,
          reading, said, lost, turns, ticks, failures, met>>

Minimum(m, n) == IF m < n THEN m ELSE n
TextsOf(messages) == UNION {m.text : m \in ToSet(messages)}

(* The messages a turn keeps, with one call and its result if there are 4. *)
MessagesOf(t, size) ==
    CASE size = 2 -> <<User({t}), Assistant({-t})>>
      [] OTHER -> <<User({t}), ToolRequest({}, <<[id |-> t]>>), ToolResult({}, t), Assistant({-t})>>

Init ==
    /\ list = <<>> /\ count = 0 /\ summary = {}
    /\ listTtl = 0 /\ countTtl = 0 /\ summaryTtl = 0
    /\ appended = {} /\ jobs = {} /\ running = <<>>
    /\ reading = [at |-> "none", list |-> <<>>, said |-> {},
                   summary |-> {}, covers |-> 0, count |-> 0]
    /\ said = {} /\ lost = {} /\ turns = 0 /\ ticks = 0 /\ failures = 0 /\ met = {}

Fails == failures < MaxFailures /\ failures' = failures + 1

-------------------------------------------------------------------------------
(* A turn: read, generate, append, trigger the summary.  The three reads   *)
(* change nothing, so that it is enough to follow those of one turn, which *)
(* may be any; a GET that fails is logged and counts as a key that is not  *)
(* there, an LRANGE that fails ends the turn.                              *)

Written == \A n \in DOMAIN running : running[n].at # "summary"

ReadHistory ==
    /\ reading.at = "none"
    /\ reading' = [reading EXCEPT !.at = "summary", !.list = list, !.said = said]
    /\ UNCHANGED <<keys, appended, jobs, running, said, lost, turns, ticks, failures, met>>

(* Ghost: reading.covers is the count that goes with the summary that is   *)
(* read, if there is one.                                                  *)
ReadSummary ==
    /\ reading.at = "summary"
    /\ \/ /\ reading' = [reading EXCEPT !.at = "count", !.summary = summary,
                                          !.covers = IF Written THEN count ELSE 0]
          /\ UNCHANGED failures
       \/ Fails /\ reading' = [reading EXCEPT !.at = "count"]
    /\ UNCHANGED <<keys, appended, jobs, running, said, lost, turns, ticks, met>>

ReadLastSummarizedCount ==
    /\ reading.at = "count"
    /\ \/ reading' = [reading EXCEPT !.at = "told", !.count = count] /\ UNCHANGED failures
       \/ Fails /\ reading' = [reading EXCEPT !.at = "told"]
    /\ UNCHANGED <<keys, appended, jobs, running, said, lost, turns, ticks, met>>

(* Mutant: one message too many is left out.                               *)
UnsummarizedAfterNext(messages, summarized) ==
    SubSeq(messages, Minimum(summarized, Len(messages)) + 2, Len(messages))

(* slice(min(lastSummarizedCount, length)).                                *)
Unsummarized(messages, summarized) ==
    SubSeq(messages, Minimum(summarized, Len(messages)) + 1, Len(messages))

TurnPrompt ==
    [history |-> PromptHistory(Unsummarized(reading.list, reading.count), HISTORY_TAIL_CEILING),
     summary |-> reading.summary]

Answered ==
    /\ turns < MaxTurns /\ turns' = turns + 1
    /\ said' = said \cup {turns + 1, -(turns + 1)}

Append_ ==
    /\ Cardinality(appended) < MaxRunning /\ Answered
    /\ \E size \in Sizes : list' = list \o MessagesOf(turns + 1, size)
    /\ appended' = appended \cup {Len(list')}
    /\ UNCHANGED <<count, summary, countTtl, summaryTtl, jobs, running, reading, lost, ticks,
                   failures, met>>

(* Mutant: the list gets no time to live.                                  *)
AppendWithoutExpire == Append_ /\ UNCHANGED listTtl

(* RPUSH and EXPIRE in one pipeline; RPUSH returns the length.             *)
AppendMessages == Append_ /\ listTtl' = TTL

(* The result of a pipeline holds the errors of its commands: a failed     *)
(* RPUSH counts as a list of length 0, no summary is due, and the customer *)
(* is answered.                                                            *)
AppendFails ==
    /\ Answered /\ Fails
    /\ met' = met \cup {"append failed"}
    /\ UNCHANGED <<keys, appended, jobs, running, reading, lost, ticks>>

(* Mutant: a summary is due after one message more.                        *)
DueLate(n, summarized) == n - summarized > SUMMARY_MESSAGE_INTERVAL

Due(n, summarized) == n - summarized >= SUMMARY_MESSAGE_INTERVAL

(* checkAndTriggerSummary, with the count of now, or 0 if it cannot be     *)
(* read.  Nobody waits for it: a job is lost that cannot be published, or  *)
(* whose process stops before.                                             *)
TriggerSummary(n) ==
    /\ n \in appended /\ appended' = appended \ {n}
    /\ \/ /\ jobs' = IF Due(n, count) THEN jobs \cup {n} ELSE jobs
          /\ UNCHANGED <<failures, lost>>
       \/ Fails /\ Due(n, 0) /\ jobs' = jobs \cup {n} /\ UNCHANGED lost
       \/ Fails /\ Due(n, count) /\ lost' = lost \cup {n} /\ UNCHANGED jobs
    /\ UNCHANGED <<keys, running, reading, said, turns, ticks, met>>

-------------------------------------------------------------------------------
(* A summary job, for the first n messages.                                *)

Begin(n, job) == [k \in DOMAIN running \cup {n} |-> IF k = n THEN job ELSE running[k]]
Finish(n) == running' = Restrict(running, DOMAIN running \ {n})
At(n, step) == n \in DOMAIN running /\ running[n].at = step

(* The two GETs of a job.                                                  *)
TakeJob(n) ==
    /\ n \in jobs \ DOMAIN running /\ Cardinality(DOMAIN running) < MaxRunning
    /\ jobs' = jobs \ {n}
    /\ \E got \in {summary, {}} :
         /\ running' = Begin(n, [at |-> "taken", summary |-> got, count |-> 0, texts |-> {}])
         /\ \/ got = summary /\ UNCHANGED <<failures, met>>
            \/ got = {} /\ Fails /\ met' = met \cup {"summary lost"}
    /\ UNCHANGED <<keys, turnVars, lost, ticks>>

(* A job whose messages the summary already tells of is done.              *)
CheckCount(n) ==
    /\ At(n, "taken")
    /\ \E got \in {count, 0} :
         /\ IF n <= got THEN Finish(n)
            ELSE running' = Begin(n, [at |-> "messages", summary |-> running[n].summary,
                                      count |-> got, texts |-> {}])
         /\ \/ got = count /\ UNCHANGED failures
            \/ got = 0 /\ Fails
    /\ UNCHANGED <<keys, turnVars, jobs, lost, ticks, met>>

(* Mutant: the last message of the range is left out.                      *)
RangeButLast(messages, start, n) == SubSeq(messages, start + 1, Minimum(n, Len(messages)) - 1)

(* LRANGE start..n-1.                                                      *)
Range_(messages, start, n) == SubSeq(messages, start + 1, Minimum(n, Len(messages)))

(* What the summarizer is shown: customers and answers, no calls and no    *)
(* results.                                                                *)
HumanConversation(messages) ==
    UNION {m.text : m \in {x \in ToSet(messages) : x.role # "tool" /\ ~RequestsTools(x)}}

Summarize(n) ==
    /\ At(n, "messages")
    /\ LET messages == Range_(list, running[n].count, n) IN
         IF messages = <<>> THEN Finish(n)
         ELSE running' = [running EXCEPT ![n].at = "count",
                                         ![n].texts = HumanConversation(messages)]
    /\ UNCHANGED <<keys, turnVars, jobs, lost, ticks, failures, met>>

(* Gemini answers without a text: the summary stays as it was, and its     *)
(* messages count as summarized.                                           *)
EmptySummary(n) ==
    /\ At(n, "messages") /\ Fails
    /\ running' = [running EXCEPT ![n].at = "count"]
    /\ met' = met \cup {"summary lost"}
    /\ UNCHANGED <<keys, turnVars, jobs, lost, ticks>>

(* The LRANGE fails, Gemini does, or the process stops at any step: the    *)
(* job is tried again, until it has no attempt left.                       *)
JobFails(n) ==
    /\ n \in DOMAIN running /\ Fails
    /\ \/ jobs' = jobs \cup {n} /\ UNCHANGED lost
       \/ lost' = lost \cup {n} /\ UNCHANGED jobs
    /\ met' = met \cup (IF At(n, "summary") THEN {"summary lost"} ELSE {})
    /\ Finish(n)
    /\ UNCHANGED <<keys, turnVars, ticks>>

(* What the job has read was written by another since, or is half written. *)
Overtaken(n) ==
    IF \/ count # running[n].count \/ summary # running[n].summary
       \/ \E k \in DOMAIN running \ {n} : At(k, "summary")
    THEN {"overtaken"} ELSE {}

(* The count is written before the summary, and both whatever has happened *)
(* since they were read.                                                   *)
SetLastSummarizedCount(n) ==
    /\ At(n, "count")
    /\ count' = n /\ countTtl' = TTL
    /\ running' = [running EXCEPT ![n].at = "summary"]
    /\ met' = met \cup Overtaken(n)
    /\ UNCHANGED <<list, summary, listTtl, summaryTtl, turnVars, jobs, lost, ticks, failures>>

(* A SET that fails is logged, and the job goes on.                        *)
SetFails(n) ==
    /\ Fails
    /\ \/ /\ At(n, "count")
          /\ running' = [running EXCEPT ![n].at = "summary"]
          /\ met' = met \cup {"count lost"} \cup Overtaken(n)
       \/ /\ At(n, "summary") /\ Finish(n)
          /\ met' = met \cup {"summary lost"}
    /\ UNCHANGED <<keys, turnVars, jobs, lost, ticks>>

SetSummary(n) ==
    /\ At(n, "summary")
    /\ LET new == running[n].summary \cup running[n].texts IN
         IF new = {} THEN UNCHANGED <<summary, summaryTtl>>
         ELSE summary' = new /\ summaryTtl' = TTL
    /\ Finish(n)
    /\ UNCHANGED <<list, count, listTtl, countTtl, turnVars, jobs, lost, ticks, failures, met>>

-------------------------------------------------------------------------------
(* Time passes, and each key is deleted when its own time is over.         *)

Left(n) == IF n > 0 THEN n - 1 ELSE 0

Pending == jobs # {} \/ running # <<>> \/ appended # {}

(* The count, or a job, outlives the messages it is about when they expire *)
(* first: the next session would start with a part of it taken as told.    *)
Tick ==
    /\ ticks < MaxTicks /\ ticks' = ticks + 1
    /\ listTtl' = Left(listTtl) /\ countTtl' = Left(countTtl) /\ summaryTtl' = Left(summaryTtl)
    /\ list' = IF listTtl' = 0 THEN <<>> ELSE list
    /\ count' = IF countTtl' = 0 THEN 0 ELSE count
    /\ summary' = IF summaryTtl' = 0 THEN {} ELSE summary
    /\ met' = met \cup (IF list # <<>> /\ list' = <<>> /\ (count' > 0 \/ Pending)
                        THEN {"outlived"} ELSE {})
                  \cup (IF <<count, summary>>' # <<count, summary>> /\ list' # <<>>
                        THEN {"expired"} ELSE {})
    /\ IF list' = <<>>
       THEN said' = {} /\ lost' = {} /\ reading' = [reading EXCEPT !.said = {}]
       ELSE UNCHANGED <<said, lost, reading>>
    /\ UNCHANGED <<appended, turns, jobs, running, failures>>

Consume(n) ==
    \/ TakeJob(n) \/ CheckCount(n) \/ Summarize(n) \/ EmptySummary(n) \/ JobFails(n)
    \/ SetLastSummarizedCount(n) \/ SetSummary(n) \/ SetFails(n)

Next ==
    \/ ReadHistory \/ ReadSummary \/ ReadLastSummarizedCount
    \/ AppendMessages \/ AppendFails
    \/ \E n \in appended : TriggerSummary(n)
    \/ \E n \in jobs \cup DOMAIN running : Consume(n)
    \/ Tick

Spec == Init /\ [][Next]_vars

-------------------------------------------------------------------------------
ConversationTypeOK ==
    /\ \A m \in ToSet(list) : m.text \subseteq -turns..turns
    /\ count \in Nat /\ summary \cup said \subseteq -turns..turns
    /\ {listTtl, countTtl, summaryTtl} \subseteq 0..TTL
    /\ (listTtl = 0) = (list = <<>>)
    /\ appended \cup jobs \cup DOMAIN running \subseteq Nat \ {0}
    /\ \A n \in DOMAIN running : running[n].at \in {"taken", "messages", "count", "summary"}
    /\ reading.at \in {"none", "summary", "count", "told"}
    /\ reading.summary \cup reading.said \subseteq -turns..turns

(* What the count says has been summarized is in the summary, once the job *)
(* has written both: as long as no job was overtaken by another, no key    *)
(* outlived the messages it is about or expired before them, and no job    *)
(* lost the summary to a command that failed or an answer without a text.  *)
SummaryCovers ==
    (/\ {"overtaken", "outlived", "expired", "summary lost"} \cap met = {}
     /\ Written)
        => TextsOf(SubSeq(list, 1, Minimum(count, Len(list)))) \subseteq summary

(* A turn is told everything that was said in the session when it read the *)
(* messages: in these or in the summary.  The exceptions: those of         *)
(* SummaryCovers, messages that were not stored, a session that ends while *)
(* the turn reads, a summary that is not the one its count goes with (a    *)
(* job stored the count in between, or the GET of the summary failed), and *)
(* a summary that is due and not done for so long that the messages exceed *)
(* HISTORY_TAIL_CEILING.                                                   *)
TurnIsTold ==
    (/\ reading.at = "told" /\ reading.count <= reading.covers
     /\ met \subseteq {"count lost"}
     /\ Len(reading.list) - reading.count <= HISTORY_TAIL_CEILING)
        => reading.said \subseteq TurnPrompt.summary \cup TextsOf(TurnPrompt.history)

(* Nothing that was said is lost between the messages and the summary,     *)
(* neither what a turn is told nor what the count says.                    *)
NothingForgotten == SummaryCovers /\ TurnIsTold

(* When no job is left, fewer messages than SUMMARY_MESSAGE_INTERVAL are   *)
(* not summarized: no turn forgets to ask for the summary that is due, and *)
(* a job that could not be published, or was dead-lettered, is made up for *)
(* by the next turn.  The exceptions: that job was for the messages there  *)
(* are, a count that could not be stored or expired, and jobs that         *)
(* overtook each other or outlived their session.                          *)
SummaryKeepsUp ==
    (/\ {"count lost", "expired", "overtaken", "outlived"} \cap met = {}
     /\ ~Pending /\ Len(list) \notin lost)
        => Len(list) - count < SUMMARY_MESSAGE_INTERVAL
===============================================================================
