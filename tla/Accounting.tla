------------------------------ MODULE Accounting ------------------------------
(***************************************************************************)
(* The workers' counters of what they finished (Stats), which /metrics     *)
(* exports and the dashboard adds up over the workers.  A counter goes up  *)
(* when replies are read, not when Redis publishes: replies that are lost  *)
(* are never counted, and the counters of a process end with it.  The      *)
(* counters of claims and of failed cycles are left out: they grow for ever*)
(* and relate to nothing else.                                             *)
(***************************************************************************)
EXTENDS HookGuard

VARIABLES
    replies,    \* results of each worker's pipeline, not yet read
    stats,      \* the counters of each worker
    intact      \* history: no replies and no counters were lost so far

Counters == {"decisions", "duplicates", "dead"}
NoCounts == [c \in Counters |-> 0]

countVars     == <<replies, stats, intact>>
accountedVars == <<vars, countVars>>

(* The counter that the reply of FINISH on i raises, if any.               *)
CounterOf(i) ==
    {c \in Counters :
        CASE c = "duplicates" -> Decided(i)
          [] c = "dead"       -> outputs' # outputs /\ OutputOf(i) = "dead"
          [] c = "decisions"  -> outputs' # outputs /\ OutputOf(i) = "result"}

Finish(w) ==
    /\ RunFinish(w)
    /\ \E i \in wire[w] \ wire'[w] :
          replies' = [replies EXCEPT ![w] =
              [c \in Counters |-> IF c \in CounterOf(i) THEN @[c] + 1 ELSE @[c]]]
    /\ UNCHANGED <<stats, intact>>

Forget(w) == replies' = [replies EXCEPT ![w] = NoCounts]

(* Mutant: the first failure returns before anything is counted. *)
CountUnlessFailed(w) ==
    /\ Collect(w) /\ Forget(w) /\ intact' = intact
    /\ stats' = [stats EXCEPT ![w] =
                    [c \in Counters |-> IF failed[w] THEN @[c] ELSE @[c] + replies[w][c]]]

(* All replies are counted, also beside a failure.                         *)
Count(w) ==
    /\ Collect(w) /\ Forget(w) /\ intact' = intact
    /\ stats' = [stats EXCEPT ![w] = [c \in Counters |-> @[c] + replies[w][c]]]

(* Mutant: what was sent is counted before it is answered. *)
CountAnyway(w) ==
    /\ CycleBreaks(w) /\ Forget(w) /\ intact' = FALSE
    /\ stats' = [stats EXCEPT ![w].decisions = @ + Cardinality(wire[w])]

Lose(w) ==
    /\ CycleBreaks(w) /\ Forget(w) /\ intact' = FALSE
    /\ stats' = stats

Die(w) ==
    /\ Kill(w) /\ Forget(w) /\ intact' = FALSE
    /\ stats' = [stats EXCEPT ![w] = NoCounts]

Uncounted(w) ==
    \/ Start(w) \/ Claim(w) \/ Read(w) \/ Recover(w)
    \/ RunStale(w) \/ LateClaim(w) \/ LateRead(w)

AccountedInit ==
    /\ Init
    /\ replies = [w \in Workers |-> NoCounts]
    /\ stats   = [w \in Workers |-> NoCounts]
    /\ intact  = TRUE

AccountedNext ==
    \/ \E w \in Workers :
          /\ \/ Finish(w) \/ Count(w) \/ Lose(w) \/ Die(w)
             \/ Uncounted(w) /\ UNCHANGED countVars
          /\ UNCHANGED gatewayVars
    \/ GatewayNext /\ UNCHANGED <<workerVars, countVars>>
    \/ (Tick \/ Inject) /\ UNCHANGED countVars

AccountedSpec == AccountedInit /\ [][AccountedNext]_accountedVars

-----------------------------------------------------------------------------
(* A sum, as the number of pairs of an x and a number from 1 to f[x].      *)
Pairs(f) == UNION {{x} \X (1..f[x]) : x \in DOMAIN f}
SumOf(f) == Cardinality(Pairs(f))

(* What the dashboard adds up.                                             *)
Total(c) == SumOf([w \in Workers |-> stats[w][c]])

Published(kind) == {j \in DOMAIN outputs : OutputOf(outputs[j].id) = kind}

(* Nothing is counted that did not happen: the workers never count more    *)
(* decisions or dead letters than the streams hold, whatever was lost,     *)
(* retried or executed late.                                               *)
CountsAreBacked ==
    /\ Total("decisions") <= Cardinality(Published("result"))
    /\ Total("dead") <= Cardinality(Published("dead"))

(* As long as no reply is lost everything is counted, also what was finished*)
(* in one pipeline with an entry that failed, and every entry that left the*)
(* queue was counted at least once.                                        *)
AllIsCounted ==
    intact /\ (\A w \in Workers : replies[w] = NoCounts) =>
        /\ Total("decisions") = Cardinality(Published("result"))
        /\ Total("dead") = Cardinality(Published("dead"))
        /\ Total("decisions") + Total("dead") + Total("duplicates")
              >= Cardinality({i \in Ids : i < nextId /\ i \notin stream})
=============================================================================
