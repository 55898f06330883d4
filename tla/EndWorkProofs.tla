--------------------------- MODULE EndWorkProofs ---------------------------
(***************************************************************************)
(* Theorems about the end of an enumeration, for any number of polls,      *)
(* rows, addresses and failures.                                           *)
(***************************************************************************)
EXTENDS EndWork, TLAPS

Queuers == {"hook", "fill"}

\* Who stands between its check and its submission passed the check before the
\* kill, and has queued nothing since.
LateInv ==
  /\ late \in [Queuers -> Nat]
  /\ ~killed => late["hook"] = 0 /\ late["fill"] = 0
  /\ hook = "submit" => late["hook"] = 0
  /\ fill = "submit" => late["fill"] = 0
  /\ late["hook"] <= 1 /\ late["fill"] <= 1

LEMMA LateCounted ==
  ASSUME LateInv, NEW p \in Queuers, late[p] = 0
  PROVE  /\ Counted(p) \in [Queuers -> Nat] /\ Counted(p)[p] <= 1
         /\ \A q \in Queuers : q # p => Counted(p)[q] = late[q]
         /\ ~killed => Counted(p) = late
BY DEF LateInv, Counted

LEMMA LateStep == LateInv /\ [Next]_vars => LateInv'
<1> SUFFICES ASSUME LateInv, [Next]_vars PROVE LateInv'
  OBVIOUS
<1>0. "hook" \in Queuers /\ "fill" \in Queuers
  BY DEF Queuers
<1>1. ASSUME UNCHANGED late, hook' = "submit" => hook = "submit" \/ ~killed,
             fill' = "submit" => fill = "submit" \/ ~killed, ~killed' => ~killed
      PROVE  LateInv'
  BY <1>1 DEF LateInv
<1>2. CASE PipelineStep
  BY <1>1, <1>2 DEF PipelineStep, Claim, Complete, Strand, AdmitOwnedNetblock, Discover,
                    FillStarts, PipeUnchanged, hookVars, fillVars, rest
<1>3. CASE StatStep
  BY <1>1, <1>3 DEF StatStep, CountFQDN, CountIPAddress, StatUnchanged, hookVars, fillVars, rest
<1>4. CASE CliTick \/ TimerFires
  BY <1>1, <1>4 DEF CliTick, TimerFires, PollFirstPass, PollEndWork, PollFails, AskIdle,
                    AskOverdue, AskFails, RequestEndWork, Accepted, CliUnchanged,
                    hookVars, fillVars, rest
<1>5. CASE HookStep \/ WaitTimesOut
  <2>1. CASE SweepSubmit
    <3>1. /\ late' \in {late, Counted("hook")} /\ hook = "submit" /\ hook' = "requeue"
          /\ UNCHANGED <<fill, killed>>
      BY <2>1 DEF SweepSubmit, HookGoes, HookUnchanged, fillVars
    <3>2. late["hook"] = 0
      BY <3>1 DEF LateInv
    <3> QED BY <1>0, <3>1, <3>2, LateCounted DEF LateInv
  <2>2. CASE SweepNext
    BY <1>1, <2>2 DEF SweepNext, Stops, HookGoes, HookUnchanged, fillVars
  <2>3. CASE FinishFills
    BY <1>1, <2>3 DEF FinishFills, FillStarts, HookGoes, HookUnchanged
  <2>4. CASE WaitIPIdle \/ WaitTimesOut
    <3>1. NextPhase # "submit" /\ hook' = NextPhase
      BY <2>4 DEF WaitIPIdle, WaitTimesOut, Deadline, Waiting, NextPhase, HookGoes
    <3> QED BY <1>1, <2>4, <3>1 DEF WaitIPIdle, WaitTimesOut, HookUnchanged, fillVars
  <2>5. CASE HookStart \/ SweepStart \/ SweepList \/ HookReturns
    BY <1>1, <2>5 DEF HookStart, SweepStart, SweepList, HookReturns, HookGoes, HookUnchanged,
                      fillVars
  <2> QED BY <1>5, <2>1, <2>2, <2>3, <2>4, <2>5 DEF HookStep
<1>6. CASE FillStep
  <2>1. CASE FillSubmit
    <3>1. /\ late' \in {late, Counted("fill")} /\ fill = "submit" /\ fill' = "check"
          /\ UNCHANGED <<hook, killed>>
      BY <2>1 DEF FillSubmit, HookUnchanged, hookVars
    <3>2. late["fill"] = 0
      BY <3>1 DEF LateInv
    <3> QED BY <1>0, <3>1, <3>2, LateCounted DEF LateInv
  <2>2. CASE FillCheck
    BY <1>1, <2>2 DEF FillCheck, HookUnchanged, hookVars
  <2> QED BY <1>6, <2>1, <2>2 DEF FillStep
<1>7. CASE Kill
  BY <1>1, <1>7 DEF Kill, hookVars, fillVars
<1>8. CASE UNCHANGED vars
  BY <1>1, <1>8 DEF vars, hookVars, fillVars, rest
<1> QED BY <1>2, <1>3, <1>4, <1>5, <1>6, <1>7, <1>8 DEF Next

\* After the kill the hook and the fill queue one address each at most.
THEOREM StopAfterKill == Spec => []StopsWhenKilled
<1>1. Init => LateInv
  BY DEF Init, LateInv, Queuers
<1>2. LateInv => StopsWhenKilled
  BY DEF LateInv, StopsWhenKilled
<1> QED BY <1>1, <1>2, LateStep, PTL DEF Spec

------------------------------------------------------------------------------
(* Types.  The pipelines create rows up to a bound, the fill adds to them   *)
(* what it has not yet created.                                            *)

Bounded ==
  /\ Created + toFill <= MaxItems + FillSize + 1
  /\ fill = "submit" => toFill > 0
  /\ hook = "submit" => submitted < SweepCap
  /\ cli # "exit" => finished < Polls

TypeInv == TypeOK /\ Bounded

RowTypes ==
  /\ queued \in [Types -> Nat] /\ leased \in [Types -> Nat] /\ completed \in [Types -> Nat]
  /\ stranded \in [Types -> 0 .. MaxStranded]
  /\ \A t \in Types : stranded[t] <= leased[t]

LEMMA TwoTypes == "FQDN" \in Types /\ "IPAddress" \in Types
                  /\ \A t \in Types : t = "FQDN" \/ t = "IPAddress"
BY DEF Types

LEMMA CreatedType == RowTypes => Created \in Nat
BY TwoTypes DEF RowTypes, Created

LEMMA InitInv == Init => TypeInv
<1> SUFFICES ASSUME Init PROVE TypeInv
  OBVIOUS
<1>1. RowTypes
  BY TwoTypes, EndWorkAssumption DEF Init, RowTypes
<1>2. Created = 1
  BY TwoTypes DEF Init, Created
<1>3. /\ MaxItems \in Nat /\ FillSize \in Nat /\ Polls \in Nat /\ 0 < Polls /\ 0 \in 0 .. Polls /\ 0 \in 0 .. SweepCap
      /\ 0 \in 0 .. MaxFaults /\ 0 \in 0 .. MaxFaults
  BY EndWorkAssumption
<1>4. Bounded
  BY <1>2, <1>3 DEF Init, Bounded
<1>5. Created <= MaxItems + FillSize + 1
  BY <1>2, <1>3
<1>6. /\ late \in [{"hook", "fill"} -> Nat] /\ toFill \in 0 .. FillSize
      /\ finished \in 0 .. Polls /\ walk \in Nat /\ submitted \in 0 .. SweepCap
      /\ faults \in 0 .. MaxFaults /\ lost \in 0 .. MaxFaults
  BY <1>3 DEF Init
<1>7. /\ active \in BOOLEAN /\ killed \in BOOLEAN /\ counting \in Types \cup {"none"}
      /\ pending \in BOOLEAN /\ idle \in BOOLEAN
      /\ cli \in {"wait", "ask", "post", "exit"} /\ endWork \in BOOLEAN
      /\ polled \in BOOLEAN /\ hookSeen \in BOOLEAN /\ hook \in HookPCs
      /\ hookDone \in BOOLEAN /\ fill \in {"none", "check", "submit", "ended"}
  BY DEF Init, HookPCs
<1>8. TypeOK
  BY <1>1, <1>5, <1>6, <1>7 DEF TypeOK, RowTypes
<1> QED BY <1>4, <1>8 DEF TypeInv

\* A row moves, or one is created while there are few enough.
LEMMA PipelineInv ==
  ASSUME TypeInv, PipelineStep
  PROVE  TypeInv'
<1>0. RowTypes /\ Created \in Nat
  BY CreatedType DEF TypeInv, TypeOK, RowTypes
<1>1. UNCHANGED <<counting, pending, idle, cliVars, hookVars, active, killed, late, faults, lost,
                  toFill>>
  BY DEF PipelineStep, Claim, Complete, Strand, AdmitOwnedNetblock, Discover, PipeUnchanged,
         fillVars, rest, badVars
<1>2. fill' \in {"none", "check", "submit", "ended"} /\ (fill' = "submit" => fill = "submit")
  BY DEF PipelineStep, Claim, Complete, Strand, AdmitOwnedNetblock, Discover, FillStarts,
         fillVars, TypeInv, TypeOK
<1>3. RowTypes' /\ Created' + toFill <= MaxItems + FillSize + 1
  <2>0. /\ Created + toFill <= MaxItems + FillSize + 1 /\ toFill \in 0 .. FillSize
        /\ MaxItems \in Nat /\ FillSize \in Nat
    BY EndWorkAssumption DEF MayFail, TypeInv, TypeOK, Bounded
  <2>1. ASSUME NEW t \in Types, Claim(t) PROVE RowTypes' /\ Created' = Created
    BY <1>0, <2>1, TwoTypes DEF Claim, RowTypes, Created
  <2>2. ASSUME NEW t \in Types, Complete(t) PROVE RowTypes' /\ Created' = Created
    <3>1. /\ leased' = [leased EXCEPT ![t] = @ - 1] /\ leased[t] > stranded[t]
          /\ completed' = [completed EXCEPT ![t] = @ + 1] /\ UNCHANGED <<queued, stranded>>
      BY <2>2 DEF Complete
    <3>2. leased[t] \in Nat /\ stranded[t] \in Nat /\ completed[t] \in Nat
      BY <1>0, EndWorkAssumption DEF RowTypes
    <3>3. RowTypes'
      BY <1>0, <3>1, <3>2 DEF RowTypes
    <3>4. Created' = Created
      BY <1>0, <3>1, <3>2, TwoTypes DEF RowTypes, Created
    <3> QED BY <3>3, <3>4
  <2>3. ASSUME NEW t \in Types, Strand(t) PROVE RowTypes' /\ Created' = Created
    <3>1. /\ stranded' = [stranded EXCEPT ![t] = @ + 1] /\ UNCHANGED <<queued, leased, completed>>
          /\ leased[t] > stranded[t] /\ stranded[t] < MaxStranded
      BY <2>3 DEF Strand
    <3>2. leased[t] \in Nat /\ stranded[t] \in 0 .. MaxStranded /\ MaxStranded \in Nat
      BY <1>0, EndWorkAssumption DEF RowTypes
    <3>3. stranded' \in [Types -> 0 .. MaxStranded]
      BY <1>0, <3>1, <3>2 DEF RowTypes
    <3>4. \A u \in Types : stranded'[u] <= leased[u]
      BY <1>0, <3>1, <3>2 DEF RowTypes
    <3> QED BY <1>0, <3>1, <3>3, <3>4 DEF RowTypes, Created
  <2>4. ASSUME NEW t \in Types, NEW u \in Types, Discover(t, u)
        PROVE  RowTypes' /\ Created' = Created + 1 /\ Created < MaxItems
    <3>1. /\ queued' = [queued EXCEPT ![u] = @ + 1] /\ Created < MaxItems
          /\ UNCHANGED <<leased, completed, stranded>>
      BY <2>4 DEF Discover
    <3>2. RowTypes'
      BY <1>0, <3>1 DEF RowTypes
    <3>3. Created' = Created + 1
      BY <1>0, <3>1, TwoTypes DEF RowTypes, Created
    <3> QED BY <3>1, <3>2, <3>3
  <2>5. ASSUME NEW t \in Types, AdmitOwnedNetblock(t) PROVE RowTypes' /\ Created' = Created
    BY <1>0, <2>5 DEF AdmitOwnedNetblock, rowVars, RowTypes, Created
  <2>6. RowTypes' /\ (Created' = Created \/ (Created' = Created + 1 /\ Created < MaxItems))
    BY <2>1, <2>2, <2>3, <2>4, <2>5 DEF PipelineStep
  <2> QED BY <1>0, <2>0, <2>6
<1>4. Created' <= MaxItems + FillSize + 1
  <2>1. Created' \in Nat
    BY <1>3, TwoTypes DEF RowTypes, Created
  <2>2. toFill \in Nat /\ MaxItems + FillSize + 1 \in Nat
    BY EndWorkAssumption DEF MayFail, TypeInv, TypeOK
  <2> QED BY <1>3, <2>1, <2>2
<1>5. Bounded'
  BY <1>1, <1>2, <1>3 DEF TypeInv, Bounded, cliVars, hookVars
<1>6. TypeOK'
  BY <1>1, <1>2, <1>3, <1>4 DEF TypeInv, TypeOK, RowTypes, cliVars, hookVars
<1> QED BY <1>5, <1>6 DEF TypeInv

\* What a step leaves alone stays well typed.
LEMMA KeepRows ==
  ASSUME TypeInv, UNCHANGED <<queued, leased, completed, stranded>>
  PROVE  RowTypes' /\ Created' = Created
BY DEF TypeInv, TypeOK, RowTypes, Created

LEMMA StatInv ==
  ASSUME TypeInv, StatStep
  PROVE  TypeInv'
<1>1. RowTypes' /\ Created' = Created
  BY KeepRows DEF StatStep, CountFQDN, CountIPAddress, StatUnchanged, rowVars
<1>2. UNCHANGED <<cliVars, hookVars, fillVars, active, killed, late, lost>>
  BY DEF StatStep, CountFQDN, CountIPAddress, StatUnchanged, rest
<1>3. faults' \in 0 .. MaxFaults
  BY EndWorkAssumption DEF MayFail, TypeInv, TypeOK, StatStep, CountFQDN, CountIPAddress
<1>4. counting' \in Types \cup {"none"}
  BY TwoTypes DEF TypeInv, TypeOK, StatStep, CountFQDN, CountIPAddress
<1>5. /\ pending' \in BOOLEAN /\ idle' \in BOOLEAN
  <2>1. CASE CountFQDN
    <3>1. UNCHANGED idle
      BY <2>1 DEF CountFQDN
    <3>2. pending' \in BOOLEAN
      BY <2>1, Zenon DEF CountFQDN
    <3> QED BY <3>1, <3>2 DEF TypeInv, TypeOK
  <2>2. CASE CountIPAddress
    BY <2>2 DEF TypeInv, TypeOK, CountIPAddress
  <2> QED BY <2>1, <2>2 DEF StatStep
<1>6. Bounded'
  BY <1>1, <1>2 DEF TypeInv, Bounded, cliVars, hookVars, fillVars
<1>7. TypeOK'
  BY <1>1, <1>2, <1>3, <1>4, <1>5 DEF TypeInv, TypeOK, RowTypes, cliVars, hookVars, fillVars
<1> QED BY <1>6, <1>7 DEF TypeInv

LEMMA CliInv ==
  ASSUME TypeInv, CliTick \/ TimerFires
  PROVE  TypeInv'
<1>1. /\ UNCHANGED <<rowVars, statVars, fillVars, active, killed, late>>
      /\ UNCHANGED <<hookDone, walk, submitted>>
  BY DEF CliTick, TimerFires, PollFirstPass, PollEndWork, PollFails, AskIdle, AskOverdue,
         AskFails, RequestEndWork, CliUnchanged, hookVars, rest
<1>2. RowTypes' /\ Created' = Created
  BY <1>1, KeepRows DEF rowVars
<1>3. faults' \in 0 .. MaxFaults /\ lost' \in 0 .. MaxFaults
  BY EndWorkAssumption DEF MayFail, TypeInv, TypeOK, CliTick, TimerFires, PollFirstPass, PollEndWork,
     PollFails, AskIdle, AskOverdue, AskFails, RequestEndWork, ReadFails, badVars
<1>4. hook' \in HookPCs /\ (hook' = "submit" => hook = "submit")
  BY DEF TypeInv, TypeOK, CliTick, TimerFires, PollFirstPass, PollEndWork, PollFails, AskIdle,
     AskOverdue, AskFails, RequestEndWork, Accepted, hookVars, HookPCs
<1>5. /\ cli' \in {"wait", "ask", "post", "exit"}
      /\ endWork' \in BOOLEAN /\ polled' \in BOOLEAN /\ hookSeen' \in BOOLEAN
  BY DEF TypeInv, TypeOK, CliTick, TimerFires, PollFirstPass, PollEndWork, PollFails, AskIdle,
     AskOverdue, AskFails, RequestEndWork, cliVars
<1>6. finished' \in 0 .. Polls /\ (cli' # "exit" => finished' < Polls)
  BY EndWorkAssumption DEF MayFail, TypeInv, TypeOK, CliTick, TimerFires, PollFirstPass, PollEndWork,
     PollFails, AskIdle, AskOverdue, AskFails, RequestEndWork, cliVars, Bounded
<1>7. Bounded'
  BY <1>1, <1>2, <1>4, <1>6 DEF TypeInv, Bounded, fillVars
<1>8. TypeOK'
  BY <1>1, <1>2, <1>3, <1>4, <1>5, <1>6 DEF TypeInv, TypeOK, RowTypes, statVars, fillVars
<1> QED BY <1>7, <1>8 DEF TypeInv

LEMMA HookPhase ==
  ASSUME Waiting
  PROVE  NextPhase \in {"sweep", "listing", "return"}
BY DEF Waiting, NextPhase

LEMMA HookInv ==
  ASSUME TypeInv, HookStep \/ WaitTimesOut
  PROVE  TypeInv'
<1>1. UNCHANGED <<statVars, cliVars, active, killed, lost, toFill, leased, stranded>>
  BY DEF HookStep, HookStart, FinishFills, WaitIPIdle, WaitTimesOut, SweepStart, SweepList,
         SweepNext, SweepSubmit, HookReturns, HookUnchanged, rowVars, fillVars
<1>2. hook' \in HookPCs /\ hookDone' \in BOOLEAN
  BY HookPhase DEF TypeInv, TypeOK, HookStep, HookStart, FinishFills, WaitIPIdle, WaitTimesOut,
         Deadline, SweepStart, SweepList, SweepNext, SweepSubmit, HookReturns, HookGoes, HookPCs
<1>3. fill' \in {"none", "check", "submit", "ended"} /\ (fill' = "submit" => fill = "submit")
  BY DEF TypeInv, TypeOK, HookStep, HookStart, FinishFills, FillStarts, WaitIPIdle, WaitTimesOut,
         SweepStart, SweepList, SweepNext, SweepSubmit, HookReturns, fillVars
<1>4. RowTypes' /\ Created' = Created
  <2>1. CASE UNCHANGED <<queued, leased, completed, stranded>>
    BY <2>1, KeepRows
  <2>2. ASSUME completed["IPAddress"] > 0,
               completed' = [completed EXCEPT !["IPAddress"] = @ - 1],
               queued' = [queued EXCEPT !["IPAddress"] = @ + 1]
        PROVE  RowTypes' /\ Created' = Created
    <3>1. RowTypes
      BY DEF TypeInv, TypeOK, RowTypes
    <3>2. RowTypes'
      BY <1>1, <2>2, <3>1, TwoTypes DEF RowTypes
    <3> QED BY <1>1, <2>2, <3>1, <3>2, TwoTypes DEF RowTypes, Created
  <2> QED
    BY <1>1, <2>1, <2>2 DEF HookStep, HookStart, FinishFills, WaitIPIdle, WaitTimesOut,
       SweepStart, SweepList, SweepNext, SweepSubmit, HookReturns, rowVars
<1>5. /\ walk' \in Nat /\ faults' \in 0 .. MaxFaults
  <2>1. CASE SweepList
    BY <2>1, TwoTypes, EndWorkAssumption DEF MayFail, SweepList, TypeInv, TypeOK
  <2>2. CASE SweepNext
    BY <2>2 DEF SweepNext, TypeInv, TypeOK
  <2> QED BY <2>1, <2>2 DEF TypeInv, TypeOK, HookStep, HookStart, FinishFills, WaitIPIdle,
       WaitTimesOut, SweepStart, SweepSubmit, HookReturns
<1>6. submitted' \in 0 .. SweepCap /\ (hook' = "submit" => submitted' < SweepCap)
  <2>0. submitted \in 0 .. SweepCap /\ SweepCap \in Nat /\ (hook = "submit" => submitted < SweepCap)
    BY EndWorkAssumption DEF MayFail, TypeInv, TypeOK, Bounded
  <2>1. CASE SweepNext
    BY <2>0, <2>1 DEF SweepNext, SweepFull, HookGoes
  <2>2. CASE SweepSubmit
    BY <2>0, <2>2 DEF SweepSubmit, HookGoes
  <2>3. CASE WaitIPIdle \/ WaitTimesOut
    BY <2>0, <2>3, HookPhase DEF WaitIPIdle, WaitTimesOut, Deadline, HookGoes
  <2> QED BY <2>0, <2>1, <2>2, <2>3 DEF HookStep, HookStart, FinishFills, SweepStart, SweepList,
       HookReturns, HookGoes
<1>7. late' \in [{"hook", "fill"} -> Nat]
  BY DEF TypeInv, TypeOK, HookStep, HookStart, FinishFills, WaitIPIdle, WaitTimesOut,
     SweepStart, SweepList, SweepNext, SweepSubmit, HookReturns, Counted
<1>8. Bounded'
  BY <1>1, <1>3, <1>4, <1>6 DEF TypeInv, Bounded, cliVars
<1>9. TypeOK'
  BY <1>1, <1>2, <1>3, <1>4, <1>5, <1>6, <1>7 DEF TypeInv, TypeOK, RowTypes, statVars, cliVars
<1> QED BY <1>8, <1>9 DEF TypeInv

\* What the fill queues, it no longer has to queue.
LEMMA OneFewer ==
  ASSUME NEW c \in Nat, NEW d \in Nat, NEW n \in Nat, NEW k \in Nat, NEW max \in Nat,
         d <= c + 1, k = n - 1, c + n <= max
  PROVE  d + k <= max
OBVIOUS

LEMMA FillInv ==
  ASSUME TypeInv, FillStep
  PROVE  TypeInv'
<1>1. UNCHANGED <<statVars, cliVars, hookVars, active, killed, lost, faults, leased, stranded,
                  completed>>
  BY DEF FillStep, FillCheck, FillSubmit, HookUnchanged, rowVars
<1>2. /\ toFill \in 0 .. FillSize /\ FillSize \in Nat /\ MaxItems \in Nat
      /\ Created + toFill <= MaxItems + FillSize + 1 /\ (fill = "submit" => toFill > 0)
  BY EndWorkAssumption DEF MayFail, TypeInv, TypeOK, Bounded
<1>3. RowTypes /\ Created \in Nat
  BY CreatedType DEF TypeInv, TypeOK, RowTypes
<1>4. /\ RowTypes' /\ toFill' \in 0 .. FillSize /\ Created' + toFill' <= MaxItems + FillSize + 1
      /\ Created' \in Nat /\ late' \in [{"hook", "fill"} -> Nat]
      /\ fill' \in {"none", "check", "submit", "ended"} /\ (fill' = "submit" => toFill' > 0)
  <2>1. CASE FillCheck
    <3>1. UNCHANGED <<queued, leased, completed, stranded, toFill, late>>
      BY <2>1 DEF FillCheck, rowVars
    <3>2. fill' \in {"none", "check", "submit", "ended"} /\ (fill' = "submit" => toFill > 0)
      BY <1>2, <2>1 DEF FillCheck
    <3>3. RowTypes' /\ Created' = Created
      BY <3>1, KeepRows
    <3>4. late' \in [{"hook", "fill"} -> Nat]
      BY <3>1 DEF TypeInv, TypeOK
    <3> QED BY <1>2, <1>3, <3>1, <3>2, <3>3, <3>4
  <2>2. CASE FillSubmit
    <3>1. /\ fill' = "check" /\ toFill' = toFill - 1 /\ toFill > 0
          /\ queued' \in {queued, [queued EXCEPT !["IPAddress"] = @ + 1]}
          /\ late' \in {late, Counted("fill")}
      BY <1>2, <2>2 DEF FillSubmit
    <3>2. RowTypes'
      BY <1>1, <1>3, <3>1, TwoTypes DEF RowTypes
    <3>3. Created' \in Nat /\ Created' <= Created + 1
      <4>1. CASE queued' = queued
        BY <1>1, <1>3, <4>1 DEF Created
      <4>2. CASE queued' = [queued EXCEPT !["IPAddress"] = @ + 1]
        BY <1>1, <1>3, <4>2, TwoTypes DEF RowTypes, Created
      <4> QED BY <3>1, <4>1, <4>2
    <3>4. late' \in [{"hook", "fill"} -> Nat]
      BY <3>1 DEF TypeInv, TypeOK, Counted
    <3>5. /\ toFill' \in 0 .. FillSize /\ toFill' \in Nat /\ toFill \in Nat
          /\ toFill' = toFill - 1
      BY <1>2, <3>1
    <3>6. Created \in Nat /\ MaxItems + FillSize + 1 \in Nat
      BY <1>2, <1>3
    <3>7. Created' + toFill' <= MaxItems + FillSize + 1
      <4>1. Created + toFill <= MaxItems + FillSize + 1
        BY <1>2
      <4>2. Created' <= Created + 1
        BY <3>3
      <4>3. Created' \in Nat
        BY <3>3
      <4> QED BY <4>1, <4>2, <4>3, <3>5, <3>6, OneFewer
    <3> QED BY <3>1, <3>2, <3>3, <3>4, <3>5, <3>7
  <2> QED BY <2>1, <2>2 DEF FillStep
<1>5. Bounded'
  BY <1>1, <1>4 DEF TypeInv, Bounded, cliVars, hookVars
<1>6. Created' <= MaxItems + FillSize + 1
  <2>1. toFill' \in Nat /\ MaxItems + FillSize + 1 \in Nat
    BY <1>2, <1>4
  <2> QED BY <1>4, <2>1
<1>7. TypeOK'
  BY <1>1, <1>4, <1>6 DEF TypeInv, TypeOK, RowTypes, statVars, cliVars, hookVars
<1> QED BY <1>5, <1>7 DEF TypeInv

LEMMA StepInv == TypeInv /\ [Next]_vars => TypeInv'
<1> SUFFICES ASSUME TypeInv, [Next]_vars PROVE TypeInv'
  OBVIOUS
<1>1. CASE Kill \/ UNCHANGED vars
  <2>1. /\ UNCHANGED <<rowVars, statVars, cliVars, hookVars, fillVars, active, late, badVars>>
        /\ killed' \in BOOLEAN
    BY <1>1 DEF Kill, vars, rest, TypeInv, TypeOK
  <2>2. RowTypes' /\ Created' = Created
    BY <2>1, KeepRows DEF rowVars
  <2> QED BY <2>1, <2>2 DEF TypeInv, TypeOK, RowTypes, Bounded, statVars, cliVars, hookVars,
                            fillVars, badVars
<1> QED BY <1>1, PipelineInv, StatInv, CliInv, HookInv, FillInv DEF Next

\* Every step of client, statistics, hook and fill keeps the state well typed:
\* the rows stay within what was created and filled, and the sweep within its cap.
THEOREM TypeCorrect == Spec => []TypeOK
<1>1. TypeInv => TypeOK
  BY DEF TypeInv
<1> QED BY <1>1, InitInv, StepInv, PTL DEF Spec
=============================================================================
