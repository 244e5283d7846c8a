-------------------------- MODULE SchedulerThreads --------------------------
(***************************************************************************)
(* Lemmas about the threads of Scheduler: the places they go to and what   *)
(* they have at hand there.  SchedulerProofs puts them together with the   *)
(* tables and the shared memory.                                           *)
(***************************************************************************)
EXTENDS Scheduler, FiniteSetTheorems, TLAPS

\* Where a thread may be only with an outcome decided, a request or message at
\* hand, or a place to return to.
Decided == {"cleanup", "own", "reread", "seal", "record", "persist",
            "precedence", "persist_cancelled", "refused", "receipt"}
Stopping == {"stop", "reap"}
Delivering == {"hand_over", "settle_message", "fail_message"}
Special == Decided \cup Stopping \cup Delivering \cup {"shut"}

Ready(local) ==
  /\ local.pc \in Decided => local.outcome \in Outcomes
  /\ local.pc \in Stopping =>
       \/ local.next = "adjudicate"
       \/ local.next \in {"reread", "seal", "persist"} /\ local.outcome \in Outcomes
  /\ local.pc \in Delivering => local.message \in MessageIds
  /\ local.pc = "shut" => local.next \in {"lock", "unlock", "abandon"}

ThreadsOK ==
  /\ th \in [Threads -> Thread]
  /\ \A t \in Threads : Ready(th[t])

MemoryOK ==
  /\ active \in Epochs /\ starting \in Epochs
  /\ life \in [Runs -> Lives]
  /\ proc \in [Runs -> Processes]
  /\ owner \in [Runs -> Owners]
  /\ turn \in [Runs -> Turns]
  /\ op \in [Runs -> Threads \cup {Nobody}]
  /\ sink \in [Runs -> Sink]

SchedulerInv == ThreadsOK /\ MemoryOK
-----------------------------------------------------------------------------
(* The constants                                                           *)

\* There is one task, and a run is one of its epochs.
LEMMA Constants ==
  /\ Task \in Ids /\ 0 \in Epochs /\ Runs \subseteq Epochs /\ Epochs \subseteq Nat
  /\ Texts = {"routed", "unstarted", "bounded"} /\ ProposedOutcomes = Outcomes
<1>1. Task \in Ids
  BY StoreAssumption, SchedulerAssumption DEF Task, Ids
<1>2. Cardinality(MessageIds) \in Nat
  BY StoreAssumption, FS_CardinalityType
<1>3. 0 \in Epochs /\ Epochs \subseteq Nat
  BY <1>2 DEF Epochs
<1> QED
  BY <1>1, <1>3, SchedulerAssumption DEF Runs

\* The first claim is a run.
LEMMA ARun == 1 \in Runs
<1>1. Cardinality(MessageIds) \in Nat
  BY StoreAssumption, FS_CardinalityType
<1> QED
  BY <1>1 DEF Runs, Epochs

\* A thread that starts afresh is well formed.
LEMMA IdleOK == IdleThread \in Thread /\ Ready(IdleThread)
<1>1. IdleThread \in Thread
  BY Constants DEF IdleThread, Thread, Places, Returns
<1>2. Ready(IdleThread)
  BY DEF IdleThread, Ready, Decided, Stopping, Delivering
<1> QED
  BY <1>1, <1>2

\* A thread that takes a step leaves the others as they are.
LEMMA BecomesOK ==
  ASSUME ThreadsOK, NEW t \in Threads, NEW local \in Thread, Ready(local),
         Becomes(t, local)
  PROVE  ThreadsOK'
  BY DEF ThreadsOK, Becomes

\* A thread that only moves on needs nothing to be decided, unless the place
\* asks for it.
LEMMA GoOK ==
  ASSUME ThreadsOK, NEW t \in Threads, NEW pc \in Places \ Special,
         Go(t, pc)
  PROVE  ThreadsOK'
<1> DEFINE local == [th[t] EXCEPT !.pc = pc]
<1>1. local \in Thread
  BY DEF ThreadsOK, Thread
<1>2. local.pc = pc
  BY DEF ThreadsOK, Thread
<1>3. Ready(local)
  BY <1>2 DEF Ready, Special
<1> QED
  BY <1>1, <1>3, BecomesOK DEF Go
-----------------------------------------------------------------------------
(* The threads: their places and locals                                    *)

\* The outcomes and texts a thread decides by itself.
LEMMA ResultNames ==
  /\ "CANCELLED" \in Outcomes /\ "FAILED" \in Outcomes
  /\ "RUNTIME_LOST" \in Outcomes /\ "RESULT_INVALID" \in Outcomes
  /\ "COMPLETED" \in Outcomes
  /\ "routed" \in Texts /\ "unstarted" \in Texts /\ "bounded" \in Texts
  BY Constants DEF Outcomes

LEMMA UnstartedOK ==
  ASSUME ThreadsOK, NEW t \in Threads, NEW outcome \in Outcomes,
         NEW pc \in {"persist", "stop"}
  PROVE  Unstarted(t, outcome, pc) \in Thread /\ Ready(Unstarted(t, outcome, pc))
<1> DEFINE local == Unstarted(t, outcome, pc)
<1>0. th[t] \in Thread
  BY DEF ThreadsOK
<1>1. local \in Thread
  <2>1. pc \in Places /\ "persist" \in Returns
    BY DEF Places, FinishPlaces, Returns
  <2> QED
    BY Zenon, <1>0, <2>1, ResultNames DEF Thread, Unstarted
<1>2. local.pc = pc /\ local.outcome = outcome /\ local.next = "persist"
  BY <1>0 DEF Thread, Unstarted
<1>3. Ready(local)
  BY <1>2 DEF Ready, Decided, Stopping, Delivering
<1> QED
  BY <1>1, <1>3

LEMMA CleanUpOK ==
  ASSUME ThreadsOK, NEW t \in Threads, NEW outcome \in Outcomes
  PROVE  CleanUp(t, outcome) \in Thread /\ Ready(CleanUp(t, outcome))
<1> DEFINE local == CleanUp(t, outcome)
<1>0. th[t] \in Thread
  BY DEF ThreadsOK
<1>1. local \in Thread
  BY Zenon, <1>0 DEF Thread, CleanUp, Places, FinishPlaces
<1>2. local.pc = "cleanup" /\ local.outcome = outcome
  BY <1>0 DEF Thread, CleanUp
<1>3. Ready(local)
  BY <1>2 DEF Ready, Decided, Stopping, Delivering
<1> QED
  BY <1>1, <1>3

LEMMA ContinueOK ==
  ASSUME ThreadsOK, NEW t \in Threads, NEW result \in {"some", "none", "error"}
  PROVE  Continue(t, result) \in Thread /\ Ready(Continue(t, result))
<1> DEFINE local == Continue(t, result)
<1>0. th[t] \in Thread
  BY DEF ThreadsOK
<1>1. CASE th[t].next = "start"
  <2>1. CASE result = "error"
    BY <1>1, <2>1, CleanUpOK, ResultNames DEF Continue
  <2>2. CASE result # "error"
    <3>1. local = [th[t] EXCEPT !.pc = "watch"]
      BY <1>1, <2>2 DEF Continue
    <3> QED
      BY <1>0, <3>1 DEF Thread, Places, MonitorPlaces, Ready, Decided, Stopping, Delivering
  <2> QED
    BY <2>1, <2>2
<1>2. CASE th[t].next = "terminal"
  <2>1. local = [th[t] EXCEPT !.pc = "watch"]
    BY <1>2 DEF Continue
  <2> QED
    BY <1>0, <2>1 DEF Thread, Places, MonitorPlaces, Ready, Decided, Stopping, Delivering
<1>3. CASE th[t].next \in {"Completed", "FailedTurn"}
  <2>1. CASE result = "some"
    <3>1. local = [th[t] EXCEPT !.pc = "watch"]
      BY <1>3, <2>1 DEF Continue
    <3> QED
      BY <1>0, <3>1 DEF Thread, Places, MonitorPlaces, Ready, Decided, Stopping, Delivering
  <2>2. CASE result = "none"
    <3>1. local = [th[t] EXCEPT !.pc = "stop", !.kind = th[t].next, !.next = "adjudicate"]
      BY <1>3, <2>2 DEF Continue
    <3> QED
      BY ZenonT(40), <1>0, <1>3, <3>1 DEF Thread, Places, FinishPlaces, Returns, Ready, Decided,
         Stopping, Delivering
  <2>3. CASE result = "error"
    <3>1. local = [th[t] EXCEPT !.pc = "stop", !.kind = "FailedTurn",
                                !.outcome = "FAILED", !.next = "adjudicate"]
      BY <1>3, <2>3 DEF Continue
    <3>2. "stop" \in Places /\ "adjudicate" \in Returns
      BY DEF Places, FinishPlaces, Returns
    <3>3. local \in Thread
      BY ZenonT(40), <1>0, <3>1, <3>2, ResultNames DEF Thread
    <3> QED
      BY <1>0, <3>1, <3>3 DEF Thread, Ready, Decided, Stopping, Delivering
  <2> QED
    BY <2>1, <2>2, <2>3
<1>4. CASE th[t].next \notin {"start", "terminal", "Completed", "FailedTurn"}
  <2>1. local = [th[t] EXCEPT !.pc = IF result = "some" THEN "flush" ELSE "unlock"]
    BY <1>4 DEF Continue
  <2> QED
    BY <1>0, <2>1 DEF Thread, Places, FinishPlaces, CallerPlaces, Ready, Decided,
       Stopping, Delivering
<1> QED
  BY <1>1, <1>2, <1>3, <1>4

\* Places a thread may go to with nothing decided.
LEMMA FreePlaces ==
  /\ StartPlaces \cup MonitorPlaces \subseteq Places \ Special
  /\ CallerPlaces \ {"shut"} \subseteq Places \ Special
  /\ {"idle", "deliver", "adjudicate", "release", "unlock"} \subseteq Places \ Special
  BY DEF Places, StartPlaces, FinishPlaces, DeliverPlaces, MonitorPlaces,
     CallerPlaces, Special, Decided, Stopping, Delivering

\* A thread that has decided moves on with its decision.
LEMMA GoDecided ==
  ASSUME ThreadsOK, NEW t \in Threads, NEW pc \in Decided, th[t].pc \in Decided,
         Go(t, pc)
  PROVE  ThreadsOK'
<1> DEFINE local == [th[t] EXCEPT !.pc = pc]
<1>0. th[t] \in Thread /\ th[t].outcome \in Outcomes
  BY DEF ThreadsOK, Ready
<1>1. local \in Thread
  <2>1. pc \in Places
    BY DEF Decided, Places, FinishPlaces
  <2> QED
    BY <1>0, <2>1 DEF Thread
<1>2. local.pc = pc /\ local.outcome = th[t].outcome
  BY <1>0 DEF Thread
<1>3. Ready(local)
  BY <1>0, <1>2 DEF Ready, Decided, Stopping, Delivering
<1> QED
  BY <1>1, <1>3, BecomesOK DEF Go

LEMMA StartClaimThreads ==
  ASSUME SchedulerInv, NEW e \in Runs, NEW t \in Threads,
         StartClaim(t, e)
  PROVE  ThreadsOK'
<1>0. ThreadsOK /\ th[t] \in Thread
  BY DEF SchedulerInv, ThreadsOK
<1>1. CASE Undecodable(t, e)
  BY <1>0, <1>1, IdleOK, BecomesOK DEF Undecodable
<1>2. CASE SpawnFails(t, e)
  BY <1>0, <1>2, UnstartedOK, BecomesOK, ResultNames DEF SpawnFails
<1>3. CASE Spawn(t, e) \/ RegisterStarting(t, e) \/ Activate(t, e) \/ Mark(t, e)
  <2>1. /\ "register" \in Places \ Special /\ "recheck" \in Places \ Special
        /\ "mark" \in Places \ Special /\ "confirm" \in Places \ Special
        /\ "unmarked" \in Places \ Special
    BY FreePlaces DEF StartPlaces
  <2> QED
    BY Zenon, <1>0, <1>3, <2>1, GoOK DEF Spawn, RegisterStarting, Activate, Mark
<1>4. CASE Recheck(t, e)
  <2>1. "bootstrap" \in Places \ Special
    BY FreePlaces DEF StartPlaces
  <2> QED
    BY <1>0, <1>4, <2>1, GoOK, UnstartedOK, BecomesOK, ResultNames DEF Recheck
<1>5. CASE BootstrapFails(t, e)
  BY <1>0, <1>5, UnstartedOK, BecomesOK, ResultNames DEF BootstrapFails
<1>6. CASE Unmarked(t, e)
  BY <1>0, <1>6, CleanUpOK, BecomesOK, ResultNames DEF Unmarked
<1>7. CASE Confirm(t, e)
  <2>1. "monitor" \in Places \ Special /\ "firstsend" \in Places \ Special
    BY FreePlaces DEF StartPlaces, MonitorPlaces
  <2>2. CASE Intent(row) \/ row.phase # "RUNNING"
    BY <1>0, <1>7, <2>2, CleanUpOK, BecomesOK, ResultNames DEF Confirm
  <2>3. CASE ~(Intent(row) \/ row.phase # "RUNNING")
    BY <1>0, <1>7, <2>1, <2>3, GoOK DEF Confirm, Go
  <2> QED
    BY <2>2, <2>3
<1>8. CASE FirstSend(t, e)
  <2> DEFINE local == [th[t] EXCEPT !.pc = "deliver", !.next = "start"]
  <2>1. "deliver" \in Places /\ "start" \in Returns
    BY DEF Places, DeliverPlaces, Returns
  <2>2. local \in Thread
    BY Zenon, <1>0, <2>1 DEF Thread
  <2>3. Ready(local)
    BY <1>0 DEF Thread, Ready, Decided, Stopping, Delivering
  <2> QED
    BY <1>0, <1>8, <2>2, <2>3, BecomesOK DEF FirstSend
<1> QED
  BY <1>1, <1>2, <1>3, <1>4, <1>5, <1>6, <1>7, <1>8 DEF StartClaim

\* What a thread that finishes a run carries from place to place.
LEMMA FinishThreads ==
  ASSUME SchedulerInv, NEW t \in Threads, Finish(t)
  PROVE  ThreadsOK'
<1>0. ThreadsOK /\ th[t] \in Thread /\ Ready(th[t])
  BY DEF SchedulerInv, ThreadsOK
<1>a. "release" \in Places \ Special
  BY FreePlaces
<1>1. CASE BeginCleanup(t)
  <2> DEFINE local == [th[t] EXCEPT !.pc = "own",
                                    !.outcome = IF Intent(row) THEN "CANCELLED" ELSE @]
  <2>1. th[t].outcome \in Outcomes
    BY <1>0, <1>1 DEF BeginCleanup, At, Ready, Decided
  <2>2. "own" \in Places
    BY DEF Places, FinishPlaces
  <2>3. local \in Thread /\ local.pc = "own" /\ local.outcome \in Outcomes
    BY Zenon, <1>0, <2>1, <2>2, ResultNames DEF Thread
  <2>4. Ready(local)
    BY <2>3 DEF Ready, Decided, Stopping, Delivering
  <2> QED
    BY <1>0, <1>1, <2>3, <2>4, BecomesOK DEF BeginCleanup
<1>2. CASE OwnRuntime(t)
  <2> DEFINE local == [th[t] EXCEPT !.pc = "stop", !.kind = "Stopped", !.next = "reread"]
  <2>1. th[t].outcome \in Outcomes
    BY <1>0, <1>2 DEF OwnRuntime, At, Ready, Decided
  <2>2. "stop" \in Places /\ "reread" \in Returns
    BY DEF Places, FinishPlaces, Returns
  <2>3. /\ local \in Thread /\ local.pc = "stop" /\ local.next = "reread"
        /\ local.outcome \in Outcomes
    BY Zenon, <1>0, <2>1, <2>2 DEF Thread
  <2>4. Ready(local)
    BY <2>3 DEF Ready, Decided, Stopping, Delivering
  <2> QED
    BY <1>0, <1>a, <1>2, <2>3, <2>4, BecomesOK, GoOK DEF OwnRuntime
<1>3. ASSUME NEW terminal \in Terminals, At(t, "stop") \/ At(t, "reap"),
             Becomes(t, [th[t] EXCEPT !.pc = th[t].next, !.terminal = terminal])
      PROVE  ThreadsOK'
  <2> DEFINE local == [th[t] EXCEPT !.pc = th[t].next, !.terminal = terminal]
  <2>1. \/ th[t].next = "adjudicate"
        \/ th[t].next \in {"reread", "seal", "persist"} /\ th[t].outcome \in Outcomes
    BY <1>0, <1>3 DEF At, Ready, Stopping
  <2>2. th[t].next \in Places
    BY <2>1 DEF Places, FinishPlaces
  <2>3. /\ local \in Thread /\ local.pc = th[t].next
        /\ local.outcome = th[t].outcome
    BY Zenon, <1>0, <1>3, <2>2 DEF Thread
  <2>4. Ready(local)
    BY <2>1, <2>3 DEF Ready, Decided, Stopping, Delivering
  <2> QED
    BY <1>0, <1>3, <2>3, <2>4, BecomesOK
<1>4. CASE BeginStopping(t)
  <2> DEFINE local == [th[t] EXCEPT !.pc = "reap"]
  <2>1. At(t, "stop")
    BY <1>4 DEF BeginStopping
  <2>2. "reap" \in Places
    BY DEF Places, FinishPlaces
  <2>3. /\ local \in Thread /\ local.pc = "reap" /\ local.next = th[t].next
        /\ local.outcome = th[t].outcome
    BY <1>0, <2>2 DEF Thread
  <2>4. Ready(local)
    BY <1>0, <2>1, <2>3 DEF At, Ready, Decided, Stopping, Delivering
  <2>5. Go(t, "reap") => ThreadsOK'
    BY <1>0, <2>3, <2>4, BecomesOK DEF Go
  <2> QED
    BY Zenon, <1>3, <1>4, <2>1, <2>5 DEF BeginStopping
<1>5. CASE StopAndReap(t)
  <2>1. th[t].kind \in Terminals /\ "Lost" \in Terminals
    BY <1>0 DEF Thread, Terminals, Proven
  <2> QED
    BY Zenon, <1>3, <1>5, <2>1 DEF StopAndReap
<1>6. CASE Reread(t)
  <2> DEFINE local == [th[t] EXCEPT !.pc = "seal", !.text = "routed"]
  <2>1. th[t].outcome \in Outcomes
    BY <1>0, <1>6 DEF Reread, At, Ready, Decided
  <2>2. "seal" \in Places
    BY DEF Places, FinishPlaces
  <2>3. local \in Thread /\ local.pc = "seal" /\ local.outcome \in Outcomes
    BY Zenon, <1>0, <2>1, <2>2, ResultNames DEF Thread
  <2>4. Ready(local)
    BY <2>3 DEF Ready, Decided, Stopping, Delivering
  <2> QED
    BY <1>0, <1>6, <2>1, <2>3, <2>4, UnstartedOK, BecomesOK DEF Reread
<1>7. CASE Adjudicate(t)
  <2> DEFINE stopped == [th[t] EXCEPT !.pc = "stop", !.outcome = "CANCELLED",
                                      !.kind = "Stopped", !.next = "seal"]
             sealed(o) == [th[t] EXCEPT !.pc = "seal", !.outcome = o]
  <2>1. "stop" \in Places /\ "seal" \in Places /\ "seal" \in Returns
    BY DEF Places, FinishPlaces, Returns
  <2>2. /\ stopped \in Thread /\ stopped.pc = "stop" /\ stopped.next = "seal"
        /\ stopped.outcome = "CANCELLED"
    BY Zenon, <1>0, <2>1, ResultNames DEF Thread
  <2>3. Ready(stopped)
    BY <2>2, ResultNames DEF Ready, Decided, Stopping, Delivering
  <2>4. ASSUME NEW o \in Outcomes
        PROVE  sealed(o) \in Thread /\ Ready(sealed(o))
    <3>1. /\ sealed(o) \in Thread /\ sealed(o).pc = "seal"
          /\ sealed(o).outcome = o
      BY Zenon, <1>0, <2>1, <2>4 DEF Thread
    <3> QED
      BY <3>1 DEF Ready, Decided, Stopping, Delivering
  <2>5. Meanings(th[t].terminal, th[t].kind) \subseteq Outcomes
    BY ResultNames DEF Meanings
  <2>6. th[t].outcome # None => th[t].outcome \in Outcomes
    BY <1>0 DEF Thread
  <2>7. ASSUME NEW meant \in Meanings(th[t].terminal, th[t].kind), NEW failed \in BOOLEAN,
               Becomes(t, sealed(IF th[t].outcome # None THEN th[t].outcome
                                 ELSE IF failed THEN "RUNTIME_LOST" ELSE meant))
        PROVE  ThreadsOK'
    <3> DEFINE o == IF th[t].outcome # None THEN th[t].outcome
                    ELSE IF failed THEN "RUNTIME_LOST" ELSE meant
    <3>1. o \in Outcomes
      BY <2>5, <2>6, ResultNames
    <3>2. sealed(o) \in Thread /\ Ready(sealed(o))
      BY Zenon, <2>4, <3>1
    <3> QED
      BY <1>0, <2>7, <3>2, BecomesOK
  <2>8. Becomes(t, stopped) => ThreadsOK'
    BY <1>0, <2>2, <2>3, BecomesOK
  <2> QED
    BY Zenon, <1>0, <1>a, <1>7, <2>7, <2>8, GoOK DEF Adjudicate
<1>8. CASE Seal(t)
  <2> DEFINE local == [th[t] EXCEPT !.pc = "record", !.text = "routed"]
  <2>1. th[t].outcome \in Outcomes
    BY <1>0, <1>8 DEF Seal, At, Ready, Decided
  <2>2. "record" \in Places
    BY DEF Places, FinishPlaces
  <2>3. local \in Thread /\ local.pc = "record" /\ local.outcome \in Outcomes
    BY Zenon, <1>0, <2>1, <2>2, ResultNames DEF Thread
  <2>4. Ready(local)
    BY <2>3 DEF Ready, Decided, Stopping, Delivering
  <2> QED
    BY <1>0, <1>8, <2>3, <2>4, BecomesOK DEF Seal
<1>9. ASSUME NEW try \in {"sink", "direct", "invalid"}, th[t].pc \in Decided,
             Becomes(t, [th[t] EXCEPT !.pc = "persist", !.try = try])
      PROVE  ThreadsOK'
  <2> DEFINE local == [th[t] EXCEPT !.pc = "persist", !.try = try]
  <2>1. th[t].outcome \in Outcomes
    BY <1>0, <1>9 DEF Ready
  <2>2. "persist" \in Places
    BY DEF Places, FinishPlaces
  <2>3. local \in Thread /\ local.pc = "persist" /\ local.outcome \in Outcomes
    BY Zenon, <1>0, <2>1, <2>2 DEF Thread
  <2>4. Ready(local)
    BY <2>3 DEF Ready, Decided, Stopping, Delivering
  <2> QED
    BY <1>0, <1>9, <2>3, <2>4, BecomesOK
<1>10. /\ "record" \in Decided /\ "persist" \in Decided /\ "receipt" \in Decided
       /\ "precedence" \in Decided /\ "persist_cancelled" \in Decided
       /\ "refused" \in Decided
  BY DEF Decided
<1>11. CASE Record(t)
  BY <1>0, <1>a, <1>9, <1>10, <1>11, GoOK DEF Record, At
<1>12. CASE Persist(t) \/ Precedence(t) \/ PersistCancelled(t)
  BY <1>0, <1>10, <1>12, GoDecided DEF Persist, Precedence, PersistCancelled, At
<1>13. CASE AfterRefusal(t)
  BY <1>0, <1>a, <1>9, <1>10, <1>13, GoOK, GoDecided, SMTT(30) DEF AfterRefusal, FallBack, At, Go
<1>14. CASE Receipt(t)
  BY <1>0, <1>a, <1>9, <1>10, <1>14, GoOK DEF Receipt, FallBack, At
<1>15. CASE Release(t) \/ Unlock(t)
  BY <1>0, <1>15, IdleOK, BecomesOK DEF Release, Unlock
<1> QED
  BY <1>1, <1>2, <1>4, <1>5, <1>6, <1>7, <1>8, <1>11, <1>12, <1>13, <1>14, <1>15
     DEF Finish

LEMMA DeliverThreads ==
  ASSUME SchedulerInv, NEW t \in Threads, Deliver(t)
  PROVE  ThreadsOK'
<1>0. ThreadsOK /\ th[t] \in Thread /\ Ready(th[t])
  BY DEF SchedulerInv, ThreadsOK
<1>1. ASSUME NEW result \in {"some", "none", "error"}, Becomes(t, Continue(t, result))
      PROVE  ThreadsOK'
  BY <1>0, <1>1, ContinueOK, BecomesOK
<1>2. ASSUME NEW pc \in Delivering, NEW m \in MessageIds,
             Becomes(t, [th[t] EXCEPT !.pc = pc, !.message = m])
      PROVE  ThreadsOK'
  <2> DEFINE local == [th[t] EXCEPT !.pc = pc, !.message = m]
  <2>1. pc \in Places
    BY DEF Places, DeliverPlaces, Delivering
  <2>2. local \in Thread /\ local.pc = pc /\ local.message = m
    BY Zenon, <1>0, <2>1 DEF Thread
  <2>3. Ready(local)
    BY <2>2 DEF Ready, Decided, Stopping, Delivering
  <2> QED
    BY <1>0, <1>2, <2>2, <2>3, BecomesOK
<1>3. CASE ClaimMessage(t)
  <2>1. "hand_over" \in Delivering
    BY DEF Delivering
  <2> QED
    BY Zenon, <1>1, <1>2, <1>3, <2>1 DEF ClaimMessage
<1>4. CASE HandOver(t)
  <2>1. th[t].message \in MessageIds
    BY <1>0, <1>4 DEF HandOver, At, Ready, Delivering
  <2>2. ASSUME NEW pc \in Delivering, Go(t, pc) PROVE ThreadsOK'
    <3>1. [th[t] EXCEPT !.pc = pc] = [th[t] EXCEPT !.pc = pc, !.message = th[t].message]
      BY Zenon, <1>0 DEF Thread
    <3> QED
      BY Zenon, <1>2, <2>1, <2>2, <3>1 DEF Go
  <2>3. "fail_message" \in Delivering /\ "settle_message" \in Delivering
    BY DEF Delivering
  <2> QED
    BY <1>4, <2>2, <2>3 DEF HandOver
<1>5. CASE SettleMessage(t)
  BY <1>1, <1>5 DEF SettleMessage
<1> QED
  BY <1>3, <1>4, <1>5 DEF Deliver

LEMMA MonitorThreads ==
  ASSUME SchedulerInv, NEW e \in Runs, NEW t \in Threads, Monitor(t, e)
  PROVE  ThreadsOK'
<1>0. ThreadsOK /\ th[t] \in Thread /\ e \in Epochs /\ e \in Nat
  BY Constants DEF SchedulerInv, ThreadsOK
<1>a. /\ "fault" \in Places \ Special /\ "sink_failed" \in Places \ Special
      /\ "force" \in Places \ Special /\ "watch" \in Places \ Special
      /\ "release" \in Places \ Special /\ "adjudicate" \in Places \ Special
      /\ "unlock" \in Places \ Special /\ "deliver" \in Places \ Special
  BY FreePlaces DEF MonitorPlaces
<1>b. /\ "monitor" \in Places /\ "ended" \in Places /\ "boundary" \in Places
      /\ "commit_fault" \in Places /\ "adjudicate" \in Places /\ "stop" \in Places
      /\ "deliver" \in Places
      /\ "Completed" \in Returns /\ "FailedTurn" \in Returns
      /\ "adjudicate" \in Returns /\ "terminal" \in Returns
  BY DEF Places, MonitorPlaces, FinishPlaces, DeliverPlaces, Returns
<1>1. CASE Watch(t, e)
  <2> DEFINE local == [IdleThread EXCEPT !.pc = "monitor", !.epoch = e, !.gate = e]
  <2>1. local \in Thread /\ local.pc = "monitor"
    BY Zenon, <1>0, <1>b, IdleOK DEF Thread
  <2>2. Ready(local)
    BY <2>1 DEF Ready, Decided, Stopping, Delivering
  <2> QED
    BY <1>0, <1>1, <2>1, <2>2, BecomesOK DEF Watch
<1>2. CASE Observe(t, e)
  <2> DEFINE ended == [th[t] EXCEPT !.pc = "ended", !.terminal = owner[e]]
             boundary(r) == [th[t] EXCEPT !.pc = "boundary", !.next = r]
  <2>1. ASSUME owner[e] \in Terminals, Becomes(t, ended) PROVE ThreadsOK'
    <3>1. ended \in Thread /\ ended.pc = "ended"
      BY Zenon, <1>0, <1>b, <2>1 DEF Thread
    <3>2. Ready(ended)
      BY <3>1 DEF Ready, Decided, Stopping, Delivering
    <3> QED
      BY <1>0, <2>1, <3>1, <3>2, BecomesOK
  <2>2. ASSUME NEW r \in {"Completed", "FailedTurn"}, Becomes(t, boundary(r))
        PROVE  ThreadsOK'
    <3>1. boundary(r) \in Thread /\ boundary(r).pc = "boundary"
      BY Zenon, <1>0, <1>b, <2>2 DEF Thread
    <3>2. Ready(boundary(r))
      BY <3>1 DEF Ready, Decided, Stopping, Delivering
    <3> QED
      BY <1>0, <2>2, <3>1, <3>2, BecomesOK
  <2> QED
    BY Zenon, <1>0, <1>a, <1>2, <2>1, <2>2, GoOK DEF Observe
<1>3. CASE HandleTransportFailure(t, e) \/ CommitFault(t, e)
  BY <1>0, <1>a, <1>3, GoOK DEF HandleTransportFailure, CommitFault
<1>4. CASE ForceCleanup(t, e)
  <2> DEFINE local(f) == [th[t] EXCEPT !.pc = "commit_fault", !.terminal = f,
                                       !.outcome = "FAILED"]
  <2>1. ASSUME NEW f \in {"Stopped", "Lost"}, Becomes(t, local(f)) PROVE ThreadsOK'
    <3>1. f \in Terminals
      BY DEF Terminals, Proven
    <3>2. local(f) \in Thread /\ local(f).pc = "commit_fault"
      BY Zenon, <1>0, <1>b, <3>1, ResultNames DEF Thread
    <3>3. Ready(local(f))
      BY <3>2 DEF Ready, Decided, Stopping, Delivering
    <3> QED
      BY <1>0, <2>1, <3>2, <3>3, BecomesOK
  <2> QED
    BY Zenon, <1>4, <2>1 DEF ForceCleanup
<1>5. CASE TerminalPublished(t, e)
  <2> DEFINE finished == [th[t] EXCEPT !.pc = "adjudicate", !.kind = "Completed"]
             flushing == [th[t] EXCEPT !.pc = "deliver", !.next = "terminal"]
  <2>1. finished \in Thread /\ finished.pc = "adjudicate"
    BY Zenon, <1>0, <1>b DEF Thread
  <2>2. Ready(finished)
    BY <2>1 DEF Ready, Decided, Stopping, Delivering
  <2>3. flushing \in Thread /\ flushing.pc = "deliver"
    BY Zenon, <1>0, <1>b DEF Thread
  <2>4. Ready(flushing)
    BY <2>3 DEF Ready, Decided, Stopping, Delivering
  <2>5. (Becomes(t, finished) \/ Becomes(t, flushing)) => ThreadsOK'
    BY <1>0, <2>1, <2>2, <2>3, <2>4, BecomesOK
  <2>6. ASSUME NEW pc \in {"watch", "unlock", "adjudicate"}, Go(t, pc) PROVE ThreadsOK'
    BY <1>0, <1>a, <2>6, GoOK
  <2> QED
    BY <1>5, <2>5, <2>6 DEF TerminalPublished, NaturalCompletion
<1>6. CASE SinkFailed(t, e)
  <2> DEFINE local == [th[t] EXCEPT !.pc = "stop", !.outcome = "RUNTIME_LOST",
                                    !.kind = "Stopped", !.next = "adjudicate"]
  <2>1. local \in Thread /\ local.pc = "stop" /\ local.next = "adjudicate"
    BY Zenon, <1>0, <1>b, ResultNames DEF Thread
  <2>2. Ready(local)
    BY <2>1 DEF Ready, Decided, Stopping, Delivering
  <2> QED
    BY <1>0, <1>6, <2>1, <2>2, BecomesOK DEF SinkFailed
<1>7. CASE TurnBoundary(t, e)
  <2>1. Becomes(t, Continue(t, "none")) => ThreadsOK'
    BY <1>0, ContinueOK, BecomesOK
  <2>2. ASSUME NEW pc \in {"watch", "unlock", "deliver"}, Go(t, pc) PROVE ThreadsOK'
    BY <1>0, <1>a, <2>2, GoOK
  <2> QED
    BY <1>7, <2>1, <2>2 DEF TurnBoundary, NaturalCompletion
<1> QED
  BY <1>1, <1>2, <1>3, <1>4, <1>5, <1>6, <1>7 DEF Monitor

LEMMA FailClosedOK ==
  ASSUME SchedulerInv, NEW t \in Threads, Becomes(t, FailClosed(t))
  PROVE  ThreadsOK'
<1>0. ThreadsOK /\ th[t] \in Thread /\ active \in Epochs
  BY DEF SchedulerInv, ThreadsOK, MemoryOK
<1>1. CASE active = th[t].epoch
  <2> DEFINE local == [CleanUp(t, "FAILED") EXCEPT !.gate = th[t].epoch]
  <2>1. CleanUp(t, "FAILED") \in Thread
    BY <1>0, CleanUpOK, ResultNames
  <2>2. local \in Thread
    BY <1>0, <1>1, <2>1 DEF Thread
  <2>3. local.pc = "cleanup" /\ local.outcome = "FAILED"
    BY <1>0 DEF Thread, CleanUp
  <2>4. Ready(local)
    BY <2>3, ResultNames DEF Ready, Decided, Stopping, Delivering
  <2> QED
    BY <1>0, <1>1, <2>2, <2>4, BecomesOK DEF FailClosed
<1>2. CASE active # th[t].epoch
  <2>1. "unlock" \in Places \ Special
    BY FreePlaces
  <2> QED
    BY <1>0, <1>2, <2>1, GoOK DEF FailClosed, Go
<1> QED
  BY <1>1, <1>2

LEMMA ControlThreads ==
  ASSUME SchedulerInv, NEW t \in Threads, Control(t)
  PROVE  ThreadsOK'
<1>0. /\ ThreadsOK /\ th[t] \in Thread /\ Ready(th[t])
      /\ active \in Epochs /\ active \in Nat
  BY Constants DEF SchedulerInv, ThreadsOK, MemoryOK
<1>a. /\ "lock" \in Places \ Special /\ "unlock" \in Places \ Special
      /\ "abandon" \in Places \ Special /\ "route" \in Places \ Special
  BY FreePlaces DEF CallerPlaces
<1>b. /\ "ask" \in Places /\ "shut" \in Places /\ "stop" \in Places
      /\ "lock" \in Returns /\ "unlock" \in Returns /\ "abandon" \in Returns
      /\ "seal" \in Returns
  BY DEF Places, CallerPlaces, FinishPlaces, Returns
<1>1. CASE LookUp(t)
  <2> DEFINE local == [IdleThread EXCEPT !.pc = "ask", !.epoch = active]
  <2>1. local \in Thread /\ local.pc = "ask"
    BY ZenonT(40), <1>0, <1>b, IdleOK DEF Thread
  <2>2. Ready(local)
    BY <2>1 DEF Ready, Decided, Stopping, Delivering
  <2> QED
    BY <1>0, <1>1, <2>1, <2>2, BecomesOK DEF LookUp
<1>2. CASE Ask(t)
  <2>1. AfterAsking(t) \in {"lock", "unlock", "abandon"}
    BY DEF AfterAsking
  <2>2. ASSUME NEW r \in {"lock", "unlock", "abandon"},
               Becomes(t, [th[t] EXCEPT !.pc = "shut", !.next = r])
        PROVE  ThreadsOK'
    <3> DEFINE local == [th[t] EXCEPT !.pc = "shut", !.next = r]
    <3>1. local \in Thread /\ local.pc = "shut" /\ local.next = r
      BY Zenon, <1>0, <1>b, <2>2 DEF Thread
    <3>2. Ready(local)
      BY <3>1 DEF Ready, Decided, Stopping, Delivering
    <3> QED
      BY <1>0, <2>2, <3>1, <3>2, BecomesOK
  <2>3. ASSUME NEW r \in {"lock", "unlock", "abandon"},
               Becomes(t, [th[t] EXCEPT !.pc = r])
        PROVE  ThreadsOK'
    BY <1>0, <1>a, <2>3, GoOK DEF Go
  <2> QED
    BY Zenon, <1>2, <2>1, <2>2, <2>3 DEF Ask
<1>3. CASE Shut(t)
  <2>1. th[t].next \in {"lock", "unlock", "abandon"}
    BY <1>0, <1>3 DEF Shut, At, Ready
  <2> QED
    BY <1>0, <1>a, <1>3, <2>1, GoOK, SMTT(30) DEF Shut
<1>4. CASE Abandon(t)
  BY <1>0, <1>4, UnstartedOK, IdleOK, BecomesOK, ResultNames, SMTT(30) DEF Abandon
<1>5. CASE LockForStop(t)
  BY <1>0, <1>a, <1>5, GoOK, FailClosedOK DEF LockForStop
<1>6. CASE Route(t)
  <2> DEFINE local == [th[t] EXCEPT !.pc = "stop", !.gate = active, !.kind = "Stopped",
                                    !.outcome = "CANCELLED", !.next = "seal"]
  <2>1. /\ local \in Thread /\ local.pc = "stop" /\ local.next = "seal"
        /\ local.outcome = "CANCELLED"
    BY Zenon, <1>0, <1>b, ResultNames DEF Thread
  <2>2. Ready(local)
    BY <2>1, ResultNames DEF Ready, Decided, Stopping, Delivering
  <2> QED
    BY <1>0, <1>a, <1>6, <2>1, <2>2, GoOK, BecomesOK DEF Route
<1> QED
  BY <1>1, <1>2, <1>3, <1>4, <1>5, <1>6 DEF Control

LEMMA RespondThreads ==
  ASSUME SchedulerInv, NEW t \in Threads, Respond(t)
  PROVE  ThreadsOK'
<1>0. ThreadsOK /\ th[t] \in Thread /\ active \in Epochs /\ active \in Nat
  BY Constants DEF SchedulerInv, ThreadsOK, MemoryOK
<1>a. /\ "check_answer" \in Places \ Special /\ "claim_answer" \in Places \ Special
      /\ "verify_answer" \in Places \ Special /\ "answer" \in Places \ Special
      /\ "take_back" \in Places \ Special /\ "fail_closed" \in Places \ Special
      /\ "complete_answer" \in Places \ Special /\ "unlock" \in Places \ Special
  BY FreePlaces DEF CallerPlaces
<1>1. CASE FindRequest(t)
  <2> DEFINE local == [IdleThread EXCEPT !.pc = "lock_answer", !.epoch = active]
  <2>1. "lock_answer" \in Places
    BY DEF Places, CallerPlaces
  <2>2. local \in Thread /\ local.pc = "lock_answer"
    BY Zenon, <1>0, <2>1, IdleOK DEF Thread
  <2>3. Ready(local)
    BY <2>2 DEF Ready, Decided, Stopping, Delivering
  <2> QED
    BY <1>0, <1>1, <2>2, <2>3, BecomesOK DEF FindRequest
<1>2. CASE LockForAnswer(t)
  BY <1>0, <1>a, <1>2, GoOK, IdleOK, BecomesOK DEF LockForAnswer
<1>3. CASE FailClosedAnswer(t)
  BY <1>3, FailClosedOK DEF FailClosedAnswer
<1>4. CASE CheckAnswer(t) \/ ClaimAnswer(t) \/ VerifyAnswer(t)
  BY <1>0, <1>a, <1>4, GoOK DEF CheckAnswer, ClaimAnswer, VerifyAnswer
<1>5. CASE Answer(t) \/ TakeBack(t) \/ CompleteAnswer(t)
  BY <1>0, <1>a, <1>5, GoOK DEF Answer, TakeBack, CompleteAnswer
<1> QED
  BY <1>1, <1>2, <1>3, <1>4, <1>5 DEF Respond

LEMMA SendThreads ==
  ASSUME SchedulerInv, NEW t \in Threads, Send(t)
  PROVE  ThreadsOK'
<1>0. ThreadsOK /\ th[t] \in Thread /\ active \in Epochs /\ active \in Nat
  BY Constants DEF SchedulerInv, ThreadsOK, MemoryOK
<1>a. /\ "check_send" \in Places \ Special /\ "insert" \in Places \ Special
      /\ "unlock" \in Places \ Special /\ "deliver" \in Places \ Special
  BY FreePlaces DEF CallerPlaces
<1>1. CASE Resume(t)
  BY <1>0, <1>1 DEF Resume, ThreadsOK
<1>2. CASE FindRun(t)
  <2>1. ASSUME NEW pc \in {"check_send", "lock_send"},
               Becomes(t, [IdleThread EXCEPT !.pc = pc, !.epoch = active,
                                             !.next = "sending"])
        PROVE  ThreadsOK'
    <3> DEFINE local == [IdleThread EXCEPT !.pc = pc, !.epoch = active,
                                           !.next = "sending"]
    <3>1. pc \in Places /\ "sending" \in Returns
      BY DEF Places, CallerPlaces, Returns
    <3>2. local \in Thread /\ local.pc = pc
      BY Zenon, <1>0, <3>1, IdleOK DEF Thread
    <3>3. Ready(local)
      BY <3>2 DEF Ready, Decided, Stopping, Delivering
    <3> QED
      BY <1>0, <2>1, <3>2, <3>3, BecomesOK
  <2> QED
    BY Zenon, <1>2, <2>1 DEF FindRun
<1>3. CASE LockForSend(t)
  BY <1>0, <1>a, <1>3, GoOK, IdleOK, BecomesOK, SMTT(30) DEF LockForSend
<1>4. CASE CheckSend(t) \/ Flush(t)
  BY <1>0, <1>a, <1>4, GoOK DEF CheckSend, Flush
<1>5. CASE Insert(t)
  <2>1. ASSUME NEW pc \in {"flush", "unlock"}, NEW m \in MessageIds,
               Becomes(t, [th[t] EXCEPT !.pc = pc, !.own = m])
        PROVE  ThreadsOK'
    <3> DEFINE local == [th[t] EXCEPT !.pc = pc, !.own = m]
    <3>1. pc \in Places
      BY DEF Places, CallerPlaces, FinishPlaces
    <3>2. local \in Thread /\ local.pc = pc
      BY Zenon, <1>0, <3>1 DEF Thread
    <3>3. Ready(local)
      BY <3>2 DEF Ready, Decided, Stopping, Delivering
    <3> QED
      BY <1>0, <2>1, <3>2, <3>3, BecomesOK
  <2> QED
    BY Zenon, <1>0, <1>a, <1>5, <2>1, GoOK DEF Insert
<1> QED
  BY <1>1, <1>2, <1>3, <1>4, <1>5 DEF Send

LEMMA OtherThreads ==
  ASSUME TypeOK, SchedulerInv, NEW e \in Runs, NEW t \in Threads,
         Submit \/ StartReady(e) \/ Runtime(e) \/ GiveUp(t) \/ KillStarting(t)
  PROVE  ThreadsOK'
<1>0. ThreadsOK /\ th[t] \in Thread /\ e \in Epochs /\ e \in Nat
  BY Constants DEF SchedulerInv, ThreadsOK
<1>1. CASE StartReady(e)
  <2> DEFINE local == [IdleThread EXCEPT !.pc = "prepare", !.epoch = e, !.gate = e]
  <2>1. "prepare" \in Places /\ RunThread(e) \in Threads
    BY DEF Places, StartPlaces, Threads
  <2>2. local \in Thread /\ local.pc = "prepare"
    BY Zenon, <1>0, <2>1, IdleOK DEF Thread
  <2>3. Ready(local)
    BY <2>2 DEF Ready, Decided, Stopping, Delivering
  <2> QED
    BY <1>0, <1>1, <2>1, <2>2, <2>3, BecomesOK DEF StartReady
<1>2. CASE GiveUp(t)
  <2> DEFINE local == [IdleThread EXCEPT !.pc = "kill", !.epoch = row.owner_epoch]
  <2>1. row.owner_epoch \in Nat
    BY Constants DEF TypeOK, Row, row
  <2>2. "kill" \in Places
    BY DEF Places, CallerPlaces
  <2>3. local \in Thread /\ local.pc = "kill"
    BY Zenon, <2>1, <2>2, IdleOK DEF Thread
  <2>4. Ready(local)
    BY <2>3 DEF Ready, Decided, Stopping, Delivering
  <2> QED
    BY <1>0, <1>2, <2>3, <2>4, UnstartedOK, BecomesOK, ResultNames DEF GiveUp
<1>3. CASE KillStarting(t)
  BY <1>0, <1>3, IdleOK, BecomesOK DEF KillStarting
<1>4. CASE Submit \/ Runtime(e)
  BY Zenon, <1>0, <1>4 DEF ThreadsOK, Submit, Runtime, FirstTurnStarts, TurnEnds,
     ProcessDies, PublishExit, EmitRequest, InsertRequest, DropRequest, EmitRecord
<1> QED
  BY <1>1, <1>2, <1>3, <1>4
=============================================================================
