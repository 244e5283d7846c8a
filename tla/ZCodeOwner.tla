---------------------------- MODULE ZCodeOwner ----------------------------
(***************************************************************************)
(* RuntimeOwner of external-daemon/src/lib.rs: the ZCode app server behind *)
(* the native frame codec.  Its turns are the provider's own turn events,  *)
(* observed by the tracker before the sink gets them; a permission request *)
(* is answered from the options its own parameters offered, kept in the    *)
(* OfferedPermissionCache from the request until the answer is written.    *)
(***************************************************************************)
EXTENDS OwnerProcess

CONSTANTS
  Keys,          \* wire ids of permission requests
  Fingerprints,  \* what a denied action is recognised by
  MaxOffers      \* MAX_PENDING_PERMISSION_RESPONSES

VARIABLES
  zcache,    \* OfferedPermissionCache: the offer under each key, the denied fingerprints
  zprov,     \* the provider (external)
  zcmd,      \* the call of send_turn, stop_turn or respond_request
  zanswers   \* the answers written to the child, in order

zvars == <<zcache, zprov, zcmd, zanswers>>

NoOffers == [offers |-> [k \in Keys |-> None], denied |-> {}]
ZIdle == [pc |-> "idle", gen |-> 0, key |-> None, offer |-> None, deny |-> FALSE, again |-> FALSE]

ZInit ==
  /\ zcache = NoOffers
  /\ zprov = [asked |-> 0, begun |-> 0, running |-> FALSE, asks |-> 0, greeted |-> FALSE,
              latest |-> [k \in Keys |-> 0]]
  /\ zcmd = ZIdle
  /\ zanswers = << >>

----------------------------------------------------------------------------
\* The provider (external): turns as asked, permission requests within them,
\* whose wire ids it may use again

Deliver(frame) ==
  /\ "leader" \in live
  /\ inbox' = Append(inbox, frame)
  /\ UNCHANGED <<live, pump, pub, turn, fin, forced, zcache, zcmd, zanswers>>

ZBegins ==
  /\ ~zprov.running /\ zprov.begun < zprov.asked
  /\ zprov' = [zprov EXCEPT !.begun = @ + 1, !.running = TRUE]
  /\ Deliver(Frame("started", zprov.begun + 1))

ZEnds(kind) ==
  /\ zprov.running
  /\ zprov' = [zprov EXCEPT !.running = FALSE]
  /\ Deliver(Frame(kind, zprov.begun))

\* an offer names its request (serial) and the action asked for; without both
\* an allow and a deny option it is unusable
ZAsks(key, fingerprint, usable) ==
  /\ zprov.running /\ zprov.asks < scope.asks
  /\ zprov' = [zprov EXCEPT !.asks = @ + 1, !.latest[key] = zprov.asks + 1]
  /\ Deliver(Frame("permission", [key |-> key, usable |-> usable,
               offer |-> [serial |-> zprov.asks + 1, print |-> fingerprint]]))

ZPreferences ==
  /\ ~zprov.greeted /\ zprov.begun = 0 /\ Fault("exit")
  /\ zprov' = [zprov EXCEPT !.greeted = TRUE]
  /\ Deliver(Frame("preferences", None))

----------------------------------------------------------------------------
\* The pump: spawn_event_pump


\* OfferedPermissionCache::observe: a key used again has no offer at all
CacheObserve(cache, r) ==
  LET reused == cache.offers[r.key] # None
      held == Cardinality({k \in Keys \ {r.key} : cache.offers[k] # None})
  IN  [cache EXCEPT !.offers[r.key] =
         IF ~reused /\ held < MaxOffers /\ r.usable THEN r.offer ELSE None]

ZPumpTakes ==
  /\ pump.pc = "recv" /\ inbox # << >> /\ Head(inbox).kind # "exit"
  /\ LET f == Head(inbox) IN
       /\ inbox' = Tail(inbox)
       /\ zcache' = IF f.kind = "permission" THEN CacheObserve(zcache, f.of) ELSE zcache
       /\ IF f.kind = "preferences" /\ "leader" \notin live
          THEN /\ pub' = PublishTerminal(pub, "EventStreamLost")
               /\ pump' = [pump EXCEPT !.pc = "done"]
               /\ UNCHANGED turn
          ELSE /\ turn' = Observe(turn, f.kind)
               /\ pump' = [pump EXCEPT !.pc = "emit", !.frame = f]
               /\ UNCHANGED pub
  /\ UNCHANGED <<live, fin, forced, zprov, zcmd, zanswers>>

ZPumpEmits ==
  /\ pump.pc = "emit"
  /\ pub' = EmitDriver(pub, pump.frame, None)
  /\ pump' = [pump EXCEPT !.pc = "recv"]
  /\ UNCHANGED <<live, inbox, turn, fin, forced, zvars>>

ZPumpEmitsExit == PumpEmitsExit /\ zcache' = NoOffers /\ UNCHANGED <<zprov, zcmd, zanswers>>
ZPumpLosesStream == PumpLosesStream /\ zcache' = NoOffers /\ UNCHANGED <<zprov, zcmd, zanswers>>

----------------------------------------------------------------------------
\* The command plane, one call at a time

\* send_turn_before: the request, then the turn it starts
ZSend ==
  /\ zcmd.pc = "idle" /\ zprov.asked < scope.turns /\ "leader" \in live
  /\ zcmd' = [ZIdle EXCEPT !.pc = "send", !.gen = turn.gen]
  /\ zprov' = [zprov EXCEPT !.asked = @ + 1]
  /\ UNCHANGED <<processVars, zcache, zanswers>>

ZSendReturns ==
  /\ zcmd.pc = "send" /\ StartedAfter(zcmd.gen)
  /\ zcmd' = ZIdle
  /\ UNCHANGED <<processVars, zcache, zprov, zanswers>>

\* stop_turn: nothing to do without a turn; else session/stop and its boundary
ZStopTurn ==
  /\ zcmd.pc = "idle" /\ turn.active /\ "leader" \in live
  /\ zcmd' = [ZIdle EXCEPT !.pc = "stop", !.gen = turn.gen]
  /\ UNCHANGED <<processVars, zcache, zprov, zanswers>>

ZStopTurnReturns ==
  /\ zcmd.pc = "stop" /\ SettledSince(zcmd.gen)
  /\ zcmd' = ZIdle
  /\ UNCHANGED <<processVars, zcache, zprov, zanswers>>

\* OfferedPermissionCache::response, read under the lock.  A denial needs an
\* action that can be recognised.
ZRespond(key, deny) ==
  /\ zcmd.pc = "idle"
  /\ zcache.offers[key] # None
  /\ deny => zcache.offers[key].print # None
  /\ zcmd' = [ZIdle EXCEPT !.pc = "write", !.key = key, !.offer = zcache.offers[key], !.deny = deny,
                           !.again = deny /\ zcache.offers[key].print \in zcache.denied]
  /\ UNCHANGED <<processVars, zcache, zprov, zanswers>>

\* respond_before; a failed write leaves the offer for another try
ZRespondWrites ==
  /\ zcmd.pc = "write" /\ "leader" \in live
  /\ zanswers' = Append(zanswers, [key |-> zcmd.key, serial |-> zcmd.offer.serial,
                                   print |-> zcmd.offer.print, deny |-> zcmd.deny,
                                   again |-> zcmd.again])
  /\ zcmd' = [zcmd EXCEPT !.pc = IF zcmd.deny THEN "record" ELSE "complete"]
  /\ UNCHANGED <<processVars, zcache, zprov>>

ZRespondRecords ==
  /\ zcmd.pc = "record"
  /\ zcache' = [zcache EXCEPT !.denied =
       IF zcache.offers[zcmd.key] # None /\ Cardinality(@) < MaxOffers
          /\ zcache.offers[zcmd.key].print # None
       THEN @ \cup {zcache.offers[zcmd.key].print} ELSE @]
  /\ zcmd' = [zcmd EXCEPT !.pc = "complete"]
  /\ UNCHANGED <<processVars, zprov, zanswers>>

ZRespondCompletes ==
  /\ zcmd.pc = "complete"
  /\ zcache' = [zcache EXCEPT !.offers[zcmd.key] = None]
  /\ zcmd' = ZIdle
  /\ UNCHANGED <<processVars, zprov, zanswers>>

\* a deadline, a refusal or a failed write ends the call
ZCallFails ==
  /\ Fault("time")
  /\ zcmd.pc \in {"send", "stop", "write"}
  /\ zcmd' = ZIdle
  /\ UNCHANGED <<processVars, zcache, zprov, zanswers>>

----------------------------------------------------------------------------
\* finish_turn is the monitor's, for the boundary its snapshot shows, under the
\* operation lock the delivery of a message holds too
ZFinishBegins ==
  /\ \/ FinishBegin(None)
     \/ /\ zcmd.pc \notin {"send", "stop"}
        /\ ~turn.active /\ turn.boundary # None /\ FinishBegin(turn.boundary)
  /\ UNCHANGED zvars

ZFinishPublishes == FinishPublish /\ zcache' = NoOffers /\ UNCHANGED <<zprov, zcmd, zanswers>>
ZCleanupReaps == CleanupReap /\ zcache' = NoOffers /\ UNCHANGED <<zprov, zcmd, zanswers>>

ZProvider ==
  \/ ZBegins \/ \E kind \in {"completed", "failed"} : ZEnds(kind)
  \/ \E k \in Keys, p \in Fingerprints \cup {None}, u \in BOOLEAN : ZAsks(k, p, u)
  \/ ZPreferences
ZCommands ==
  \/ ZSend \/ ZSendReturns \/ ZStopTurn \/ ZStopTurnReturns \/ ZCallFails
  \/ \E k \in Keys, d \in BOOLEAN : ZRespond(k, d)
  \/ ZRespondWrites \/ ZRespondRecords \/ ZRespondCompletes
ZProcess ==
  \/ \E code \in {"zero", "other"} : LeaderExits(code) /\ UNCHANGED zvars
  \/ KidExits /\ UNCHANGED zvars
  \/ PumpTakesExit /\ UNCHANGED zvars
  \/ ZPumpTakes \/ ZPumpEmits \/ ZPumpEmitsExit \/ ZPumpLosesStream
  \/ ZFinishBegins \/ (FinishReap /\ UNCHANGED zvars) \/ (FinishAwait /\ UNCHANGED zvars)
  \/ ZFinishPublishes
  \/ ZCleanupReaps \/ (CleanupPublish /\ UNCHANGED zvars)

ZNext == UNCHANGED scope /\ (ZProvider \/ ZCommands \/ ZProcess)

----------------------------------------------------------------------------
(***************************************************************************)
(* An answer goes to the request whose options it was taken from: when the *)
(* provider uses a wire id again, the options of the earlier request are   *)
(* never offered for the later one (OfferedPermissionCache::observe).      *)
(***************************************************************************)
NoStaleOffer ==
  \A k \in Keys : zcache.offers[k] # None =>
     /\ \A i \in 1..Len(zanswers) : zanswers[i].serial = zcache.offers[k].serial =>
           zcmd.pc \in {"record", "complete"} /\ zcmd.key = k
     /\ ~\E i \in 1..Len(pub.log) :
           /\ pub.log[i].kind = "permission" /\ pub.log[i].of.key = k
           /\ pub.log[i].of.offer.serial > zcache.offers[k].serial

(***************************************************************************)
(* No request is answered twice, and a denial is called repeated only when *)
(* a denial of the same action was written before (respond_request).       *)
(***************************************************************************)
AnswersFit ==
  /\ \A i, j \in 1..Len(zanswers) : i # j => zanswers[i].serial # zanswers[j].serial
  /\ \A i \in 1..Len(zanswers) : zanswers[i].again =>
       \E j \in 1..(i - 1) : zanswers[j].deny /\ zanswers[j].print = zanswers[i].print

=============================================================================
