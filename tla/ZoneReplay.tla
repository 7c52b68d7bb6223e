------------------------------ MODULE ZoneReplay ------------------------------
(***************************************************************************)
(* A replay as a session serves it: the process engine's zone payloads     *)
(* (ZoneBook) are sorted by the time they become available and fed, candle *)
(* by candle, to a trigger engine of the replay's own, which then          *)
(* evaluates the candle (_enrich_replay_candles_chronologically of         *)
(* absorption/session_service.py).  The service does this when the replay  *)
(* is complete; because it takes a candle's payloads before the candle,    *)
(* and no later ones, the two are run in step here.                        *)
(*                                                                         *)
(* The payloads reach the engine through TriggerEngineSink                 *)
(* (process/sinks.py), which passes on refill payloads only.               *)
(***************************************************************************)
EXTENDS ZoneBook, TriggerEngine

VARIABLES
  inbox,      \* payloads of the candle that is being replayed
  st,         \* the trigger engine and the store of the enrichment
  barred,     \* history: cancelled zones no setup may be left of
  done        \* the candle that follows was the live one

replayVars == <<zoneVars, inbox, st, barred, done>>

(* A candle as the trigger engine sees it: its prices reach the edges of   *)
(* the bins in which there was a trade.                                    *)
Shape(c, bins) ==
  LET traded == {p \in Price : bins[p].buy + bins[p].sell > 0}
  IN [at |-> c,
      low |-> CHOOSE p \in traded : \A q \in traded : p <= q,
      high |-> 1 + CHOOSE p \in traded : \A q \in traded : p >= q,
      buys |-> {p \in traded : bins[p].buy > 0},
      sells |-> {p \in traded : bins[p].sell > 0}]

(* Mutant of Publish: the store of the enrichment is not told.             *)
PublishToEngine(s, payload) ==
  IF payload.zones = {} THEN s
  ELSE [s EXCEPT !.records = StoreRecords(@, payload.cancels, payload.zones)]

(* One payload: TriggerEngineSink.publish drops what is not a refill, the  *)
(* cancellations of a terminal among it; the setups of the store are       *)
(* dropped for every payload.                                              *)
Publish(s, payload) ==
  [s EXCEPT
     !.records = IF payload.zones = {} THEN @
                 ELSE StoreRecords(@, payload.cancels, payload.zones),
     !.setups = DropSetups(@, payload.cancels)]

PublishAll(s, payloads) ==
  LET after[i \in 0 .. Len(payloads)] ==
        IF i = 0 THEN s ELSE Publish(after[i - 1], payloads[i])
  IN after[Len(payloads)]

(* A zone's payload is available at its event, a terminal's cancellation   *)
(* when the candle closes.                                                 *)
ByAvailability(payloads) ==
  LET shows == {m \in ToSet(payloads) : m.zones # {}}
  IN Among(payloads, shows) \o Among(payloads, ToSet(payloads) \ shows)

Named(payloads) == UNION {payloads[i].cancels : i \in DOMAIN payloads}

ReplayInit ==
  /\ ZoneInit
  /\ inbox = <<>>
  /\ st = WithFreshStore(<<>>, {})
  /\ barred = {}
  /\ done = FALSE

(* An event of the replayed candle.                                        *)
ReplayEvent ==
  /\ ~done
  /\ OtherEvent \/ \E side \in Side, p \in Price : Refill(side, p)
  /\ inbox' = inbox \o out'
  /\ UNCHANGED <<st, barred, done>>

(* The candle closes: its payloads are published, then it is evaluated.    *)
(* Only the last closed candle has a live one behind it.                   *)
CloseCandle ==
  /\ ~done
  /\ NextCandle
  /\ done' \in BOOLEAN
  /\ LET live == IF done' THEN {Shape(candle + 1, foot')} ELSE {}
         published == PublishAll(st, ByAvailability(inbox))
     IN st' = Evaluate(published, Shape(candle, foot), live)
  /\ inbox' = <<>>
  /\ barred' = barred \union
               {z \in Named(inbox) :
                  \/ z.candle < candle
                  \/ \E i \in DOMAIN inbox : inbox[i].zones # {} /\ z \in inbox[i].cancels}

ReplayNext == ReplayEvent \/ CloseCandle

ReplaySpec == ReplayInit /\ [][ReplayNext]_replayVars

-----------------------------------------------------------------------------
(* No zone gives two setups or two entries, although the memory of refills *)
(* and the setups are separate stores.                                     *)
EnteredOnce == OncePerZone(st)

(* A zone that a later zone has cancelled, or a terminal of a later        *)
(* candle, waits for no entry any more.                                    *)
CancelledDropped ==
  \A i \in 1 .. Len(st.setups) : st.setups[i].zone \notin barred
=============================================================================
