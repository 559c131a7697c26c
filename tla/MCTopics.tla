------------------------------ MODULE MCTopics ------------------------------
(***************************************************************************)
(* Topics of several shapes in one run.  A behaviour is one of one topic.  *)
(***************************************************************************)
EXTENDS Integers, Sequences

VARIABLES topic, mem, sb, pc, irr, preg, sreg, log, recv

all == <<topic, mem, sb, pc, irr, preg, sreg, log, recv>>

(* Two subscribers behind a ring of one slot.                              *)
FanIn == INSTANCE MCTopic
  WITH NumSubscribers <- 2, Depth <- 1, Reliable <- TRUE, Values <- {1, 2}, LowWords <- {0},
       StoreBufferCap <- 0, MaxPublish <- 2

(* A reliable topic and a gap-detecting one whose vCPUs sleep and wake.    *)
Waking == INSTANCE MCTopic
  WITH NumSubscribers <- 1, Depth <- 2, Reliable <- TRUE, Values <- {1}, LowWords <- {0},
       StoreBufferCap <- 0, MaxPublish <- 3
GapWaking == INSTANCE MCTopic
  WITH NumSubscribers <- 1, Depth <- 2, Reliable <- FALSE, Values <- {1}, LowWords <- {0},
       StoreBufferCap <- 0, MaxPublish <- 4

(* A gap-detecting topic on weakly ordered memory, lapped twice.           *)
Gap == INSTANCE MCTopic
  WITH NumSubscribers <- 1, Depth <- 2, Reliable <- FALSE, Values <- 1 .. 4, LowWords <- {0},
       StoreBufferCap <- 2, MaxPublish <- 4

MCInit ==
  \/ topic = "fan_in" /\ FanIn!Init
  \/ topic = "waking" /\ Waking!Init
  \/ topic = "gap" /\ Gap!Init
  \/ topic = "gap_waking" /\ GapWaking!Init

On(t, A) == topic = t /\ A /\ UNCHANGED topic

(* No interrupt but the wakes ends a hlt here: a lost wake is not made up. *)
FanInNext ==
  \/ FanIn!ProducerStep
  \/ \E s \in {1, 2} : FanIn!SubscriberStep(s)
  \/ \E c \in {0, 1, 2} : FanIn!WakeInterrupt(c)

MCNext ==
  \/ On("fan_in", FanInNext /\ FanIn!DistinctPayloads)
  \/ On("waking", Waking!Next)
  \/ On("gap", Gap!Next /\ Gap!DistinctPayloads)
  \/ On("gap_waking", GapWaking!Next)

(* The fairness of Topic for the topics that sleep.                        *)
MCSpec ==
  /\ MCInit /\ [][MCNext]_all
  /\ WF_all(On("waking", Waking!ProducerStep))
  /\ WF_all(On("waking", Waking!SubscriberStep(1)))
  /\ \A c \in {0, 1} : WF_all(On("waking", Waking!WakeInterrupt(c)))
  /\ WF_all(On("gap_waking", GapWaking!ProducerStep))
  /\ WF_all(On("gap_waking", GapWaking!SubscriberStep(1)))
  /\ \A c \in {0, 1} : WF_all(On("gap_waking", GapWaking!WakeInterrupt(c)))
-----------------------------------------------------------------------------
(* With two subscribers and a ring of one slot too, the memory agrees with *)
(* what was published and received (Topic's inductive invariant): the scan *)
(* of the cursors never misses the slower subscriber.                      *)
FanInReliable == topic = "fan_in" => FanIn!ReliableInv

(* Nobody sleeps through work: a halted producer really faces a full ring, *)
(* a halted subscriber has nothing to read, and the invariants that show   *)
(* it of each protocol hold (Topic).                                       *)
NoWakeLost ==
  /\ topic = "fan_in" => FanIn!NoLostAdvance /\ FanIn!AdvanceInv /\ FanIn!WakeInv
  /\ topic = "waking" =>
       /\ Waking!NoLostAdvance /\ Waking!NoLostWakeup
       /\ Waking!AdvanceInv /\ Waking!WakeInv
  /\ topic = "gap_waking" => GapWaking!NoLostWakeup /\ GapWaking!WakeInv

(* A subscriber of a gap-detecting topic that is not overtaken gets what   *)
(* was published, and no cursor moves back, a skipped gap included (Topic). *)
GapDeliverySound == [](topic = "gap" => Gap!DeliveredWhileKeptUp) /\ Gap!CursorsAdvance

(* Every message reaches the subscriber of a reliable topic, and the       *)
(* subscriber of a gap-detecting topic catches up (Topic).                 *)
MessagesArrive ==
  /\ topic = "waking" => Waking!EventuallyDelivered
  /\ topic = "gap_waking" => GapWaking!EventuallyCaughtUp
=============================================================================
