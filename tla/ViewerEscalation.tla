-------------------------- MODULE ViewerEscalation --------------------------
(***************************************************************************)
(* When does viewerSession give up the direct path?  This module puts the  *)
(* relay-only policy of cmd/dav-client/main.go on top of ViewerSession:    *)
(* the Connected branch of the state callback, classifyAndMaybeEscalate    *)
(* and the SDP-race stamp of handleSignal.  Every step is a step of        *)
(* ViewerSession together with what it does to the policy, or a step of a  *)
(* Connected callback.  Time is whether the last SDP race is still inside  *)
(* sdpRaceWindow.                                                          *)
(***************************************************************************)
EXTENDS ViewerSession, FiniteSets

VARIABLES
  fails, relayOnly,   \* consecutiveFails, relayOnly
  race,               \* lastSDPRaceUnixNano is less than sdpRaceWindow ago
  okcbs,              \* Connected callbacks in flight: <<epoch, step>>
  failedPCs           \* history: the PeerConnections that ever went to Failed

policy == <<fails, relayOnly, race, okcbs>>

EscInit ==
  /\ Init
  /\ fails = 0 /\ relayOnly = FALSE /\ race = FALSE   \* no -force-relay
  /\ okcbs = {} /\ failedPCs = {}

-----------------------------------------------------------------------------
\* pion reports Connected, in a goroutine of its own.
EscConnects(e) ==
  /\ IceConnects(e)
  /\ okcbs' = okcbs \cup {<<e, "check">>}
  /\ UNCHANGED <<fails, relayOnly, race>>

\* The callback's epoch check, under mu.
ConnectedCheck(e) ==
  /\ Alive /\ <<e, "check">> \in okcbs
  /\ okcbs' = (okcbs \ {<<e, "check">>})
                \cup (IF epoch = e THEN {<<e, "act">>} ELSE {})
  /\ UNCHANGED <<vars, fails, relayOnly, race>>

\* Connected: a working connection clears the failure counter.
ConnectedResets(e) ==
  /\ Alive /\ <<e, "act">> \in okcbs
  /\ okcbs' = okcbs \ {<<e, "act">>}
  /\ fails' = 0
  /\ UNCHANGED <<vars, relayOnly, race>>

\* classifyAndMaybeEscalate: a Failed soon after an SDP race is not counted;
\* the second one counted since the last reset latches relay-only.
Classify ==
  IF race THEN UNCHANGED <<fails, relayOnly>>
  ELSE /\ fails' = fails + 1
       /\ relayOnly' = (relayOnly \/ fails + 1 >= 2)

\* Faulty variant: Closed is classified like Failed.
EscTerminalClassifiesBoth(e, st) ==
  /\ CallbackTerminal(e, st)
  /\ Classify
  /\ UNCHANGED <<race, okcbs>>

\* Failed classifies before it asks for a rebuild; Closed only asks.
EscTerminal(e, st) ==
  /\ CallbackTerminal(e, st)
  /\ IF st = "failed" THEN Classify ELSE UNCHANGED <<fails, relayOnly>>
  /\ UNCHANGED <<race, okcbs>>

\* handleSignal: applying an answer to a PC that is in stable state (it has its
\* answer, or no offer yet) is an InvalidModification error and is stamped as
\* an SDP race; a closed PC answers with a different error.
EscSignalApply(a) ==
  /\ SignalApply(a)
  /\ race' = (race \/ pcst[sig] \notin {"offered", "closed"})
  /\ UNCHANGED <<fails, relayOnly, okcbs>>

\* sdpRaceWindow passes.
RaceWindowEnds ==
  /\ Alive /\ race
  /\ race' = FALSE
  /\ UNCHANGED <<vars, fails, relayOnly, okcbs>>

\* The other steps of ViewerSession; proxies, which only read what the session
\* publishes, are left out.
Unrelated ==
  \/ Rebuild \/ RebuildNewFails \/ RebuildOffer \/ RebuildOfferFails
  \/ RebuildSend \/ RebuildSendFails \/ RetryAfterSleep
  \/ \E e \in Epoch :
       \/ OnOpen(e) \/ Watchdog(e) \/ DataChannelOpens(e) \/ SessionDies(e) \/ IceFails(e)
       \/ \E st \in Terminal : CallbackCheck(e, st)
  \/ SignalReady \/ SignalTake

EscStep ==
  \/ \E e \in Epoch :
       \/ EscConnects(e) \/ ConnectedCheck(e) \/ ConnectedResets(e)
       \/ EscSignalApply(e)
       \/ \E st \in Terminal : EscTerminal(e, st)
  \/ RaceWindowEnds
  \/ Unrelated /\ UNCHANGED policy

EscNext == EscStep /\ failedPCs' = failedPCs \cup {e \in Epoch : pcst'[e] = "failed"}

EscSpec == EscInit /\ [][EscNext]_<<vars, policy, failedPCs>>

-----------------------------------------------------------------------------
\* "Direct path can have one bad day" (classifyAndMaybeEscalate's comment): one
\* PeerConnection that fails never forces the relay, however its callbacks are
\* delayed and whatever closing it reports on top.
OneFailureIsNotEnough == relayOnly => Cardinality(failedPCs) >= 2

=============================================================================
