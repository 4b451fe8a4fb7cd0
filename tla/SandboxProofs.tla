---- MODULE SandboxProofs ----
(***************************************************************************)
(* Theorems about where the commands of a run work: MicroVm, Network and   *)
(* Jobs, for any number of commands and connections, and Overlay, for any  *)
(* files, texts and edits.                                                 *)
(***************************************************************************)
EXTENDS MicroVm, Network, Jobs, Overlay, DataLemmas, TLAPS

----
(***************************************************************************)
(* MicroVm                                                                 *)
(***************************************************************************)
VmStates == {"none", "boots", "up", "killed", "refused"}
ShellStages == {"unused", "boots", "uploads", "kills", "runs", "ended"}

VmTypes ==
  /\ vm \in [Shells -> VmStates]
  /\ shell \in [Shells -> [at : ShellStages, in : Shells \union {NoVm}]]
  /\ slot \in Shells \union {NoVm} /\ filled \subseteq Shells

\* Each VM that may be there is known: its command makes it, or it is the session.
VmsKnown ==
  \A c \in Shells : vm[c] \in {"boots", "up"} /\ c \notin lost => c \in Creating \/ slot = c

\* Those that are made at the same time are lost, also the one that is the session.
MakersLost ==
  /\ \A c, d \in Creating : c # d => c \in lost
  /\ slot # NoVm => shell[slot].at \in {"runs", "ended"}
  /\ slot # NoVm /\ Creating # {} => slot \in lost

\* Where a command arrives the whole workspace is, if one VM at most can answer.
RunsInFilled ==
  provider = "e2b" \/ lost = {} =>
    /\ slot # NoVm => slot \in filled
    /\ \A c \in Shells : shell[c].at = "runs" => shell[c].in \in filled

\* Whatever is in the making or the session when the sandbox is closed is lost or killed.
ClosedAtRest ==
  box \in {"closing", "closed"} =>
    /\ Creating \subseteq lost
    /\ slot # NoVm => slot \in lost \/ vm[slot] \notin {"boots", "up"}

VmInv == VmTypes /\ VmsKnown /\ MakersLost /\ RunsInFilled /\ ClosedAtRest

LEMMA VmInitially == MicroVmInit => VmInv
BY DEF MicroVmInit, VmInv, VmTypes, VmStates, ShellStages, VmsKnown, MakersLost, RunsInFilled,
       ClosedAtRest, Creating

\* A command goes from one place to another.
LEMMA Moved ==
  ASSUME VmTypes, NEW c \in Shells, NEW place \in ShellStages, To(c, place)
  PROVE  /\ shell' \in [Shells -> [at : ShellStages, in : Shells \union {NoVm}]]
         /\ shell'[c].at = place
         /\ \A d \in Shells \ {c} : shell'[d] = shell[d]
BY DEF VmTypes, To

LEMMA MovedIn ==
  ASSUME VmTypes, NEW c \in Shells, NEW v \in Shells, RunIn(c, v)
  PROVE  /\ shell' \in [Shells -> [at : ShellStages, in : Shells \union {NoVm}]]
         /\ shell'[c].at = "runs" /\ shell'[c].in = v
         /\ \A d \in Shells \ {c} : shell'[d] = shell[d]
BY DEF VmTypes, RunIn, ShellStages

\* While nothing is lost no other VM than the one of the session, or the one that is
\* being made, can answer.
LEMMA OneAnswers ==
  ASSUME VmInv, NEW v \in Shells, provider = "e2b" \/ lost = {},
         slot = v \/ v \in Creating
  PROVE  Answering(v) = {v}
<1> SUFFICES ASSUME provider # "e2b" PROVE Up \subseteq {v}
  BY DEF Answering
<1>1. lost = {}
  OBVIOUS
<1> SUFFICES ASSUME NEW d \in Shells, vm[d] = "up", d # v PROVE FALSE
  BY DEF Up
<1>2. d \in Creating \/ slot = d
  BY <1>1 DEF VmInv, VmsKnown
<1>3. v \in Creating => d \notin Creating
  BY <1>1 DEF VmInv, MakersLost
<1>4. v # NoVm /\ d # NoVm
  BY MicroVmAssumption DEF MicroVmAssumption
<1>5. slot # NoVm => Creating = {}
  BY <1>1 DEF VmInv, MakersLost
<1> QED BY <1>2, <1>3, <1>4, <1>5

LEMMA Answerers ==
  ASSUME VmTypes, NEW v \in Shells
  PROVE  Answering(v) \subseteq Shells
BY DEF Answering, Up

LEMMA RunInSessionStep ==
  ASSUME VmInv, NEW c \in Shells, RunInSession(c)
  PROVE  VmInv'
<1>1. slot \in Shells /\ slot # NoVm /\ shell[c].at = "unused"
  BY DEF RunInSession, MayBegin, VmInv, VmTypes
<1>2. UNCHANGED <<provider, vm, filled, slot, box, lost>>
  BY DEF RunInSession
<1>3. PICK v \in Answering(slot) : RunIn(c, v)
  BY DEF RunInSession
<1>4. v \in Shells
  BY <1>1, <1>3, Answerers DEF VmInv
<1>5. /\ shell' \in [Shells -> [at : ShellStages, in : Shells \union {NoVm}]]
      /\ shell'[c].at = "runs" /\ shell'[c].in = v
      /\ \A d \in Shells \ {c} : shell'[d] = shell[d]
  BY <1>3, <1>4, MovedIn DEF VmInv
<1>6. Creating' = Creating
  BY <1>1, <1>5 DEF Creating
<1>7. RunsInFilled'
  <2> SUFFICES ASSUME provider = "e2b" \/ lost = {} PROVE RunsInFilled'
    BY <1>2 DEF RunsInFilled
  <2>1. v = slot
    BY <1>1, <1>3, OneAnswers
  <2> QED BY <1>1, <1>2, <1>5, <2>1 DEF VmInv, RunsInFilled
<1> QED
  BY <1>1, <1>2, <1>5, <1>6, <1>7 DEF VmInv, VmTypes, VmsKnown, MakersLost, ClosedAtRest

LEMMA BeginCreationStep ==
  ASSUME VmInv, NEW c \in Shells, BeginCreation(c)
  PROVE  VmInv'
<1>1. slot = NoVm /\ shell[c].at = "unused" /\ UNCHANGED <<provider, filled, slot, box>>
  BY DEF BeginCreation, MayBegin
<1>2. /\ shell' \in [Shells -> [at : ShellStages, in : Shells \union {NoVm}]]
      /\ shell'[c].at = "boots" /\ \A d \in Shells \ {c} : shell'[d] = shell[d]
  BY Moved DEF BeginCreation, VmInv, ShellStages
<1>3. Creating' = Creating \union {c} /\ c \notin Creating
  BY <1>1, <1>2 DEF Creating
<1>4. vm' = [vm EXCEPT ![c] = "boots"]
  BY DEF BeginCreation
<1>5. lost' = IF Creating = {} /\ box = "open" THEN lost ELSE lost \union Creating \union {c}
  BY DEF BeginCreation
<1>6. VmTypes' /\ VmsKnown'
  BY <1>1, <1>2, <1>3, <1>4, <1>5 DEF VmInv, VmTypes, VmsKnown, VmStates
<1>7. MakersLost'
  BY <1>1, <1>3, <1>5 DEF VmInv, MakersLost
<1>8. RunsInFilled' /\ ClosedAtRest'
  BY <1>1, <1>2, <1>3, <1>5 DEF VmInv, RunsInFilled, ClosedAtRest
<1> QED BY <1>6, <1>7, <1>8 DEF VmInv

\* The VM of a command comes up or not, and the command, if it waits, hears of it.
LEMMA BootsStep ==
  ASSUME VmInv, NEW c \in Shells, Boots(c) \/ BootFails(c)
  PROVE  VmInv'
<1>1. PICK how \in {"up", "killed"}, place \in {"uploads", "ended"} :
        /\ vm[c] = "boots" /\ vm' = [vm EXCEPT ![c] = how]
        /\ shell' = IF shell[c].at = "boots" THEN [shell EXCEPT ![c].at = place] ELSE shell
        /\ how = "up" => place = "uploads"
  BY DEF Boots, BootFails
<1>2. UNCHANGED <<provider, filled, slot, box, lost>>
  BY DEF Boots, BootFails
<1>3. /\ shell' \in [Shells -> [at : ShellStages, in : Shells \union {NoVm}]]
      /\ \A d \in Shells \ {c} : shell'[d] = shell[d]
      /\ shell[c].at = "boots" => shell'[c].at = place
      /\ shell[c].at # "boots" => shell'[c] = shell[c]
  BY <1>1 DEF VmInv, VmTypes, ShellStages
<1>4. /\ Creating' \subseteq Creating /\ Creating \ {c} \subseteq Creating'
      /\ how = "up" => Creating' = Creating
  BY <1>1, <1>3 DEF Creating
<1>5. VmTypes' /\ VmsKnown'
  BY <1>1, <1>2, <1>3, <1>4 DEF VmInv, VmTypes, VmsKnown, VmStates
<1>6. slot # NoVm => shell[slot].at # "boots" /\ slot \in Shells
  BY DEF VmInv, MakersLost, VmTypes
<1>7. MakersLost'
  BY <1>2, <1>3, <1>4, <1>6 DEF VmInv, MakersLost
<1>8. RunsInFilled'
  BY <1>1, <1>2, <1>3 DEF VmInv, RunsInFilled
<1>9. ClosedAtRest'
  BY <1>1, <1>2, <1>4, <1>6 DEF VmInv, VmTypes, ClosedAtRest
<1> QED BY <1>5, <1>7, <1>8, <1>9 DEF VmInv

\* The command goes on to the upload, or from it to the kill, and still makes its VM.
LEMMA StillMakingStep ==
  ASSUME VmInv, NEW c \in Shells, AnotherAnswers(c) \/ UploadFails(c)
  PROVE  VmInv'
<1>1. c \in Creating /\ shell[c].at \in {"boots", "uploads"}
  BY DEF AnotherAnswers, UploadFails, Creating
<1>2. UNCHANGED <<provider, vm, filled, slot, box, lost>>
  BY DEF AnotherAnswers, UploadFails
<1>3. PICK place \in {"uploads", "kills"} : To(c, place)
  BY DEF AnotherAnswers, UploadFails, AfterFailure
<1>4. /\ shell' \in [Shells -> [at : ShellStages, in : Shells \union {NoVm}]]
      /\ shell'[c].at = place /\ \A d \in Shells \ {c} : shell'[d] = shell[d]
  BY <1>3, Moved DEF VmInv, ShellStages
<1>5. Creating' = Creating
  BY <1>1, <1>4 DEF Creating
<1>6. slot # NoVm => slot # c /\ slot \in Shells
  BY <1>1 DEF VmInv, MakersLost, VmTypes
<1> QED
  BY <1>1, <1>2, <1>4, <1>5, <1>6
  DEF VmInv, VmTypes, VmsKnown, MakersLost, RunsInFilled, ClosedAtRest

\* The session that is replaced is one of those lost.
LEMMA UploadedStep ==
  ASSUME VmInv, NEW c \in Shells, Uploaded(c)
  PROVE  VmInv'
<1>1. shell[c].at = "uploads" /\ slot' = c /\ UNCHANGED <<provider, vm, box, lost>>
  BY DEF Uploaded
<1>2. PICK into \in Filling(c), v \in Answering(c) : filled' = filled \union into /\ RunIn(c, v)
  BY DEF Uploaded
<1>3. v \in Shells /\ into \subseteq Shells
  BY <1>2, Answerers DEF VmInv, Filling
<1>4. /\ shell' \in [Shells -> [at : ShellStages, in : Shells \union {NoVm}]]
      /\ shell'[c].at = "runs" /\ shell'[c].in = v
      /\ \A d \in Shells \ {c} : shell'[d] = shell[d]
  BY <1>2, <1>3, MovedIn DEF VmInv
<1>5. c \in Creating /\ Creating' = Creating \ {c}
  BY <1>1, <1>4 DEF Creating
<1>6. VmTypes' /\ VmsKnown'
  BY <1>1, <1>2, <1>3, <1>4, <1>5, MicroVmAssumption
  DEF MicroVmAssumption, VmInv, VmTypes, VmsKnown, MakersLost
<1>7. MakersLost'
  BY <1>1, <1>4, <1>5 DEF VmInv, MakersLost
<1>8. RunsInFilled'
  <2> SUFFICES ASSUME provider = "e2b" \/ lost = {} PROVE RunsInFilled'
    BY <1>1 DEF RunsInFilled
  <2>1. Answering(c) = {c}
    BY <1>5, OneAnswers
  <2>2. v = c /\ into = {c}
    BY <1>2, <2>1 DEF Filling
  <2> QED BY <1>1, <1>2, <1>4, <2>2 DEF VmInv, RunsInFilled
<1>9. ClosedAtRest'
  BY <1>1, <1>5 DEF VmInv, ClosedAtRest
<1> QED BY <1>6, <1>7, <1>8, <1>9 DEF VmInv

LEMMA KillVmStep ==
  ASSUME VmInv, NEW c \in Shells, KillVm(c)
  PROVE  VmInv'
<1>1. PICK how \in {"killed", "refused"} : vm' = [vm EXCEPT ![c] = how]
  BY DEF KillVm, KilledAs
<1>2. shell[c].at = "kills" /\ UNCHANGED <<provider, filled, slot, box, lost>>
  BY DEF KillVm
<1>3. /\ shell' \in [Shells -> [at : ShellStages, in : Shells \union {NoVm}]]
      /\ shell'[c].at = "ended" /\ \A d \in Shells \ {c} : shell'[d] = shell[d]
  BY Moved DEF KillVm, VmInv, ShellStages
<1>4. Creating' = Creating \ {c}
  BY <1>2, <1>3 DEF Creating
<1>5. slot # NoVm => slot # c /\ slot \in Shells
  BY <1>2 DEF VmInv, MakersLost, VmTypes
<1>6. VmTypes' /\ VmsKnown'
  BY <1>1, <1>2, <1>3, <1>4 DEF VmInv, VmTypes, VmsKnown, VmStates
<1>7. MakersLost' /\ RunsInFilled'
  BY <1>2, <1>3, <1>4, <1>5 DEF VmInv, MakersLost, RunsInFilled
<1>8. ClosedAtRest'
  BY <1>1, <1>2, <1>4, <1>5 DEF VmInv, VmTypes, ClosedAtRest
<1> QED BY <1>6, <1>7, <1>8 DEF VmInv

LEMMA ShellEndsStep ==
  ASSUME VmInv, NEW c \in Shells, ShellEnds(c)
  PROVE  VmInv'
<1>1. shell[c].at = "runs" /\ UNCHANGED <<provider, vm, filled, slot, box, lost>>
  BY DEF ShellEnds
<1>2. /\ shell' \in [Shells -> [at : ShellStages, in : Shells \union {NoVm}]]
      /\ shell'[c].at = "ended" /\ \A d \in Shells \ {c} : shell'[d] = shell[d]
  BY Moved DEF ShellEnds, VmInv, ShellStages
<1>3. Creating' = Creating
  BY <1>1, <1>2 DEF Creating
<1>4. slot # NoVm => slot \in Shells
  BY DEF VmInv, VmTypes
<1> QED
  BY <1>1, <1>2, <1>3, <1>4
  DEF VmInv, VmTypes, VmsKnown, MakersLost, RunsInFilled, ClosedAtRest

\* Whatever was in the making is lost, and nothing runs any more.
LEMMA CancelledStep ==
  ASSUME VmInv, AllCancelled, box' \in {box, "ending", "abandoned"}
  PROVE  VmInv'
<1>1. UNCHANGED <<provider, filled, slot>>
  BY DEF AllCancelled
<1>2. shell' = [c \in Shells |-> IF c \in Busy THEN [shell[c] EXCEPT !.at = "ended"] ELSE shell[c]]
  BY DEF AllCancelled
<1>3. lost' = lost \union Creating
  BY DEF AllCancelled
<1>4. PICK how \in [Shells -> VmStates] : (\A c \in Shells : how[c] \in LeftAs(c)) /\ vm' = how
  BY DEF AllCancelled, VmStates
<1>5. /\ shell' \in [Shells -> [at : ShellStages, in : Shells \union {NoVm}]]
      /\ \A c \in Shells : shell'[c].at = IF c \in Busy THEN "ended" ELSE shell[c].at
  BY <1>2 DEF VmInv, VmTypes, ShellStages
<1>6. Creating' = {} /\ \A c \in Shells : shell'[c].at # "runs"
  BY <1>5 DEF Creating, Busy
<1>7. \A c \in Shells : vm'[c] = vm[c] \/ c \in Creating
  BY <1>4 DEF LeftAs, Creating
<1>8. VmTypes'
  BY <1>1, <1>4, <1>5 DEF VmInv, VmTypes
<1>9. VmsKnown'
  BY <1>1, <1>3, <1>7 DEF VmInv, VmsKnown
<1>10. slot # NoVm => slot \in Shells /\ shell[slot].at \in {"runs", "ended"} /\ slot \notin Creating
  BY DEF VmInv, MakersLost, VmTypes, Creating
<1>11. MakersLost'
  BY <1>1, <1>5, <1>6, <1>10 DEF MakersLost
<1>12. RunsInFilled'
  BY <1>1, <1>3, <1>6 DEF VmInv, RunsInFilled
<1>13. ClosedAtRest'
  BY <1>1, <1>3, <1>6, <1>7, <1>10 DEF VmInv, ClosedAtRest
<1> QED BY <1>8, <1>9, <1>11, <1>12, <1>13 DEF VmInv

LEMMA CloseBoxStep ==
  ASSUME VmInv, CloseBox \/ ForgetSession
  PROVE  VmInv'
<1>1. CASE CloseBox
  <2>1. lost' = lost \union Creating /\ UNCHANGED <<provider, filled, shell, slot>>
    BY <1>1 DEF CloseBox
  <2>2. PICK how \in {"killed", "refused"} : vm' = IF slot = NoVm THEN vm ELSE [vm EXCEPT ![slot] = how]
    BY <1>1 DEF CloseBox, KilledAs
  <2>3. Creating' = Creating
    BY <2>1 DEF Creating
  <2>4. VmTypes' /\ VmsKnown'
    BY <2>1, <2>2, <2>3 DEF VmInv, VmTypes, VmsKnown, VmStates
  <2>5. MakersLost' /\ RunsInFilled'
    BY <2>1, <2>3 DEF VmInv, MakersLost, RunsInFilled
  <2>6. ClosedAtRest'
    BY <2>1, <2>2, <2>3 DEF VmInv, VmTypes, ClosedAtRest
  <2> QED BY <2>4, <2>5, <2>6 DEF VmInv
<1>2. CASE ForgetSession
  <2>1. box = "closing" /\ box' = "closed" /\ slot' = NoVm /\ UNCHANGED <<provider, vm, filled, shell, lost>>
    BY <1>2 DEF ForgetSession
  <2>2. Creating' = Creating
    BY <2>1 DEF Creating
  <2> QED
    BY <2>1, <2>2 DEF VmInv, VmTypes, VmsKnown, MakersLost, RunsInFilled, ClosedAtRest
<1> QED BY <1>1, <1>2

LEMMA VmStep == VmInv /\ [MicroVmNext]_vmVars => VmInv'
<1> SUFFICES ASSUME VmInv, [MicroVmNext]_vmVars PROVE VmInv'
  OBVIOUS
<1>1. CASE UNCHANGED vmVars
  BY <1>1 DEF vmVars, VmInv, VmTypes, VmsKnown, MakersLost, RunsInFilled, ClosedAtRest, Creating
<1>2. CASE CancelShells \/ CloseBox \/ ForgetSession \/ AbandonBox
  BY <1>2, CancelledStep, CloseBoxStep DEF CancelShells, AbandonBox
<1>3. ASSUME NEW c \in Shells,
             \/ RunInSession(c) \/ BeginCreation(c) \/ Boots(c) \/ AnotherAnswers(c) \/ BootFails(c)
             \/ Uploaded(c) \/ UploadFails(c) \/ KillVm(c) \/ ShellEnds(c)
      PROVE  VmInv'
  BY <1>3, RunInSessionStep, BeginCreationStep, BootsStep, StillMakingStep, UploadedStep,
     KillVmStep, ShellEndsStep
<1> QED BY <1>1, <1>2, <1>3 DEF MicroVmNext

\* A command runs only where the whole workspace was uploaded, unless a Firecracker VM was
\* lost.  When the sandbox is closed the only VMs left behind are those of commands
\* cancelled while they made one, or that made one at the same time as another or beside or
\* after the closing, and those the provider would not kill, for any number of commands
\* (microvm.py:355, 375, 388; firecracker.py:199, 391).
THEOREM NoVmLeft == MicroVmSpec => []NoVmIsLeft
<1>1. VmInv => NoVmIsLeft
  BY MicroVmAssumption
  DEF MicroVmAssumption, VmInv, VmsKnown, RunsInFilled, ClosedAtRest, NoVmIsLeft
<1> QED BY <1>1, VmInitially, VmStep, PTL DEF MicroVmSpec

----
(***************************************************************************)
(* Network                                                                 *)
(***************************************************************************)
BoxState ==
  [at : {"unused", "creates", "looksAgain", "starts", "launches", "waits", "stops", "returned"},
   net : {"none", "bridge", "bestEffort"}, container : {"none", "up", "exited", "gone"},
   proxy : {"none", "open", "closing", "closed"}]
RouteState ==
  [at : {"none", "asked", "dials", "tunnel", "forward", "closed", "direct"},
   token : BOOLEAN, listed : BOOLEAN, method : {"none", "connect", "get"},
   gone : BOOLEAN]

NetTypes ==
  /\ daemon \in {"creates", "refuses"}
  /\ boxed \in [Boxed -> BoxState]
  /\ route \in [Boxed -> [Links -> RouteState]]

\* Whoever looks a second time finds the bridge, unless Docker makes none.
BridgeWanted ==
  \A c \in Boxed :
    /\ boxed[c].at = "looksAgain" => bridge \/ daemon = "refuses"
    /\ boxed[c].net = "bestEffort" => daemon = "refuses"
    /\ boxed[c].proxy = "open" => boxed[c].at \in {"launches", "waits"}
    /\ boxed[c].at = "stops" => boxed[c].proxy = "closing"

\* A handler is at work only while run() waits for the command or for the proxy, or if it
\* was cut off or has nobody to answer.
RouteOK(c, k) ==
  /\ route[c][k].at \in Handled =>
       /\ boxed[c].at \in {"launches", "waits", "stops", "returned"}
       /\ boxed[c].at = "returned" => boxed[c].proxy = "closing" \/ route[c][k].gone
  /\ route[c][k].at \in {"dials", "tunnel", "forward"} => route[c][k].token /\ route[c][k].listed
  /\ route[c][k].at = "direct" => daemon = "refuses"
RoutesControlled == \A c \in Boxed, k \in Links : RouteOK(c, k)

NetInv == NetTypes /\ BridgeWanted /\ RoutesControlled

LEMMA NetInitially == NetInit => NetInv
BY DEF NetInit, NetInv, NetTypes, BridgeWanted, RoutesControlled, RouteOK, BoxState, RouteState,
       NoRoute, Handled

\* A step of one command: its own record changes, and its handlers stay covered.
LEMMA OneBoxed ==
  ASSUME NetInv, NEW c \in Boxed, NEW new \in BoxState, boxed' = [boxed EXCEPT ![c] = new],
         UNCHANGED <<daemon, route>>, bridge => bridge',
         new.at = "looksAgain" => bridge' \/ daemon = "refuses",
         new.net = "bestEffort" => daemon = "refuses",
         new.proxy = "open" => new.at \in {"launches", "waits"},
         new.at = "stops" => new.proxy = "closing",
         \/ new.at \in {"launches", "waits", "stops"}
         \/ new.at = boxed[c].at /\ new.proxy = boxed[c].proxy
         \/ new.at = "returned" /\ new.proxy = "closing"
         \/ new.at = "returned" /\ \A k \in Links : route[c][k].at \in Handled => route[c][k].gone
         \/ \A k \in Links : route[c][k].at \notin Handled
  PROVE  NetInv'
<1>1. boxed' \in [Boxed -> BoxState] /\ boxed'[c] = new /\ \A d \in Boxed \ {c} : boxed'[d] = boxed[d]
  BY DEF NetInv, NetTypes
<1>2. BridgeWanted'
  BY <1>1 DEF NetInv, BridgeWanted
<1>3. RoutesControlled'
  BY <1>1 DEF NetInv, RoutesControlled, RouteOK
<1> QED BY <1>1, <1>2, <1>3 DEF NetInv, NetTypes

\* No handler is at work before the proxy is there.
LEMMA Unhandled ==
  ASSUME NetInv, NEW c \in Boxed, boxed[c].at \notin {"launches", "waits", "stops", "returned"}
  PROVE  \A k \in Links : route[c][k].at \notin Handled
BY DEF NetInv, RoutesControlled, RouteOK

LEMMA BoxedStep ==
  ASSUME NetInv, NEW c \in Boxed,
         \/ InspectBridge(c) \/ CreateBridge(c) \/ InspectAgain(c) \/ StartProxy(c)
         \/ LaunchBox(c) \/ BoxExits(c) \/ RemoveBox(c) \/ SteerBox(c) \/ ProxyStopped(c)
  PROVE  NetInv'
<1>0. boxed \in [Boxed -> BoxState] /\ boxed[c] \in BoxState
  BY DEF NetInv, NetTypes
<1> DEFINE b == boxed[c]
<1>a. /\ b.at = "looksAgain" => bridge \/ daemon = "refuses"
      /\ b.net = "bestEffort" => daemon = "refuses"
      /\ b.proxy = "open" => b.at \in {"launches", "waits"}
      /\ b.at = "stops" => b.proxy = "closing"
  BY DEF NetInv, BridgeWanted
<1>1. CASE InspectBridge(c) \/ CreateBridge(c) \/ InspectAgain(c)
  <2>1. PICK place \in {"creates", "looksAgain", "starts"}, net \in {b.net, "bridge", "bestEffort"} :
          /\ boxed' = [boxed EXCEPT ![c] = [b EXCEPT !.net = net, !.at = place]]
          /\ place = "looksAgain" => daemon = "refuses" \/ bridge'
          /\ net = "bestEffort" => net = b.net \/ (~bridge /\ b.at = "looksAgain")
    <3>1. ASSUME Joins(c, "bridge") PROVE boxed' = [boxed EXCEPT ![c] = [b EXCEPT !.net = "bridge", !.at = "starts"]]
      BY <1>0, <3>1 DEF Joins
    <3>2. ASSUME Joins(c, "bestEffort") PROVE boxed' = [boxed EXCEPT ![c] = [b EXCEPT !.net = "bestEffort", !.at = "starts"]]
      BY <1>0, <3>2 DEF Joins
    <3>3. ASSUME NEW place, Goes(c, place) PROVE boxed' = [boxed EXCEPT ![c] = [b EXCEPT !.net = b.net, !.at = place]]
      <4>1. [b EXCEPT !.net = b.net, !.at = place] = [b EXCEPT !.at = place]
        BY <1>0 DEF BoxState
      <4> QED BY <1>0, <3>3, <4>1 DEF Goes
    <3>4. CASE InspectBridge(c)
      BY <3>1, <3>3, <3>4 DEF InspectBridge
    <3>5. CASE CreateBridge(c)
      <4>1. CASE daemon = "creates" /\ ~bridge
        BY <4>1, <3>1, <3>5 DEF CreateBridge
      <4>2. CASE ~(daemon = "creates" /\ ~bridge)
        <5>1. daemon = "refuses" \/ bridge'
          BY <4>2, <3>5 DEF CreateBridge, NetInv, NetTypes
        <5> QED BY <4>2, <5>1, <3>3, <3>5 DEF CreateBridge
      <4> QED BY <4>1, <4>2
    <3>6. CASE InspectAgain(c)
      BY <3>1, <3>2, <3>6 DEF InspectAgain, NetAfter
    <3> QED BY <1>1, <3>4, <3>5, <3>6
  <2>2. UNCHANGED <<daemon, route>> /\ (bridge => bridge')
    BY <1>1 DEF InspectBridge, CreateBridge, InspectAgain
  <2>3. b.at \in {"unused", "creates", "looksAgain"}
    BY <1>1 DEF InspectBridge, CreateBridge, InspectAgain
  <2> DEFINE new == [b EXCEPT !.net = net, !.at = place]
  <2>4. new \in BoxState /\ new.at = place /\ new.net = net /\ new.proxy = b.proxy
    BY <1>0 DEF BoxState
  <2>5. boxed' = [boxed EXCEPT ![c] = new]
    BY <2>1
  <2> HIDE DEF new
  <2>6. new.net = "bestEffort" => daemon = "refuses"
    BY <1>a, <2>1, <2>4
  <2>7. \A k \in Links : route[c][k].at \notin Handled
    BY <2>3, Unhandled
  <2> QED BY <1>a, <2>1, <2>2, <2>3, <2>4, <2>5, <2>6, <2>7, OneBoxed
<1>2. CASE StartProxy(c) \/ LaunchBox(c) \/ BoxExits(c)
  <2>1. PICK place \in {b.at, "launches", "waits"}, container \in {b.container, "up", "exited"},
             proxy \in {b.proxy, "open"} :
          /\ boxed' = [boxed EXCEPT ![c] = [b EXCEPT !.at = place, !.container = container, !.proxy = proxy]]
          /\ place \in {"launches", "waits"} \/ (place = b.at /\ proxy = b.proxy)
    <3>1. \A place, container, proxy :
            /\ [b EXCEPT !.proxy = proxy, !.at = place]
                 = [b EXCEPT !.at = place, !.container = b.container, !.proxy = proxy]
            /\ [b EXCEPT !.container = container, !.at = place]
                 = [b EXCEPT !.at = place, !.container = container, !.proxy = b.proxy]
            /\ [b EXCEPT !.container = container]
                 = [b EXCEPT !.at = b.at, !.container = container, !.proxy = b.proxy]
      BY <1>0 DEF BoxState
    <3>2. CASE StartProxy(c)
      <4>1. boxed' = [boxed EXCEPT ![c] = [b EXCEPT !.proxy = "open", !.at = "launches"]]
        BY <3>2, <1>0 DEF StartProxy
      <4>2. boxed' = [boxed EXCEPT ![c] =
              [b EXCEPT !.at = "launches", !.container = b.container, !.proxy = "open"]]
        BY <3>1, <4>1
      <4> QED BY <4>2
    <3>3. CASE LaunchBox(c)
      <4>1. boxed' = [boxed EXCEPT ![c] = [b EXCEPT !.container = "up", !.at = "waits"]]
        BY <3>3, <1>0 DEF LaunchBox
      <4> QED BY <3>1, <4>1
    <3>4. CASE BoxExits(c)
      <4>1. boxed' = [boxed EXCEPT ![c] = [b EXCEPT !.container = "exited"]]
        BY <3>4, <1>0 DEF BoxExits
      <4> QED BY <3>1, <4>1
    <3> QED BY <1>2, <3>2, <3>3, <3>4
  <2>2. UNCHANGED <<daemon, bridge, route>>
    BY <1>2 DEF StartProxy, LaunchBox, BoxExits
  <2> DEFINE new == [b EXCEPT !.at = place, !.container = container, !.proxy = proxy]
  <2>3. new \in BoxState /\ new.at = place /\ new.net = b.net /\ new.proxy = proxy
    BY <1>0 DEF BoxState
  <2>4. boxed' = [boxed EXCEPT ![c] = new]
    BY <2>1
  <2> HIDE DEF new
  <2>5. new.at \in {"launches", "waits", "stops"} \/ (new.at = b.at /\ new.proxy = b.proxy)
    BY <2>1, <2>3
  <2>6. /\ new.at = "looksAgain" => bridge' \/ daemon = "refuses"
        /\ new.net = "bestEffort" => daemon = "refuses"
        /\ new.proxy = "open" => new.at \in {"launches", "waits"}
        /\ new.at = "stops" => new.proxy = "closing"
    BY <1>a, <2>1, <2>2, <2>3
  <2> QED BY <2>2, <2>3, <2>4, <2>5, <2>6, OneBoxed
<1>3. CASE RemoveBox(c) \/ SteerBox(c)
  <2> DEFINE Ends(container) ==
               [b EXCEPT !.container = container, !.proxy = "closing", !.at = "stops"]
  <2>1. CASE Goes(c, "returned") /\ b.at \in {"creates", "looksAgain", "starts"}
    <3> DEFINE new == [b EXCEPT !.at = "returned"]
    <3>1. boxed' = [boxed EXCEPT ![c] = new] /\ UNCHANGED <<daemon, bridge, route>>
      BY <1>0, <1>3, <2>1 DEF Goes, RemoveBox, SteerBox
    <3>2. new \in BoxState /\ new.at = "returned" /\ new.net = b.net /\ new.proxy = b.proxy
      BY <1>0 DEF BoxState
    <3> HIDE DEF new
    <3>3. \A k \in Links : route[c][k].at \notin Handled
      BY <2>1, Unhandled
    <3>4. new.proxy # "open"
      BY <1>a, <2>1, <3>2
    <3> QED BY <1>a, <3>1, <3>2, <3>3, <3>4, OneBoxed
  <2>2. CASE Goes(c, "returned") /\ b.at = "stops"
    <3> DEFINE new == [b EXCEPT !.at = "returned"]
    <3>1. boxed' = [boxed EXCEPT ![c] = new] /\ UNCHANGED <<daemon, bridge, route>>
      BY <1>0, <1>3, <2>2 DEF Goes, RemoveBox, SteerBox
    <3>2. new \in BoxState /\ new.at = "returned" /\ new.net = b.net /\ new.proxy = b.proxy
      BY <1>0 DEF BoxState
    <3> HIDE DEF new
    <3>3. b.proxy = "closing"
      BY <2>2 DEF NetInv, BridgeWanted
    <3> QED BY <1>a, <3>1, <3>2, <3>3, OneBoxed
  <2>3. CASE ~(Goes(c, "returned") /\ b.at \in {"creates", "looksAgain", "starts", "stops"})
    <3>1. PICK container \in {b.container, "up", "gone"} :
            boxed' = [boxed EXCEPT ![c] = Ends(container)]
      BY <1>0, <1>3, <2>3 DEF RemoveBox, SteerBox
    <3>2. UNCHANGED <<daemon, bridge, route>>
      BY <1>3 DEF RemoveBox, SteerBox
    <3> DEFINE new == Ends(container)
    <3>3. new \in BoxState /\ new.at = "stops" /\ new.net = b.net /\ new.proxy = "closing"
      BY <1>0 DEF BoxState
    <3> HIDE DEF new
    <3>4. boxed' = [boxed EXCEPT ![c] = new]
      BY <3>1 DEF new
    <3> QED BY <1>a, <3>2, <3>3, <3>4, OneBoxed
  <2> QED BY <2>1, <2>2, <2>3
<1>4. CASE ProxyStopped(c)
  <2> DEFINE new == [b EXCEPT !.proxy = "closed", !.at = "returned"]
  <2>1. boxed' = [boxed EXCEPT ![c] = new] /\ UNCHANGED <<daemon, bridge, route>>
    BY <1>0, <1>4 DEF ProxyStopped
  <2>2. new \in BoxState /\ new.at = "returned" /\ new.net = b.net /\ new.proxy = "closed"
    BY <1>0 DEF BoxState
  <2> HIDE DEF new
  <2>3. \A k \in Links : route[c][k].at \in Handled => route[c][k].gone
    BY <1>4 DEF ProxyStopped
  <2> QED BY <1>a, <2>1, <2>2, <2>3, OneBoxed
<1> QED BY <1>1, <1>2, <1>3, <1>4


LEMMA RouteStep ==
  ASSUME NetInv, NEW c \in Boxed, NEW k \in Links,
         \/ Asks(c, k) \/ Judged(c, k) \/ ClientLost(c, k) \/ Reached(c, k)
         \/ PipeEnds(c, k) \/ GoesAround(c, k)
  PROVE  NetInv'
<1> DEFINE r == route[c][k]
<1>0. /\ route \in [Boxed -> [Links -> RouteState]] /\ r \in RouteState
      /\ RouteOK(c, k) /\ UNCHANGED <<daemon, bridge, boxed>>
  BY DEF NetInv, NetTypes, RoutesControlled, Asks, Judged, ClientLost, Reached, PipeEnds, GoesAround, Becomes
<1>1. PICK new \in RouteState :
        /\ route' = [route EXCEPT ![c][k] = new]
        /\ new.at \in Handled =>
             /\ boxed[c].at \in {"launches", "waits", "stops", "returned"}
             /\ boxed[c].at = "returned" => boxed[c].proxy = "closing" \/ new.gone
        /\ new.at \in {"dials", "tunnel", "forward"} => new.token /\ new.listed
        /\ new.at = "direct" => daemon = "refuses"
  <2>1. ASSUME NEW place, Becomes(c, k, place)
        PROVE  route' = [route EXCEPT ![c][k] = Turned(r, place)]
    BY <1>0, <2>1 DEF Becomes
  <2>a. \A place \in {"dials", "tunnel", "forward", "direct", "closed"} :
          LET t == Turned(r, place) IN
          /\ t \in RouteState /\ t.at = place
          /\ place # "closed" => t.token = r.token /\ t.listed = r.listed /\ t.gone = r.gone
    BY <1>0 DEF Turned, NoRoute, RouteState
  <2>2. CASE Asks(c, k)
    <3>1. PICK knows, listed \in BOOLEAN, method \in {"connect", "get"} :
            route' = [route EXCEPT ![c][k] = [at |-> "asked", token |-> knows,
                                              listed |-> listed, method |-> method,
                                              gone |-> FALSE]]
      BY <2>2 DEF Asks
    <3> DEFINE new == [at |-> "asked", token |-> knows, listed |-> listed, method |-> method,
                       gone |-> FALSE]
    <3>2. new \in RouteState /\ new.at = "asked"
      BY DEF RouteState
    <3>3. boxed[c].at \in {"launches", "waits"}
      BY <2>2 DEF Asks, NetInv, BridgeWanted
    <3> HIDE DEF new
    <3>4. route' = [route EXCEPT ![c][k] = new]
      BY <3>1 DEF new
    <3> QED BY <3>2, <3>3, <3>4
  <2>3. CASE Judged(c, k)
    <3>1. r.at = "asked"
      BY <2>3 DEF Judged
    <3> DEFINE place == IF r.token /\ r.listed THEN "dials" ELSE "closed"
               new == Turned(r, place)
    <3>2. /\ new \in RouteState /\ new.at = place
          /\ place # "closed" => new.token = r.token /\ new.listed = r.listed /\ new.gone = r.gone
      BY <2>a
    <3>3. route' = [route EXCEPT ![c][k] = new]
      BY <2>1, <2>3 DEF Judged
    <3> HIDE DEF new
    <3> QED BY <1>0, <3>1, <3>2, <3>3 DEF RouteOK, Handled
  <2>6. CASE ClientLost(c, k)
    <3> DEFINE new == [r EXCEPT !.gone = TRUE]
    <3>1. new \in RouteState /\ new.at = r.at /\ new.token = r.token /\ new.listed = r.listed /\ new.gone
      BY <1>0 DEF RouteState
    <3>2. route' = [route EXCEPT ![c][k] = new]
      BY <1>0, <2>6 DEF ClientLost
    <3> HIDE DEF new
    <3> QED BY <1>0, <3>1, <3>2 DEF RouteOK
  <2>4. CASE Reached(c, k) \/ PipeEnds(c, k)
    <3>1. PICK place \in {"tunnel", "forward", "closed"} :
            /\ Becomes(c, k, place)
            /\ place # "closed" => r.at = "dials"
      BY <2>4 DEF Reached, PipeEnds
    <3> DEFINE new == Turned(r, place)
    <3>2. /\ new \in RouteState /\ new.at = place
          /\ place # "closed" => new.token = r.token /\ new.listed = r.listed /\ new.gone = r.gone
      BY <2>a
    <3>3. route' = [route EXCEPT ![c][k] = new]
      BY <2>1, <3>1
    <3> HIDE DEF new
    <3> QED BY <1>0, <3>1, <3>2, <3>3 DEF RouteOK, Handled
  <2>5. CASE GoesAround(c, k)
    <3> DEFINE new == Turned(r, "direct")
    <3>1. daemon = "refuses"
      BY <2>5 DEF GoesAround, NetInv, BridgeWanted
    <3>2. new \in RouteState /\ new.at = "direct"
      BY <2>a
    <3>3. route' = [route EXCEPT ![c][k] = new]
      BY <2>1, <2>5 DEF GoesAround
    <3> HIDE DEF new
    <3> QED BY <3>1, <3>2, <3>3 DEF Handled
  <2> QED BY <2>2, <2>3, <2>4, <2>5, <2>6
<1>2. /\ route' \in [Boxed -> [Links -> RouteState]] /\ route'[c][k] = new
      /\ \A d \in Boxed, l \in Links : <<d, l>> # <<c, k>> => route'[d][l] = route[d][l]
  BY <1>0, <1>1
<1>3. RoutesControlled'
  <2> SUFFICES ASSUME NEW d \in Boxed, NEW l \in Links PROVE RouteOK(d, l)'
    BY DEF RoutesControlled
  <2>1. CASE d = c /\ l = k
    BY <2>1, <1>0, <1>1, <1>2 DEF RouteOK
  <2>2. CASE ~(d = c /\ l = k)
    BY <2>2, <1>0, <1>2 DEF RouteOK, NetInv, RoutesControlled
  <2> QED BY <2>1, <2>2
<1> QED BY <1>0, <1>2, <1>3 DEF NetInv, NetTypes, BridgeWanted

LEMMA NetStep == NetInv /\ [NetNext]_netVars => NetInv'
<1> SUFFICES ASSUME NetInv, [NetNext]_netVars PROVE NetInv'
  OBVIOUS
<1>1. CASE UNCHANGED netVars
  BY <1>1 DEF netVars, NetInv, NetTypes, BridgeWanted, RoutesControlled, RouteOK
<1>2. CASE NetNext
  BY <1>2, BoxedStep, RouteStep DEF NetNext
<1> QED BY <1>1, <1>2

\* What leaves a restricted container goes through its own proxy, with its token, to
\* an allowed host, and while run() has not returned, unless run() was cancelled when it
\* waited for the proxy, or the one who asked is gone; only where Docker refuses the bridge
\* can it go another way, for any number of commands of any number of processes that look
\* for the bridge at the same time (network.py:75, 273; docker.py:275).
THEOREM EgressControlled == NetSpec => []EgressIsControlled
<1>1. NetInv => EgressIsControlled
  BY DEF NetInv, RoutesControlled, RouteOK, EgressIsControlled, Handled
<1> QED BY <1>1, NetInitially, NetStep, PTL DEF NetSpec
----
(***************************************************************************)
(* Jobs                                                                    *)
(***************************************************************************)
CommandState ==
  [kind : {"none", "job", "run"}, proc : {"none", "up", "dying", "exited"},
   code : {"none", "completed", "failed"},
   tool : {"none", "starting", "waits", "kills", "left", "ends"},
   known : BOOLEAN, status : {"running", "none", "completed", "failed", "killed"},
   watched : BOOLEAN, old : BOOLEAN, steered : BOOLEAN]

JobTypes ==
  /\ command \in [Commands -> CommandState]
  /\ sandbox \in {"open", "closing", "closed"}
  /\ killList \in Seq(Commands)
  /\ IsFiniteSet({c \in Commands : command[c].kind # "none"})

\* A process that nobody has killed and whose tool was not cut off has somebody
\* who looks after it: the tool that waits for it, or the manager.
LookedAfter(j) ==
  /\ j.kind = "none" => j.proc = "none" /\ j.tool = "none" /\ ~j.known
  /\ j.tool = "kills" => j.proc # "up"
  /\ j.proc = "up" /\ ~j.steered =>
       \/ j.tool \in {"starting", "waits"}
       \/ j.known /\ j.status = "running"
  /\ j.proc = "up" => j.status = "running"

Listed(c) == \E i \in 1 .. Len(killList) : killList[i] = c

\* A tool that is still at work when the sandbox closes has been cut off.
CutOffBy(j) == j.tool \in {"starting", "waits"} => j.steered

\* From the moment the sandbox closes the jobs to kill are on the list.
ClosingInv ==
  /\ sandbox # "open" =>
       \A c \in Commands : /\ CutOffBy(command[c])
                           /\ command[c].proc = "up" /\ ~command[c].steered => Listed(c)
  /\ sandbox = "closed" => killList = <<>>

JobInv == JobTypes /\ (\A c \in Commands : LookedAfter(command[c])) /\ ClosingInv

LEMMA JobInitially == JobInit => JobInv
<1> SUFFICES ASSUME JobInit PROVE JobInv
  OBVIOUS
<1>1. Unused \in CommandState /\ LookedAfter(Unused) /\ Unused.kind = "none"
  BY DEF Unused, CommandState, LookedAfter
<1>2. command = [c \in Commands |-> Unused] /\ killList = <<>> /\ sandbox = "open"
  BY DEF JobInit
<1>3. {c \in Commands : command[c].kind # "none"} = {}
  BY <1>1, <1>2
<1>4. JobTypes
  <2>1. IsFiniteSet({c \in Commands : command[c].kind # "none"})
    BY <1>3, FS_EmptySet
  <2>2. killList \in Seq(Commands) /\ command \in [Commands -> CommandState]
    BY <1>1, <1>2, EmptySeq
  <2> QED BY <1>2, <2>1, <2>2 DEF JobTypes
<1> QED BY <1>1, <1>2, <1>4 DEF JobInv, ClosingInv

\* A step of one command that begins no other: its record changes, and the process, if
\* it still runs, is as well looked after as before.
LEMMA OneCommand ==
  ASSUME JobInv, NEW c \in Commands, NEW new \in CommandState,
         command' = [command EXCEPT ![c] = new], UNCHANGED <<sandbox, killList>>,
         LookedAfter(new), command[c].kind # "none",
         sandbox # "open" => CutOffBy(new),
         new.proc = "up" /\ ~new.steered => command[c].proc = "up" /\ ~command[c].steered
  PROVE  JobInv'
<1>1. /\ command' \in [Commands -> CommandState] /\ command'[c] = new
      /\ \A d \in Commands \ {c} : command'[d] = command[d]
  BY DEF JobInv, JobTypes
<1>2. {d \in Commands : command'[d].kind # "none"} \in SUBSET {d \in Commands : command[d].kind # "none"}
  BY <1>1
<1>3. JobTypes'
  BY <1>1, <1>2, FS_Subset DEF JobInv, JobTypes
<1>4. ClosingInv'
  BY <1>1 DEF JobInv, ClosingInv, Listed
<1> QED BY <1>1, <1>3, <1>4 DEF JobInv
\* A step that begins at most one command: what it makes of each command counts.
LEMMA ManyCommands ==
  ASSUME JobInv, UNCHANGED <<sandbox, killList>>,
         command' \in [Commands -> CommandState],
         \A c \in Commands : LookedAfter(command'[c]),
         sandbox # "open" =>
           \A c \in Commands :
             /\ CutOffBy(command'[c])
             /\ command'[c].proc = "up" /\ ~command'[c].steered
                  => command[c].proc = "up" /\ ~command[c].steered,
         NEW d, \A c \in Commands \ {d} : command[c].kind = "none" => command'[c].kind = "none"
  PROVE  JobInv'
<1> DEFINE begun == {c \in Commands : command[c].kind # "none"}
           begunNext == {c \in Commands : command'[c].kind # "none"}
<1>1. begunNext \in SUBSET (begun \union {d})
  OBVIOUS
<1>2. IsFiniteSet(begunNext)
  BY <1>1, FS_AddElement, FS_Subset DEF JobInv, JobTypes
<1>3. JobTypes'
  BY <1>2 DEF JobInv, JobTypes
<1>4. ClosingInv'
  BY DEF JobInv, ClosingInv, Listed
<1> QED BY <1>3, <1>4 DEF JobInv

\* Neither the process nor the tool has changed.
Same(new, j) ==
  new.kind = j.kind /\ new.proc = j.proc /\ new.tool = j.tool /\ new.steered = j.steered

\* The manager forgets no job that still runs.
LEMMA CleanedUpIs ==
  ASSUME JobInv
  PROVE  /\ CleanedUp \in [Commands -> CommandState]
         /\ \A c \in Commands : LookedAfter(CleanedUp[c]) /\ Same(CleanedUp[c], command[c])
<1> SUFFICES ASSUME NEW c \in Commands
             PROVE  /\ CleanedUp[c] \in CommandState /\ LookedAfter(CleanedUp[c])
                    /\ Same(CleanedUp[c], command[c])
  BY DEF CleanedUp
<1>1. command[c] \in CommandState /\ LookedAfter(command[c])
  BY DEF JobInv, JobTypes
<1>2. CASE backend = "local" /\ Expired(c)
  <2> DEFINE new == [command[c] EXCEPT !.known = FALSE]
  <2>1. CleanedUp[c] = new /\ command[c].status # "running"
    BY <1>2 DEF CleanedUp, Expired
  <2>2. /\ new \in CommandState /\ new.kind = command[c].kind /\ new.proc = command[c].proc
        /\ new.tool = command[c].tool /\ new.status = command[c].status /\ new.known = FALSE
        /\ new.steered = command[c].steered
    BY <1>1 DEF CommandState
  <2> HIDE DEF new
  <2> QED BY <1>1, <2>1, <2>2 DEF LookedAfter, Same
<1>3. CASE ~(backend = "local" /\ Expired(c))
  <2>1. CleanedUp[c] = command[c]
    BY <1>3 DEF CleanedUp
  <2> QED BY <1>1, <2>1 DEF Same
<1> QED BY <1>2, <1>3

LEMMA BeginStep ==
  ASSUME JobInv, NEW c \in Commands, StartJob(c) \/ RunCommand(c)
  PROVE  JobInv'
<1> DEFINE after == sandbox # "open"
<1>1. PICK new \in CommandState, base \in {CleanedUp, command} :
        /\ command' = [base EXCEPT ![c] = new]
        /\ LookedAfter(new) /\ new.steered = after
  <2> DEFINE job == [Unused EXCEPT !.kind = "job", !.proc = "up", !.tool = "starting", !.steered = after]
             ran == [Unused EXCEPT !.kind = "run", !.proc = "up", !.tool = "waits", !.steered = after]
  <2>1. command' = [CleanedUp EXCEPT ![c] = job] \/ command' = [command EXCEPT ![c] = ran]
    BY DEF StartJob, RunCommand, Set, Begun
  <2>2. after \in BOOLEAN
    OBVIOUS
  <2> HIDE DEF after
  <2>3. /\ job \in CommandState /\ ran \in CommandState /\ LookedAfter(job) /\ LookedAfter(ran)
        /\ job.steered = after /\ ran.steered = after
    BY <2>2 DEF Unused, CommandState, LookedAfter
  <2> HIDE DEF job, ran
  <2> QED BY <2>1, <2>3
<1>2. /\ base \in [Commands -> CommandState]
      /\ \A d \in Commands : LookedAfter(base[d]) /\ Same(base[d], command[d])
  BY CleanedUpIs DEF JobInv, JobTypes, Same
<1>3. UNCHANGED <<sandbox, killList>>
  BY DEF StartJob, RunCommand, Rest
<1>4. /\ command' \in [Commands -> CommandState] /\ command'[c] = new
      /\ \A d \in Commands \ {c} : command'[d] = base[d]
  BY <1>1, <1>2
<1>5. \A d \in Commands : LookedAfter(command'[d])
  BY <1>1, <1>2, <1>4
<1>6. \A d \in Commands \ {c} : command[d].kind = "none" => command'[d].kind = "none"
  BY <1>2, <1>4 DEF Same
<1>7. ASSUME sandbox # "open", NEW d \in Commands
      PROVE  /\ CutOffBy(command'[d])
             /\ command'[d].proc = "up" /\ ~command'[d].steered
                  => command[d].proc = "up" /\ ~command[d].steered
  <2>1. CASE d = c
    BY <1>1, <1>4, <1>7, <2>1 DEF CutOffBy
  <2>2. CASE d # c
    <3>1. command'[d] = base[d] /\ Same(base[d], command[d]) /\ CutOffBy(command[d])
      BY <1>2, <1>4, <1>7, <2>2 DEF JobInv, ClosingInv
    <3> QED BY <3>1 DEF Same, CutOffBy
  <2> QED BY <2>1, <2>2
<1> QED BY <1>3, <1>4, <1>5, <1>6, <1>7, ManyCommands

\* Only a process that has exited is noted.
LEMMA NotedIs ==
  ASSUME NEW j \in CommandState, LookedAfter(j)
  PROVE  /\ Noted(j) \in CommandState /\ LookedAfter(Noted(j)) /\ Noted(j).kind = j.kind
         /\ Noted(j).tool = j.tool /\ Noted(j).proc = j.proc /\ Noted(j).steered = j.steered
         /\ Noted(j).known = j.known
<1>1. CASE j.proc = "exited" /\ j.status = "running"
  <2> DEFINE new == [j EXCEPT !.status = j.code]
  <2>1. Noted(j) = new
    BY <1>1 DEF Noted
  <2>2. /\ new \in CommandState /\ new.kind = j.kind /\ new.proc = j.proc /\ new.tool = j.tool
        /\ new.known = j.known /\ new.steered = j.steered
    BY DEF CommandState
  <2> HIDE DEF new
  <2> QED BY <1>1, <2>1, <2>2 DEF LookedAfter
<1>2. CASE ~(j.proc = "exited" /\ j.status = "running")
  BY <1>2 DEF Noted
<1> QED BY <1>1, <1>2

LEMMA PollJobStep ==
  ASSUME JobInv, NEW c \in Commands, PollJob(c)
  PROVE  JobInv'
<1>1. UNCHANGED <<sandbox, killList>>
  BY DEF PollJob, Rest
<1>2. command' = CleanedUp \/ command' = [CleanedUp EXCEPT ![c] = Noted(CleanedUp[c])]
  BY CleanedUpIs DEF PollJob
<1>3. /\ Noted(CleanedUp[c]) \in CommandState /\ LookedAfter(Noted(CleanedUp[c]))
      /\ Same(Noted(CleanedUp[c]), CleanedUp[c])
  BY CleanedUpIs, NotedIs DEF Same
<1>4. /\ command' \in [Commands -> CommandState]
      /\ \A d \in Commands : command'[d] = CleanedUp[d] \/ (d = c /\ command'[d] = Noted(CleanedUp[c]))
  BY <1>2, <1>3, CleanedUpIs
<1>5. \A d \in Commands : LookedAfter(command'[d]) /\ Same(command'[d], command[d])
  BY <1>3, <1>4, CleanedUpIs DEF Same
<1>6. sandbox # "open" =>
        \A d \in Commands :
          /\ CutOffBy(command'[d])
          /\ command'[d].proc = "up" /\ ~command'[d].steered
               => command[d].proc = "up" /\ ~command[d].steered
  BY <1>5 DEF Same, CutOffBy, JobInv, ClosingInv
<1>7. \A d \in Commands \ {c} : command[d].kind = "none" => command'[d].kind = "none"
  BY <1>5 DEF Same
<1> QED BY <1>1, <1>4, <1>5, <1>6, <1>7, ManyCommands

\* What a kill leaves of a command.
LEMMA KilledIs ==
  ASSUME NEW j \in CommandState
  PROVE  /\ Killed(j) \in CommandState /\ Killed(j).kind = j.kind /\ Killed(j).proc # "up"
         /\ Killed(j).steered = j.steered /\ Killed(j).known = j.known /\ Killed(j).status = j.status
         /\ Killed(j).proc = "none" <=> j.proc = "none"
<1> DEFINE proc == IF j.proc = "up" THEN "dying" ELSE j.proc
<1>1. Killed(j) = [j EXCEPT !.proc = proc]
  BY DEF Killed, CommandState
<1>2. /\ proc \in {"none", "dying", "exited"}
      /\ proc = "none" <=> j.proc = "none"
  BY DEF CommandState
<1> HIDE DEF proc
<1> QED BY <1>1, <1>2 DEF CommandState

LEMMA KillJobStep ==
  ASSUME JobInv, NEW c \in Commands, KillJob(c)
  PROVE  JobInv'
<1> DEFINE j == command[c]
           new == [Killed(j) EXCEPT !.tool = "kills", !.known = backend = "local"]
<1>1. j \in CommandState /\ LookedAfter(j) /\ j.known /\ j.tool = "none" /\ j.kind # "none"
  BY DEF KillJob, JobInv, JobTypes, LookedAfter
<1>2. command' = [command EXCEPT ![c] = new] /\ UNCHANGED sandbox
  BY DEF KillJob, Set
<1>3. /\ new \in CommandState /\ new.proc # "up" /\ new.kind = j.kind /\ new.tool = "kills"
  <2> DEFINE dead == Killed(j)
             known == backend = "local"
  <2>1. dead \in CommandState /\ dead.proc # "up" /\ dead.kind = j.kind /\ known \in BOOLEAN
    BY <1>1, KilledIs
  <2>2. new = [dead EXCEPT !.tool = "kills", !.known = known]
    OBVIOUS
  <2> HIDE DEF dead, known, new
  <2> QED BY <2>1, <2>2 DEF CommandState
<1> HIDE DEF new
<1>4. LookedAfter(new)
  BY <1>1, <1>3 DEF LookedAfter
<1>5. CASE UNCHANGED killList
  BY <1>1, <1>2, <1>3, <1>4, <1>5, OneCommand DEF CutOffBy
<1>6. CASE sandbox = "closing" /\ killList # <<>> /\ c = Head(killList) /\ killList' = Tail(killList)
  <2>1. killList \in Seq(Commands) /\ Len(killList) \in Nat /\ killList[1] = c
    BY <1>6, LenProperties DEF JobInv, JobTypes
  <2>2. /\ killList' \in Seq(Commands) /\ Len(killList') = Len(killList) - 1
        /\ \A i \in 1 .. Len(killList') : killList'[i] = killList[i + 1]
    BY <1>6, <2>1, HeadTailProperties
  <2>3. \A d \in Commands \ {c} : Listed(d) => Listed(d)'
    <3> SUFFICES ASSUME NEW d \in Commands \ {c}, NEW i \in 1 .. Len(killList), killList[i] = d
                 PROVE  \E k \in 1 .. Len(killList') : killList'[k] = d
      BY DEF Listed
    <3>1. i # 1 /\ i - 1 \in 1 .. Len(killList')
      BY <2>1, <2>2
    <3>2. killList'[i - 1] = killList[i]
      BY <2>1, <2>2, <3>1
    <3> QED BY <3>1, <3>2
  <2>4. /\ command' \in [Commands -> CommandState] /\ command'[c] = new
        /\ \A d \in Commands \ {c} : command'[d] = command[d]
    BY <1>2, <1>3 DEF JobInv, JobTypes
  <2>5. {d \in Commands : command'[d].kind # "none"} \in SUBSET {d \in Commands : command[d].kind # "none"}
    BY <2>4, <1>1
  <2>6. JobTypes'
    BY <1>2, <2>2, <2>4, <2>5, FS_Subset DEF JobInv, JobTypes
  <2>7. ClosingInv'
    BY <1>2, <1>3, <1>6, <2>3, <2>4 DEF JobInv, ClosingInv, CutOffBy
  <2> QED BY <1>4, <2>4, <2>6, <2>7 DEF JobInv
<1> QED BY <1>5, <1>6 DEF KillJob

\* Whoever is told of the end of a process, or ends the wait for it.
LEMMA OtherCommandStep ==
  ASSUME JobInv, NEW c \in Commands,
         JobStarted(c) \/ Watch(c) \/ JobKilled(c) \/ CommandDone(c) \/ CommandKilled(c)
           \/ ProcessExits(c) \/ GrowOld(c)
  PROVE  JobInv'
<1> DEFINE j == command[c]
<1>1. j \in CommandState /\ LookedAfter(j) /\ UNCHANGED <<sandbox, killList>>
  BY DEF JobInv, JobTypes, JobStarted, Watch, JobKilled, CommandDone, CommandKilled,
         ProcessExits, GrowOld, Rest
<1>2. PICK new \in CommandState :
        /\ command' = [command EXCEPT ![c] = new]
        /\ LookedAfter(new) /\ j.kind # "none"
        /\ sandbox # "open" => CutOffBy(new)
        /\ new.proc = "up" /\ ~new.steered => j.proc = "up" /\ ~j.steered
  <2>1. sandbox # "open" => CutOffBy(j)
    BY DEF JobInv, ClosingInv
  <2>2. CASE JobStarted(c)
    <3> DEFINE new == [j EXCEPT !.tool = "none", !.known = TRUE]
    <3>1. command' = [command EXCEPT ![c] = new] /\ j.tool = "starting"
      BY <2>2 DEF JobStarted, Set
    <3>2. /\ new \in CommandState /\ new.kind = j.kind /\ new.proc = j.proc /\ new.tool = "none"
          /\ new.known = TRUE /\ new.status = j.status /\ new.steered = j.steered
      BY <1>1 DEF CommandState
    <3> HIDE DEF new
    <3> QED BY <1>1, <3>1, <3>2 DEF LookedAfter, CutOffBy
  <2>3. CASE Watch(c)
    <3> DEFINE noted == Noted(j)
               new == [noted EXCEPT !.watched = FALSE]
    <3>1. command' = [command EXCEPT ![c] = new] /\ j.kind = "job" /\ j.proc = "exited"
      BY <2>3 DEF Watch, Set
    <3>2. noted \in CommandState /\ noted.kind = j.kind /\ noted.proc = j.proc /\ noted.tool = j.tool
          /\ noted.steered = j.steered
      BY <1>1, NotedIs
    <3> HIDE DEF noted
    <3>3. /\ new \in CommandState /\ new.kind = j.kind /\ new.proc = j.proc /\ new.tool = j.tool
          /\ new.steered = j.steered
      BY <3>2 DEF CommandState
    <3> HIDE DEF new
    <3> QED BY <1>1, <2>1, <3>1, <3>3 DEF LookedAfter, CutOffBy
  <2>4. CASE JobKilled(c)
    <3> DEFINE new == [j EXCEPT !.tool = "none", !.watched = FALSE, !.status = "killed"]
    <3>1. command' = [command EXCEPT ![c] = new] /\ j.tool = "kills"
      BY <2>4 DEF JobKilled, Set
    <3>2. new \in CommandState /\ new.kind = j.kind /\ new.proc = j.proc /\ new.tool = "none"
      BY <1>1 DEF CommandState
    <3> HIDE DEF new
    <3> QED BY <1>1, <3>1, <3>2 DEF LookedAfter, CutOffBy
  <2>5. CASE CommandDone(c)
    <3> DEFINE new == [j EXCEPT !.tool = "ends"]
    <3>1. command' = [command EXCEPT ![c] = new] /\ j.tool = "waits" /\ j.proc = "exited"
      BY <2>5 DEF CommandDone, Set
    <3>2. new \in CommandState /\ new.kind = j.kind /\ new.proc = j.proc /\ new.tool = "ends"
      BY <1>1 DEF CommandState
    <3> HIDE DEF new
    <3> QED BY <1>1, <3>1, <3>2 DEF LookedAfter, CutOffBy
  <2>6. CASE CommandKilled(c)
    <3> DEFINE code == IF j.code = "none" THEN "failed" ELSE j.code
               new == [j EXCEPT !.tool = "ends", !.proc = "exited", !.code = code]
    <3>1. command' = [command EXCEPT ![c] = new] /\ j.tool = "waits"
      BY <1>1, <2>6 DEF CommandKilled, Set, CommandState
    <3>2. code \in {"completed", "failed"}
      BY <1>1 DEF CommandState
    <3> HIDE DEF code
    <3>3. new \in CommandState /\ new.kind = j.kind /\ new.proc = "exited" /\ new.tool = "ends"
      BY <1>1, <3>2 DEF CommandState
    <3> HIDE DEF new
    <3> QED BY <1>1, <3>1, <3>3 DEF LookedAfter, CutOffBy
  <2>7. CASE ProcessExits(c)
    <3>1. PICK code \in {"completed", "failed"} :
            command' = [command EXCEPT ![c] = [j EXCEPT !.proc = "exited", !.code = code]]
      BY <2>7 DEF ProcessExits, Set
    <3> DEFINE new == [j EXCEPT !.proc = "exited", !.code = code]
    <3>2. j.proc # "none"
      BY <2>7 DEF ProcessExits
    <3>3. new \in CommandState /\ new.kind = j.kind /\ new.proc = "exited" /\ new.tool = j.tool
          /\ new.steered = j.steered
      BY <1>1 DEF CommandState
    <3>4. command' = [command EXCEPT ![c] = new]
      BY <3>1
    <3> HIDE DEF new
    <3> QED BY <1>1, <2>1, <3>2, <3>3, <3>4 DEF LookedAfter, CutOffBy
  <2>8. CASE GrowOld(c)
    <3> DEFINE new == [j EXCEPT !.old = TRUE]
    <3>1. command' = [command EXCEPT ![c] = new] /\ j.kind = "job"
      BY <2>8 DEF GrowOld, Set
    <3>2. /\ new \in CommandState /\ new.kind = j.kind /\ new.proc = j.proc /\ new.tool = j.tool
          /\ new.known = j.known /\ new.status = j.status /\ new.steered = j.steered
      BY <1>1 DEF CommandState
    <3> HIDE DEF new
    <3> QED BY <1>1, <2>1, <3>1, <3>2 DEF LookedAfter, CutOffBy
  <2> QED BY <2>2, <2>3, <2>4, <2>5, <2>6, <2>7, <2>8
<1> QED BY <1>1, <1>2, OneCommand

\* A steering message cuts off the tools of the turn: what it leaves running is marked.
LEMMA SteerStep ==
  ASSUME JobInv, Steer
  PROVE  JobInv'
<1>1. sandbox = "open" /\ UNCHANGED <<sandbox, killList>>
  BY DEF Steer, Rest
<1>2. ASSUME NEW c \in Commands
      PROVE  /\ command'[c] \in CommandState /\ LookedAfter(command'[c])
             /\ command'[c].kind = command[c].kind
  <2> DEFINE j == command[c]
             left == [Killed(j) EXCEPT !.tool = "left"]
             cut == [j EXCEPT !.tool = "left", !.steered = TRUE]
             free == [j EXCEPT !.tool = "none"]
  <2>1. j \in CommandState /\ LookedAfter(j)
    BY <1>2 DEF JobInv, JobTypes
  <2>2. command'[c] =
          IF j.tool = "starting" /\ backend = "local" THEN left
          ELSE IF j.tool \in {"starting", "waits"} THEN cut
          ELSE IF j.tool = "kills" THEN free ELSE j
    BY <1>2 DEF Steer
  <2>3. /\ left \in CommandState /\ left.kind = j.kind /\ left.proc # "up" /\ left.tool = "left"
    BY <2>1, KilledIs DEF CommandState
  <2>4. /\ cut \in CommandState /\ cut.kind = j.kind /\ cut.tool = "left" /\ cut.steered = TRUE
        /\ cut.status = j.status /\ cut.proc = j.proc
    BY <2>1 DEF CommandState
  <2>5. /\ free \in CommandState /\ free.kind = j.kind /\ free.proc = j.proc /\ free.tool = "none"
    BY <2>1 DEF CommandState
  <2> HIDE DEF left, cut, free
  <2>6. CASE j.tool = "starting" /\ backend = "local"
    <3>1. command'[c] = left
      BY <2>2, <2>6
    <3> QED BY <2>1, <2>3, <2>6, <3>1 DEF LookedAfter
  <2>7. CASE j.tool \in {"starting", "waits"} /\ ~(j.tool = "starting" /\ backend = "local")
    <3>1. command'[c] = cut
      BY <2>2, <2>7
    <3> QED BY <2>1, <2>4, <2>7, <3>1 DEF LookedAfter
  <2>8. CASE j.tool = "kills"
    <3>1. command'[c] = free
      BY <2>2, <2>8
    <3> QED BY <2>1, <2>5, <2>8, <3>1 DEF LookedAfter
  <2>9. CASE j.tool \notin {"starting", "waits", "kills"}
    <3>1. command'[c] = j
      BY <2>2, <2>9, SMTT(30)
    <3> QED BY <2>1, <3>1
  <2> QED BY <2>6, <2>7, <2>8, <2>9
<1>3. command' \in [Commands -> CommandState]
  BY <1>2 DEF Steer
<1> QED BY <1>1, <1>2, <1>3, ManyCommands

\* Every job that runs is known by now, and so it is listed, or its tool is cut off.
LEMMA CloseSandboxStep ==
  ASSUME JobInv, CloseSandbox
  PROVE  JobInv'
<1> DEFINE known == {c \in Commands : command[c].known}
<1>1. sandbox' = "closing" /\ killList' = SetToSeq(known)
  BY DEF CloseSandbox
<1>2. known \in SUBSET {c \in Commands : command[c].kind # "none"}
  BY DEF JobInv, LookedAfter
<1>3. IsFiniteSet(known)
  BY <1>2, FS_Subset DEF JobInv, JobTypes
<1> HIDE DEF known
<1>4. killList' \in Seq(known) /\ \A c \in known : \E i \in 1 .. Len(killList') : killList'[i] = c
  BY <1>1, <1>3, SetToSeqIs
<1>5. killList' \in Seq(Commands)
  <2>1. known \subseteq Commands
    BY DEF known
  <2> QED BY <1>4, <2>1, SeqMonotonic
<1>6. ASSUME NEW c \in Commands
      PROVE  /\ command'[c] \in CommandState /\ command'[c].kind = command[c].kind
             /\ LookedAfter(command'[c]) /\ CutOffBy(command'[c])
             /\ command'[c].proc = "up" /\ ~command'[c].steered => c \in known
  <2> DEFINE j == command[c]
             cut == [j EXCEPT !.steered = TRUE]
  <2>1. j \in CommandState /\ LookedAfter(j)
    BY <1>6 DEF JobInv, JobTypes
  <2>2. command'[c] = IF j.tool \in {"starting", "waits"} THEN cut ELSE j
    BY <1>6 DEF CloseSandbox
  <2>3. /\ cut \in CommandState /\ cut.kind = j.kind /\ cut.proc = j.proc /\ cut.tool = j.tool
        /\ cut.known = j.known /\ cut.status = j.status /\ cut.steered = TRUE
    BY <2>1 DEF CommandState
  <2>4. j.known => c \in known
    BY <1>6 DEF known
  <2> HIDE DEF cut
  <2>5. CASE j.tool \in {"starting", "waits"}
    <3>1. command'[c] = cut
      BY <2>2, <2>5
    <3> QED BY <2>1, <2>3, <3>1 DEF LookedAfter, CutOffBy
  <2>6. CASE j.tool \notin {"starting", "waits"}
    <3>1. command'[c] = j
      BY <2>2, <2>6
    <3> QED BY <2>1, <2>4, <2>6, <3>1 DEF LookedAfter, CutOffBy
  <2> QED BY <2>5, <2>6
<1>7. ClosingInv'
  <2>1. \A c \in known : Listed(c)'
    BY <1>4 DEF Listed
  <2> QED BY <1>1, <1>6, <2>1 DEF ClosingInv
<1>8. JobTypes'
  <2>1. command' \in [Commands -> CommandState]
    BY <1>6 DEF CloseSandbox
  <2>2. {c \in Commands : command'[c].kind # "none"} = {c \in Commands : command[c].kind # "none"}
    BY <1>6
  <2>3. IsFiniteSet({c \in Commands : command'[c].kind # "none"})
    BY <2>2 DEF JobInv, JobTypes
  <2> QED BY <1>1, <1>5, <2>1, <2>3 DEF JobTypes
<1> QED BY <1>6, <1>7, <1>8 DEF JobInv

\* A job that is no longer known has been killed, or its tool is cut off.
LEMMA KillUnknownStep ==
  ASSUME JobInv, KillUnknown
  PROVE  JobInv'
<1>0. PICK c : c = Head(killList)
  OBVIOUS
<1>1. /\ sandbox = "closing" /\ killList # <<>> /\ ~command[c].known /\ killList' = Tail(killList)
      /\ UNCHANGED <<command, sandbox>> /\ killList \in Seq(Commands)
  BY <1>0 DEF KillUnknown, JobInv, JobTypes
<1>2. /\ Len(killList) \in Nat /\ killList[1] = c /\ c \in Commands
      /\ killList' \in Seq(Commands) /\ Len(killList') = Len(killList) - 1
      /\ \A i \in 1 .. Len(killList') : killList'[i] = killList[i + 1]
  BY <1>0, <1>1, LenProperties, HeadTailProperties
<1>3. command[c].proc = "up" => command[c].steered
  BY <1>1, <1>2 DEF JobInv, LookedAfter, ClosingInv, CutOffBy
<1>4. \A d \in Commands \ {c} : Listed(d) => Listed(d)'
  <2> SUFFICES ASSUME NEW d \in Commands \ {c}, NEW i \in 1 .. Len(killList), killList[i] = d
               PROVE  \E k \in 1 .. Len(killList') : killList'[k] = d
    BY DEF Listed
  <2>1. i # 1 /\ i - 1 \in 1 .. Len(killList')
    BY <1>2
  <2>2. killList'[i - 1] = killList[i]
    BY <1>2, <2>1
  <2> QED BY <2>1, <2>2
<1>5. ClosingInv'
  <2> SUFFICES ASSUME NEW d \in Commands
               PROVE  /\ CutOffBy(command[d])
                      /\ command[d].proc = "up" /\ ~command[d].steered => Listed(d)'
    BY <1>1 DEF ClosingInv
  <2> QED BY <1>1, <1>3, <1>4 DEF JobInv, ClosingInv
<1>6. JobTypes'
  BY <1>1, <1>2 DEF JobInv, JobTypes
<1> QED BY <1>1, <1>5, <1>6 DEF JobInv

LEMMA ClosedStep ==
  ASSUME JobInv, Closed
  PROVE  JobInv'
<1>1. sandbox = "closing" /\ killList = <<>> /\ sandbox' = "closed" /\ UNCHANGED <<command, killList>>
  BY DEF Closed
<1>2. JobTypes'
  BY <1>1 DEF JobInv, JobTypes
<1>3. ClosingInv'
  BY <1>1 DEF JobInv, ClosingInv, Listed
<1> QED BY <1>1, <1>2, <1>3 DEF JobInv

LEMMA JobStep == JobInv /\ [JobNext]_jobVars => JobInv'
<1> SUFFICES ASSUME JobInv, [JobNext]_jobVars PROVE JobInv'
  OBVIOUS
<1>1. CASE UNCHANGED <<command, sandbox, killList>>
  BY <1>1 DEF JobInv, JobTypes, ClosingInv, Listed
<1>2. CASE Steer \/ CloseSandbox \/ KillUnknown \/ Closed
  BY <1>2, SteerStep, CloseSandboxStep, KillUnknownStep, ClosedStep
<1>3. ASSUME NEW c \in Commands,
             \/ StartJob(c) \/ JobStarted(c) \/ Watch(c) \/ PollJob(c) \/ KillJob(c) \/ JobKilled(c)
             \/ RunCommand(c) \/ CommandDone(c) \/ CommandKilled(c) \/ ProcessExits(c) \/ GrowOld(c)
      PROVE  JobInv'
  BY <1>3, BeginStep, PollJobStep, KillJobStep, OtherCommandStep
<1> QED BY <1>1, <1>2, <1>3 DEF JobNext, jobVars, Stop

\* When the sandbox is closed every process it started has exited or been killed, but
\* for those of a tool that was cut off, by a steering message or by the end of the run,
\* for any number of commands, of which there are only finitely many at any time
\* (base.py:40, job_manager.py:123).
THEOREM NothingLeft == JobSpec => []NothingLeftRunning
<1>1. JobInv => NothingLeftRunning
  <2> SUFFICES ASSUME JobInv, sandbox = "closed", NEW c \in Commands, command[c].proc = "up",
                      ~command[c].steered
               PROVE  FALSE
    BY DEF NothingLeftRunning
  <2>1. PICK i \in 1 .. Len(killList) : killList[i] = c
    BY DEF JobInv, ClosingInv, Listed
  <2>2. Len(killList) = 0
    BY EmptySeq DEF JobInv, ClosingInv
  <2> QED BY <2>1, <2>2
<1> QED BY <1>1, JobInitially, JobStep, PTL DEF JobSpec
----
(***************************************************************************)
(* Overlay                                                                 *)
(***************************************************************************)
Trees == [Paths -> Texts \union {Gone}]

OverlayTypes ==
  /\ tree \in Trees /\ copy \in Trees
  /\ snapshot \in [files : Trees, whole : BOOLEAN, empty : BOOLEAN]
  /\ snapshot.whole = ~Incomplete(snapshot.files)
  /\ own \in [files : Trees, base : Trees, meddled : SUBSET Paths, changed : SUBSET Paths]
  /\ own.base = snapshot.files
  /\ undo \in [stage : {"none", "removes", "writes", "done"}, left : SUBSET Paths, late : BOOLEAN]
  /\ todo \subseteq Plain /\ own.meddled \subseteq own.changed
  /\ phase \in {"created", "prepared", "works", "idle", "promotes", "removes", "over"}

Unpromoted == {"created", "prepared", "works", "idle"}

\* How far the promotion is: what is not in the workspace yet is still to be done.
PromotionInv ==
  /\ phase \in {"created", "prepared", "works"} => verdict = "running"
  /\ phase \in {"promotes", "removes"} => verdict = "succeeded"
  /\ undo.stage # "none" => phase \notin {"created", "prepared", "works"}
  /\ cow /\ undo.stage = "none" =>
       /\ phase \in Unpromoted => tree = own.files
       /\ (phase = "over" /\ verdict # "succeeded" /\ todo = {}) => tree = own.files
       /\ \A f \in Secret : tree[f] = own.files[f]
       /\ phase = "promotes" =>
            \A f \in Plain \ own.meddled : f \in todo \/ copy[f] = Gone \/ tree[f] = copy[f]
       /\ phase = "removes" =>
            /\ \A f \in todo : copy[f] = Gone
            /\ \A f \in Plain \ own.meddled : f \in todo \/ tree[f] = copy[f]
       /\ (phase = "over" /\ verdict = "succeeded") =>
            \A f \in Plain \ own.meddled : tree[f] = copy[f]

\* What nobody has changed since the copy was made is in it as it is known to the user.
CopyInv ==
  cow /\ ignored = Secret /\ (phase = "works" \/ verdict = "succeeded") =>
    \A f \in Plain \ own.changed : copy[f] = own.files[f]

\* How far the rollback is, when nothing else works on the files.
UndoInv ==
  /\ undo.stage # "none" => snapshot.whole
  /\ undo.late => phase = "over"
  /\ undo.late /\ own.meddled = {} =>
       /\ undo.stage = "removes" => Present(tree) \subseteq Present(snapshot.files) \union undo.left
       /\ undo.stage = "writes" => \A f \in Paths : f \in undo.left \/ tree[f] = snapshot.files[f]
       /\ undo.stage = "done" => tree = snapshot.files

OverlayInv == OverlayTypes /\ PromotionInv /\ CopyInv /\ UndoInv

LEMMA OverlayInitially == OverlayInit => OverlayInv
<1> SUFFICES ASSUME OverlayInit PROVE OverlayInv
  OBVIOUS
<1>1. OverlayTypes
  BY DEF OverlayInit, OverlayTypes, Trees, SnapshotOf
<1>2. PromotionInv /\ CopyInv /\ UndoInv
  BY DEF OverlayInit, PromotionInv, CopyInv, UndoInv, Unpromoted
<1> QED BY <1>1, <1>2 DEF OverlayInv

\* A whole snapshot has captured all it has.
LEMMA CapturedAll ==
  ASSUME OverlayTypes, snapshot.whole
  PROVE  Captured = Present(snapshot.files)
BY DEF OverlayTypes, Captured, Present, Incomplete

\* One file of the workspace becomes something else, by any hand.
LEMMA TreeWritten ==
  ASSUME OverlayTypes, NEW f \in Paths, NEW v \in Texts \union {Gone}, tree' = [tree EXCEPT ![f] = v]
  PROVE  tree' \in Trees /\ tree'[f] = v /\ \A g \in Paths \ {f} : tree'[g] = tree[g]
BY DEF OverlayTypes, Trees

LEMMA EditStep ==
  ASSUME OverlayInv, Edit
  PROVE  OverlayInv'
<1>1. PICK f \in Paths, v \in Texts \union {Gone} :
        /\ tree' = [tree EXCEPT ![f] = v]
        /\ own' = [own EXCEPT !.files[f] = v,
                              !.meddled = IF phase \in {"promotes", "removes", "over"} THEN @ \union {f} ELSE @,
                              !.changed = IF phase \in {"created", "prepared"} THEN @ ELSE @ \union {f}]
  BY DEF Edit
<1>2. UNCHANGED <<cow, ignored, copy, snapshot, phase, verdict, todo, undo>>
  BY DEF Edit
<1>3. tree' \in Trees /\ tree'[f] = v /\ \A g \in Paths \ {f} : tree'[g] = tree[g]
  BY <1>1, TreeWritten DEF OverlayInv
<1>4. /\ own' \in [files : Trees, base : Trees, meddled : SUBSET Paths, changed : SUBSET Paths] /\ own'.base = own.base
      /\ own'.files[f] = v /\ \A g \in Paths \ {f} : own'.files[g] = own.files[g]
      /\ own'.meddled = IF phase \in {"promotes", "removes", "over"} THEN own.meddled \union {f} ELSE own.meddled
      /\ own'.changed = IF phase \in {"created", "prepared"} THEN own.changed ELSE own.changed \union {f}
  BY <1>1 DEF OverlayInv, OverlayTypes, Trees
<1>5. OverlayTypes'
  BY <1>2, <1>3, <1>4 DEF OverlayInv, OverlayTypes
<1>6. tree = own.files => tree' = own'.files
  BY <1>3, <1>4 DEF Trees
<1>7. PromotionInv'
  BY <1>2, <1>3, <1>4, <1>6 DEF OverlayInv, PromotionInv, Unpromoted, Paths
<1>8. UndoInv'
  BY <1>2, <1>3, <1>4 DEF OverlayInv, UndoInv
<1>9. CopyInv'
  BY <1>2, <1>4 DEF OverlayInv, CopyInv, PromotionInv, Paths
<1> QED BY <1>5, <1>7, <1>8, <1>9 DEF OverlayInv

LEMMA RunOverlayStep ==
  ASSUME OverlayInv, Prepare \/ Materialize \/ RunIsOver \/ StartPromotion
  PROVE  OverlayInv'
<1>1. CASE Prepare
  <2>1. /\ phase = "created" /\ phase' = "prepared" /\ UNCHANGED <<cow, ignored, tree, copy, verdict, todo, undo>>
        /\ snapshot' = IF snapshot.empty THEN SnapshotOf(tree) ELSE snapshot
        /\ own' = [own EXCEPT !.base = snapshot'.files]
    BY <1>1 DEF Prepare
  <2>2. /\ snapshot' \in [files : Trees, whole : BOOLEAN, empty : BOOLEAN]
        /\ snapshot'.whole = ~Incomplete(snapshot'.files)
    BY <2>1 DEF SnapshotOf, OverlayInv, OverlayTypes
  <2>3. /\ own' \in [files : Trees, base : Trees, meddled : SUBSET Paths, changed : SUBSET Paths]
        /\ own'.base = snapshot'.files /\ own'.files = own.files /\ own'.meddled = own.meddled
        /\ own'.changed = own.changed
    BY <2>1, <2>2 DEF OverlayInv, OverlayTypes
  <2> QED BY <2>1, <2>2, <2>3 DEF OverlayInv, OverlayTypes, PromotionInv, CopyInv, UndoInv, Unpromoted
<1>2. CASE Materialize
  <2>1. copy' \in Trees
    BY <1>2 DEF Materialize, OverlayInv, OverlayTypes, Trees
  <2>2. CopyInv'
    <3> SUFFICES ASSUME cow, ignored = Secret, NEW f \in Plain PROVE copy'[f] = own.files[f]
      BY <1>2 DEF Materialize, CopyInv
    <3>1. tree = own.files /\ f \notin Secret /\ f \in Paths
      BY <1>2, OverlayAssumption DEF Materialize, OverlayInv, PromotionInv, Unpromoted, OverlayAssumption, Paths
    <3> QED BY <1>2, <3>1 DEF Materialize
  <2> QED BY <1>2, <2>1, <2>2 DEF Materialize, OverlayInv, OverlayTypes, PromotionInv, UndoInv, Unpromoted
<1>3. CASE RunIsOver
  BY <1>3 DEF RunIsOver, OverlayInv, OverlayTypes, PromotionInv, CopyInv, UndoInv, Unpromoted
<1>4. CASE StartPromotion
  BY <1>4 DEF StartPromotion, PromotesWhen, Promotable, OverlayInv, OverlayTypes, PromotionInv, CopyInv, UndoInv,
              Unpromoted
<1> QED BY <1>1, <1>2, <1>3, <1>4

\* The tools write into the overlay, or, without one, what the user sees.
LEMMA ToolWritesStep ==
  ASSUME OverlayInv, ToolWrites
  PROVE  OverlayInv'
<1>1. phase = "works" /\ UNCHANGED <<cow, ignored, snapshot, phase, verdict, todo, undo>>
  BY DEF ToolWrites
<1>2. PICK f \in Paths, v \in Texts \union {Gone} :
        IF cow
        THEN /\ copy' = [copy EXCEPT ![f] = v]
             /\ own' = [own EXCEPT !.changed = @ \union {f}] /\ UNCHANGED tree
        ELSE /\ tree' = [tree EXCEPT ![f] = v]
             /\ own' = [own EXCEPT !.files[f] = v] /\ UNCHANGED copy
  BY DEF ToolWrites
<1>3. undo.stage = "none" /\ ~undo.late
  BY <1>1 DEF OverlayInv, PromotionInv, UndoInv
<1>4. CASE cow
  <2>1. copy' \in Trees /\ UNCHANGED tree /\ \A g \in Paths \ {f} : copy'[g] = copy[g]
    BY <1>2, <1>4 DEF OverlayInv, OverlayTypes, Trees
  <2>2. /\ own' \in [files : Trees, base : Trees, meddled : SUBSET Paths, changed : SUBSET Paths]
        /\ own'.files = own.files /\ own'.base = own.base /\ own'.meddled = own.meddled
        /\ own'.changed = own.changed \union {f}
    BY <1>2, <1>4 DEF OverlayInv, OverlayTypes
  <2>3. CopyInv'
    BY <1>1, <2>1, <2>2 DEF OverlayInv, CopyInv, Paths
  <2> QED BY <1>1, <1>3, <2>1, <2>2, <2>3 DEF OverlayInv, OverlayTypes, PromotionInv, UndoInv, Unpromoted
<1>5. CASE ~cow
  <2>1. tree' \in Trees /\ UNCHANGED copy
    BY <1>2, <1>5 DEF OverlayInv, OverlayTypes, Trees
  <2>2. /\ own' \in [files : Trees, base : Trees, meddled : SUBSET Paths, changed : SUBSET Paths]
        /\ own'.base = own.base /\ own'.meddled = own.meddled /\ own'.changed = own.changed
    BY <1>2, <1>5 DEF OverlayInv, OverlayTypes, Trees
  <2> QED BY <1>1, <1>3, <1>5, <2>1, <2>2 DEF OverlayInv, OverlayTypes, PromotionInv, CopyInv, UndoInv, Unpromoted
<1> QED BY <1>4, <1>5

LEMMA PromoteStep ==
  ASSUME OverlayInv, NEW f \in Paths, PromoteFile(f) \/ RemoveFile(f)
  PROVE  OverlayInv'
<1>1. /\ phase \in {"promotes", "removes"} /\ f \in todo /\ todo' = todo \ {f}
      /\ UNCHANGED <<cow, ignored, copy, snapshot, phase, verdict, undo, own>>
  BY DEF PromoteFile, RemoveFile
<1>2. /\ phase = "promotes" => tree' = [tree EXCEPT ![f] = copy[f]]
      /\ phase = "removes" => tree' = [tree EXCEPT ![f] = Gone]
  BY DEF PromoteFile, RemoveFile
<1>3. copy[f] \in Texts \union {Gone} /\ f \in Plain /\ f \notin Secret
  BY <1>1, OverlayAssumption DEF OverlayAssumption, OverlayInv, OverlayTypes, Trees
<1>4. /\ tree' \in Trees /\ \A g \in Paths \ {f} : tree'[g] = tree[g]
      /\ phase = "promotes" => tree'[f] = copy[f]
      /\ phase = "removes" => tree'[f] = Gone
  BY <1>1, <1>2, <1>3, TreeWritten DEF OverlayInv
<1>5. OverlayTypes'
  BY <1>1, <1>4 DEF OverlayInv, OverlayTypes
<1>6. PromotionInv'
  BY <1>1, <1>3, <1>4 DEF OverlayInv, PromotionInv, Unpromoted, Paths
<1>7. CopyInv' /\ UndoInv'
  BY <1>1 DEF OverlayInv, CopyInv, UndoInv
<1> QED BY <1>5, <1>6, <1>7 DEF OverlayInv

LEMMA PromotionStep ==
  ASSUME OverlayInv, ListRemoved \/ Promoted \/ PromotionFails
  PROVE  OverlayInv'
<1>1. CASE ListRemoved
  BY <1>1 DEF ListRemoved, Promotable, OverlayInv, OverlayTypes, PromotionInv, CopyInv, UndoInv, Unpromoted
<1>2. CASE Promoted
  BY <1>2 DEF Promoted, OverlayInv, OverlayTypes, PromotionInv, CopyInv, UndoInv, Unpromoted
<1>3. CASE PromotionFails
  BY <1>3 DEF PromotionFails, OverlayInv, OverlayTypes, PromotionInv, CopyInv, UndoInv, Unpromoted
<1> QED BY <1>1, <1>2, <1>3

LEMMA UndoStep ==
  ASSUME OverlayInv, BeginUndo \/ UndoListed \/ Undone \/ \E f \in Paths : UndoRemoves(f) \/ UndoWrites(f)
  PROVE  OverlayInv'
<1> USE DEF OverlayInv
<1>1. CASE BeginUndo
  <2>1. /\ undo.stage = "none" /\ phase \in {"idle", "promotes", "removes", "over"} /\ ~Refuses
        /\ undo' = [stage |-> "removes", late |-> phase = "over", left |-> Present(tree) \ Captured]
        /\ own' = [own EXCEPT !.meddled = {}]
        /\ UNCHANGED <<cow, ignored, tree, copy, snapshot, phase, verdict, todo>>
    BY <1>1 DEF BeginUndo
  <2>2. snapshot.whole /\ Captured = Present(snapshot.files)
    BY <2>1, CapturedAll DEF Refuses
  <2>3. /\ undo' \in [stage : {"none", "removes", "writes", "done"}, left : SUBSET Paths, late : BOOLEAN]
        /\ undo'.stage = "removes" /\ undo'.left = Present(tree) \ Captured /\ undo'.late <=> phase = "over"
    BY <2>1 DEF Present
  <2>4. /\ own' \in [files : Trees, base : Trees, meddled : SUBSET Paths, changed : SUBSET Paths]
        /\ own'.base = own.base /\ own'.files = own.files /\ own'.changed = own.changed
        /\ own'.meddled = {}
    BY <2>1 DEF OverlayTypes
  <2>5. OverlayTypes'
    BY <2>1, <2>3, <2>4 DEF OverlayTypes
  <2>6. PromotionInv' /\ CopyInv' /\ UndoInv'
    BY <2>1, <2>2, <2>3, <2>4 DEF PromotionInv, CopyInv, UndoInv, Present
  <2> QED BY <2>5, <2>6
<1>2. CASE UndoListed
  <2>1. /\ undo.stage = "removes" /\ undo.left = {}
        /\ undo' = [undo EXCEPT !.stage = "writes", !.left = Captured]
        /\ UNCHANGED <<cow, ignored, tree, copy, snapshot, phase, verdict, todo, own>>
    BY <1>2 DEF UndoListed
  <2>2. snapshot.whole /\ Captured = Present(snapshot.files)
    BY <2>1, CapturedAll DEF UndoInv
  <2>3. /\ undo' \in [stage : {"none", "removes", "writes", "done"}, left : SUBSET Paths, late : BOOLEAN]
        /\ undo'.stage = "writes" /\ undo'.left = Present(snapshot.files) /\ undo'.late = undo.late
    BY <2>1, <2>2 DEF Present, OverlayTypes
  <2>4. OverlayTypes' /\ PromotionInv' /\ CopyInv'
    BY <2>1, <2>3 DEF OverlayTypes, PromotionInv, CopyInv
  <2>5. UndoInv'
    BY <2>1, <2>2, <2>3 DEF UndoInv, Present, OverlayTypes
  <2> QED BY <2>4, <2>5
<1>3. CASE Undone
  <2>1. /\ undo.stage = "writes" /\ undo.left = {} /\ undo' = [undo EXCEPT !.stage = "done"]
        /\ UNCHANGED <<cow, ignored, tree, copy, snapshot, phase, verdict, todo, own>>
    BY <1>3 DEF Undone
  <2>2. /\ undo' \in [stage : {"none", "removes", "writes", "done"}, left : SUBSET Paths, late : BOOLEAN]
        /\ undo'.stage = "done" /\ undo'.late = undo.late
    BY <2>1 DEF OverlayTypes
  <2>3. OverlayTypes' /\ PromotionInv' /\ CopyInv'
    BY <2>1, <2>2 DEF OverlayTypes, PromotionInv, CopyInv
  <2>4. UndoInv'
    BY <2>1, <2>2 DEF UndoInv, OverlayTypes, Trees
  <2> QED BY <2>3, <2>4
<1>4. ASSUME NEW f \in Paths, UndoRemoves(f) \/ UndoWrites(f)
      PROVE  OverlayInv'
  <2>1. PICK v \in Texts \union {Gone} :
          /\ tree' = [tree EXCEPT ![f] = v]
          /\ undo.stage = "removes" => v = Gone
          /\ undo.stage = "writes" => v = snapshot.files[f]
    BY <1>4 DEF UndoRemoves, UndoWrites, OverlayTypes, Trees
  <2>2. /\ undo.stage \in {"removes", "writes"} /\ undo' = [undo EXCEPT !.left = @ \ {f}]
        /\ UNCHANGED <<cow, ignored, copy, snapshot, phase, verdict, todo, own>>
    BY <1>4 DEF UndoRemoves, UndoWrites
  <2>3. tree' \in Trees /\ tree'[f] = v /\ \A g \in Paths \ {f} : tree'[g] = tree[g]
    BY <1>4, <2>1, TreeWritten
  <2>4. /\ undo' \in [stage : {"none", "removes", "writes", "done"}, left : SUBSET Paths, late : BOOLEAN]
        /\ undo'.stage = undo.stage /\ undo'.left = undo.left \ {f} /\ undo'.late = undo.late
    BY <2>2 DEF OverlayTypes
  <2>5. OverlayTypes' /\ PromotionInv' /\ CopyInv'
    BY <2>2, <2>3, <2>4 DEF OverlayTypes, PromotionInv, CopyInv
  <2>6. UndoInv'
    BY <2>1, <2>2, <2>3, <2>4 DEF UndoInv, Present
  <2> QED BY <2>5, <2>6
<1> QED BY <1>1, <1>2, <1>3, <1>4

LEMMA OverlayStep == OverlayInv /\ [OverlayNext]_overlayVars => OverlayInv'
<1> SUFFICES ASSUME OverlayInv, [OverlayNext]_overlayVars PROVE OverlayInv'
  OBVIOUS
<1>1. CASE UNCHANGED overlayVars
  BY <1>1 DEF overlayVars, OverlayInv, OverlayTypes, PromotionInv, CopyInv, UndoInv, Incomplete, Present
<1>2. CASE OverlayNext
  BY <1>2, EditStep, RunOverlayStep, ToolWritesStep, PromoteStep, PromotionStep, UndoStep DEF OverlayNext
<1> QED BY <1>1, <1>2

\* On an overlay the workspace is what the user made of it unless the run has succeeded.
\* His secret files stay so even then, and once all is promoted every other file is what
\* the run left, but for those he edited meanwhile; one that nobody has changed since the
\* copy is as it was, unless the name of the folder looked secret: for any files and any
\* number of edits (cow.py:100, credentials.py:133, docs/security.md:33).
THEOREM WorkspaceStaysTheUsers == OverlaySpec => []WorkspaceIsTheUsers
<1>1. OverlayInv => WorkspaceIsTheUsers
  BY DEF OverlayInv, OverlayTypes, PromotionInv, CopyInv, WorkspaceIsTheUsers, HalfPromoted, Unpromoted
<1> QED BY <1>1, OverlayInitially, OverlayStep, PTL DEF OverlaySpec

\* A rollback that begins when the run is all over and in which the user edits nothing
\* brings the workspace back to the byte, secret files included, whatever was in it
\* (diffing.py:101).
THEOREM RollbackExact == OverlaySpec => []RollbackIsExact
<1>1. OverlayInv => RollbackIsExact
  BY DEF OverlayInv, OverlayTypes, UndoInv, RollbackIsExact
<1> QED BY <1>1, OverlayInitially, OverlayStep, PTL DEF OverlaySpec
====
