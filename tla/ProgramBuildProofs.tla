------------------------- MODULE ProgramBuildProofs -------------------------
(***************************************************************************)
(* Proofs about ProgramBuild, for any devices, any number of Programs and  *)
(* of builds: raw_callback finds its block and a callback in it, nothing   *)
(* leaks, build events tell the truth, and the whole implements            *)
(* BuildPromise.  What makes it so is that the one callback the block has  *)
(* room for stands for the one build in progress, in one of three stages.  *)
(***************************************************************************)
EXTENDS ProgramBuild, TLAPS

\* The host is in raw_build_program exactly for the build that has been called and
\* has not returned.
HostAgrees ==
  /\ host.at = "idle" => host.b = None
  /\ host.at # "idle" => host.b \in Builds /\ build[host.b].outcome = "called"
  /\ \A b \in Builds : build[b].outcome = "called" => host.at # "idle" /\ host.b = b
  /\ \A b \in Builds : Kind(b) = "none" <=> build[b].outcome = "none"

\* The host makes its builds in order.
Ordered ==
  /\ \A b, c \in Builds : b < c /\ Kind(c) # "none" => Kind(b) # "none"
  /\ host.at # "idle" => \A c \in Builds : host.b < c => Kind(c) = "none"

\* The host is done with build b, or clBuildProgram has accepted it.
PastCall(b) == host.at = "idle" \/ (host.at = "started" /\ host.b = b)

\* A stored callback belongs to the one build in progress: clBuildProgram has not
\* accepted it yet, or the runtime compiles it, or raw_callback is at work on it.
\* With no callback stored, only a synchronous build can be in progress.
OneBuild ==
  /\ callback = None =>
       /\ notify = Away
       /\ host.at = "call" => Kind(host.b) = "sync"
       /\ running # None => /\ host.at = "started" /\ host.b = running
                            /\ Kind(running) = "sync"
  /\ callback # None =>
       \/ /\ host.at = "call" /\ host.b = callback
          /\ running = None /\ notify = Away
       \/ PastCall(callback) /\ running = callback /\ notify = Away
       \/ /\ PastCall(callback) /\ running = None
          /\ notify.b = callback /\ notify.at \in {"pending", "calling", "called"}

\* What the runtime is at work on has been accepted and is the last that was.
WorkLatest ==
  /\ callback # None => /\ build[callback].outcome \in {"called", "started"}
                        /\ Latest(callback)
  /\ running # None => /\ build[running].outcome \in {"called", "started"}
                       /\ Latest(running)

\* A user's callback leaves the block to the host's Programs.
BlockHeld == callback # None /\ Kind(callback) = "plain" => programs # {}

\* raw_callback runs after the compilation, and its loop has left behind only
\* devices that were built.
StatusKnown ==
  notify.at # "idle" =>
    /\ \A d \in build[notify.b].devices : status[d] \in {"success", "error"}
    /\ notify.at = "calling" =>
         /\ notify.left \subseteq build[notify.b].devices
         /\ \A d \in build[notify.b].devices \ notify.left : status[d] = "success"

\* The event of a build is set exactly when its callback has been called.
EventsAgree ==
  \A b \in Builds :
    /\ event[b] # "unset" =>
         Kind(b) = "event" /\ build[b].outcome \in {"called", "started"}
    /\ Kind(b) = "event" /\ build[b].outcome \in {"called", "started"} =>
         (event[b] = "unset" <=> callback = b /\ notify.at # "called")

\* EventTellsTruth, wherever the host is.
Truth ==
  \A b \in Builds :
    event[b] # "unset" /\ Latest(b) =>
      (event[b] = "complete" <=> \A d \in build[b].devices : status[d] = "success")

IInv ==
  /\ TypeOK /\ HostAgrees /\ Ordered /\ OneBuild /\ WorkLatest /\ BlockHeld
  /\ StatusKnown /\ EventsAgree /\ Truth

USE ProgramBuildAssumption

-----------------------------------------------------------------------------
(* Lemmas. *)

LEMMA NoneNoBuild == None \notin Builds
BY DEF Builds

\* Latest, over the builds.
LEMMA LatestMeans ==
  ASSUME NEW b \in Builds
  PROVE  /\ Latest(b) <=> \A c \in Builds : b < c =>
                            build[c].outcome \in {"none", "rejected"}
         /\ Latest(b)' <=> \A c \in Builds : b < c =>
                            build'[c].outcome \in {"none", "rejected"}
BY DEF Latest, Builds

\* What the next state's conjuncts say of variables that a step leaves alone.
LEMMA Frame ==
  ASSUME IInv, UNCHANGED <<build, host>>
  PROVE  /\ HostAgrees' /\ Ordered'
         /\ \A b \in Builds : Latest(b)' = Latest(b) /\ Kind(b)' = Kind(b)
BY DEF IInv, HostAgrees, Ordered, Latest, Kind

-----------------------------------------------------------------------------
(* The invariant, action by action. *)

LEMMA InitIInv == Init => IInv
<1> SUFFICES ASSUME Init PROVE IInv
  OBVIOUS
<1> USE DEF Init, Unused, Idle, Away, Kind
<1>1. TypeOK
  BY DEF TypeOK
<1>2. HostAgrees /\ Ordered /\ EventsAgree /\ Truth
  BY DEF HostAgrees, Ordered, EventsAgree, Truth
<1>3. OneBuild /\ WorkLatest /\ BlockHeld /\ StatusKnown
  BY DEF OneBuild, WorkLatest, BlockHeld, StatusKnown
<1>4. QED
  BY <1>1, <1>2, <1>3 DEF IInv

\* A call of build or build_with_event: with a callback stored it is rejected, else
\* no build is in progress, and this one is the last.
LEMMA BuildEnterIInv ==
  ASSUME IInv, NEW n \in Builds, NEW k \in {"sync", "plain", "event"},
         NEW T \in SUBSET Devices, BuildEnter(n, k, T)
  PROVE  IInv'
<1> USE DEF Kind
<1>0. /\ host = Idle /\ host.at = "idle" /\ Kind(n) = "none" /\ programs # {}
      /\ n > 1 => Kind(n - 1) # "none"
      /\ UNCHANGED <<programs, status, running, notify, leaving, event, kernel>>
      /\ build' = [build EXCEPT ![n] =
           [kind |-> k, devices |-> T,
            outcome |-> IF callback # None THEN "rejected" ELSE "called"]]
      /\ callback # None => callback' = callback /\ host' = host
      /\ callback = None => /\ callback' = IF k = "sync" THEN None ELSE n
                            /\ host' = [at |-> "call", b |-> n]
  BY DEF BuildEnter, Occupied, Stored, Idle
<1>1. TypeOK'
  BY <1>0 DEF IInv, TypeOK
<1>2. /\ \A c \in Builds : c # n => build'[c] = build[c]
      /\ build'[n] = [kind |-> k, devices |-> T,
                      outcome |-> IF callback # None THEN "rejected" ELSE "called"]
  BY <1>0 DEF IInv, TypeOK
<1>3. /\ \A c \in Builds : n < c => Kind(c) = "none"
      /\ \A c \in Builds : c < n => Kind(c) # "none"
  BY <1>0 DEF IInv, Ordered, Builds
<1>4. HostAgrees'
  BY <1>0, <1>2 DEF IInv, HostAgrees
<1>5. Ordered'
  BY <1>0, <1>2, <1>3 DEF IInv, Ordered, Builds
<1>6. /\ build[n].outcome = "none" /\ event[n] = "unset"
      /\ callback # n /\ running # n
  BY <1>0, NoneNoBuild DEF IInv, HostAgrees, EventsAgree, WorkLatest
<1>7. OneBuild'
  BY <1>0, <1>2, <1>6 DEF IInv, TypeOK, OneBuild, PastCall
<1>8. \A b \in Builds :
        Latest(b)' <=> Latest(b) /\ (b < n => callback # None)
  BY <1>2, <1>6, LatestMeans
<1>9. WorkLatest'
  BY <1>0, <1>2, <1>3, <1>6, <1>8, LatestMeans DEF IInv, TypeOK, OneBuild, WorkLatest,
     HostAgrees
<1>10. BlockHeld'
  BY <1>0 DEF BlockHeld
<1>11. notify.at # "idle" => notify.b # n /\ notify.b \in Builds
  BY <1>6 DEF IInv, TypeOK, OneBuild, Away
<1>12. StatusKnown'
  BY <1>0, <1>2, <1>11 DEF IInv, StatusKnown
<1>13. EventsAgree'
  BY <1>0, <1>2, <1>6, NoneNoBuild DEF IInv, TypeOK, OneBuild, EventsAgree, Away
<1>14. Truth'
  BY <1>0, <1>2, <1>6, <1>8 DEF IInv, Truth
<1>15. QED
  BY <1>1, <1>4, <1>5, <1>7, <1>9, <1>10, <1>12, <1>13, <1>14 DEF IInv

\* The host's other steps around the build: clBuildProgram accepts, refuses or
\* returns.
LEMMA BuildStartIInv == IInv /\ BuildStart => IInv'
<1> SUFFICES ASSUME IInv, BuildStart PROVE IInv'
  OBVIOUS
<1> USE DEF Kind
<1> DEFINE n == host.b
<1>1. /\ host.at = "call" /\ running = None /\ running' = n
      /\ status' = [d \in Devices |-> IF d \in build[n].devices THEN "in_progress"
                                      ELSE status[d]]
      /\ host' = [host EXCEPT !.at = "started"]
      /\ UNCHANGED <<programs, callback, build, notify, leaving, event, kernel>>
  BY DEF BuildStart
<1>2. /\ n \in Builds /\ build[n].outcome = "called" /\ Kind(n) # "none"
      /\ host' = [at |-> "started", b |-> n]
  BY <1>1 DEF IInv, TypeOK, HostAgrees
<1>3. TypeOK'
  BY <1>1, <1>2 DEF IInv, TypeOK
<1>4. HostAgrees' /\ Ordered'
  BY <1>1, <1>2 DEF IInv, HostAgrees, Ordered
<1>5. OneBuild'
  BY <1>1, <1>2 DEF IInv, OneBuild, PastCall, Away
<1>6. Latest(n)' /\ \A b \in Builds : Latest(b)' = Latest(b)
  <2>1. \A c \in Builds : n < c => build[c].outcome = "none"
    BY <1>1 DEF IInv, HostAgrees, Ordered
  <2>2. QED
    BY <1>1, <1>2, <2>1 DEF Latest, Builds
<1>7. WorkLatest'
  BY <1>1, <1>2, <1>6, NoneNoBuild DEF IInv, TypeOK, WorkLatest
<1>8. BlockHeld'
  BY <1>1 DEF IInv, BlockHeld
<1>9. notify.at = "idle"
  BY <1>1 DEF IInv, OneBuild, PastCall, Away
<1>10. StatusKnown'
  BY <1>1, <1>9 DEF StatusKnown
<1>11. EventsAgree'
  BY <1>1 DEF IInv, EventsAgree
<1>12. ASSUME NEW b \in Builds, event[b] # "unset" PROVE ~Latest(b)
  <2>1. Kind(b) = "event" /\ ~(callback = b /\ notify.at # "called")
    BY <1>12 DEF IInv, EventsAgree
  <2>2. b # n
    BY <1>1, <1>9, <2>1 DEF IInv, OneBuild, PastCall
  <2>3. b < n
    BY <1>1, <1>2, <2>1, <2>2 DEF IInv, Ordered, Builds
  <2>4. QED
    BY <1>2, <2>3, LatestMeans
<1>13. Truth'
  BY <1>1, <1>6, <1>12 DEF Truth
<1>14. QED
  BY <1>3, <1>4, <1>5, <1>7, <1>8, <1>10, <1>11, <1>13 DEF IInv

LEMMA BuildRefusedIInv == IInv /\ BuildRefused => IInv'
<1> SUFFICES ASSUME IInv, BuildRefused PROVE IInv'
  OBVIOUS
<1> USE DEF Kind
<1> DEFINE n == host.b
<1>1. /\ host.at = "call" /\ host' = Idle /\ callback' = None
      /\ build' = [build EXCEPT ![n].outcome = "failed"]
      /\ UNCHANGED <<programs, status, running, notify, leaving, event, kernel>>
  BY DEF BuildRefused
<1>2. /\ n \in Builds /\ build[n].outcome = "called" /\ Kind(n) # "none"
      /\ host'.at = "idle" /\ host'.b = None
  BY <1>1 DEF IInv, TypeOK, HostAgrees, Idle
<1>3. /\ build'[n].outcome = "failed"
      /\ \A b \in Builds : b # n => build'[b].outcome = build[b].outcome
      /\ \A b \in Builds : /\ build'[b].kind = build[b].kind
                           /\ build'[b].devices = build[b].devices
  BY <1>1, <1>2 DEF IInv, TypeOK
<1>4. TypeOK'
  BY <1>1, <1>2, <1>3 DEF IInv, TypeOK, Idle
<1>5. HostAgrees' /\ Ordered'
  <2>1. HostAgrees'
    BY <1>2, <1>3 DEF IInv, HostAgrees
  <2>2. Ordered'
    BY <1>2, <1>3 DEF IInv, Ordered
  <2>3. QED
    BY <2>1, <2>2
<1>6. /\ running = None /\ notify = Away
      /\ callback = n \/ Kind(n) = "sync"
  BY <1>1 DEF IInv, OneBuild, PastCall
<1>7. OneBuild' /\ WorkLatest' /\ BlockHeld' /\ StatusKnown'
  BY <1>1, <1>2, <1>6 DEF OneBuild, WorkLatest, BlockHeld, StatusKnown, Away, Idle
<1>8. event[n] = "unset"
  BY <1>2, <1>6 DEF IInv, EventsAgree, Away
<1>9. EventsAgree'
  BY <1>1, <1>2, <1>3, <1>6, <1>8, NoneNoBuild
  DEF IInv, TypeOK, OneBuild, EventsAgree, PastCall
<1>10. \A b \in Builds : Latest(b)' => Latest(b) \/ b = n
  BY <1>2, <1>3, LatestMeans
<1>11. Truth'
  BY <1>1, <1>3, <1>8, <1>10 DEF IInv, Truth
<1>12. QED
  BY <1>4, <1>5, <1>7, <1>9, <1>11 DEF IInv

LEMMA BuildReturnIInv == IInv /\ BuildReturn => IInv'
<1> SUFFICES ASSUME IInv, BuildReturn PROVE IInv'
  OBVIOUS
<1> USE DEF Kind
<1> DEFINE n == host.b
           failed == Kind(n) = "sync" /\ \E d \in build[n].devices : status[d] = "error"
           how == IF failed THEN "failed" ELSE "started"
<1>1. /\ host.at = "started" /\ host' = Idle
      /\ Kind(n) = "sync" => running = None
      /\ callback' = IF failed THEN None ELSE callback
      /\ build' = [build EXCEPT ![n].outcome = how]
      /\ UNCHANGED <<programs, status, running, notify, leaving, event, kernel>>
  BY DEF BuildReturn
<1>2. /\ n \in Builds /\ build[n].outcome = "called" /\ Kind(n) # "none"
      /\ host'.at = "idle" /\ host'.b = None
  BY <1>1 DEF IInv, TypeOK, HostAgrees, Idle
<1>3. /\ build'[n].outcome = how /\ how \in {"failed", "started"}
      /\ Kind(n) # "sync" => how = "started"
      /\ \A b \in Builds : b # n => build'[b].outcome = build[b].outcome
      /\ \A b \in Builds : /\ build'[b].kind = build[b].kind
                           /\ build'[b].devices = build[b].devices
  BY <1>1, <1>2 DEF IInv, TypeOK
<1>4. callback' = callback
  BY <1>1, <1>2 DEF IInv, TypeOK, OneBuild, PastCall
<1> HIDE DEF how, failed
<1>5. TypeOK'
  BY <1>1, <1>2, <1>3, <1>4 DEF IInv, TypeOK, Idle
<1>6. HostAgrees' /\ Ordered'
  <2>1. HostAgrees'
    BY <1>2, <1>3 DEF IInv, HostAgrees
  <2>2. Ordered'
    BY <1>2, <1>3 DEF IInv, Ordered
  <2>3. QED
    BY <2>1, <2>2
<1>7. OneBuild'
  BY <1>1, <1>2, <1>3, <1>4 DEF IInv, TypeOK, OneBuild, PastCall
<1>8. \A b \in Builds : Latest(b)' <=> Latest(b)
  BY <1>2, <1>3, LatestMeans
<1>9. WorkLatest'
  BY <1>1, <1>2, <1>3, <1>4, <1>8 DEF IInv, TypeOK, OneBuild, WorkLatest
<1>10. BlockHeld'
  BY <1>1, <1>3, <1>4 DEF IInv, TypeOK, BlockHeld
<1>11. notify.at # "idle" => notify.b \in Builds
  BY DEF IInv, TypeOK, OneBuild, Away
<1>12. StatusKnown'
  BY <1>1, <1>3, <1>11 DEF IInv, StatusKnown
<1>13. EventsAgree'
  BY <1>1, <1>2, <1>3, <1>4 DEF IInv, EventsAgree
<1>14. Truth'
  BY <1>1, <1>3, <1>8 DEF IInv, Truth
<1>15. QED
  BY <1>5, <1>6, <1>7, <1>9, <1>10, <1>12, <1>13, <1>14 DEF IInv

\* The compilation of the last build that was accepted ends.
LEMMA CompileEndIInv ==
  ASSUME IInv, NEW good \in SUBSET Devices, CompileEnd(good)
  PROVE  IInv'
<1> USE DEF Kind
<1> DEFINE r == running
<1>1. /\ r # None /\ notify = Away /\ running' = None
      /\ good \subseteq build[r].devices
      /\ status' = [d \in Devices |-> IF d \in good THEN "success"
                                      ELSE IF d \in build[r].devices THEN "error"
                                      ELSE status[d]]
      /\ notify' = IF Kind(r) = "sync" THEN Away
                   ELSE [at |-> "pending", b |-> r, left |-> {}]
      /\ UNCHANGED <<programs, callback, build, host, leaving, event, kernel>>
  BY DEF CompileEnd
<1>2. r \in Builds /\ Latest(r) /\ build[r].outcome \in {"called", "started"}
  BY <1>1 DEF IInv, TypeOK, WorkLatest
<1>3. TypeOK'
  BY <1>1, <1>2 DEF IInv, TypeOK, Away
<1>4. HostAgrees' /\ Ordered' /\ \A b \in Builds : Latest(b)' = Latest(b)
  BY <1>1, Frame
<1>5. \/ callback = None /\ Kind(r) = "sync"
      \/ callback = r /\ PastCall(r) /\ Kind(r) # "sync"
  BY <1>1 DEF IInv, TypeOK, OneBuild, Away
<1>6. OneBuild'
  BY <1>1, <1>2, <1>5, NoneNoBuild DEF IInv, OneBuild, PastCall, Away
<1>7. WorkLatest'
  BY <1>1, <1>4 DEF IInv, TypeOK, WorkLatest
<1>8. BlockHeld'
  BY <1>1 DEF IInv, BlockHeld
<1>9. StatusKnown'
  <2>1. \A d \in build[r].devices : status'[d] \in {"success", "error"}
    BY <1>1, <1>2 DEF IInv, TypeOK
  <2>2. notify'.at # "idle" => notify'.b = r /\ notify'.at = "pending"
    BY <1>1 DEF Away
  <2>3. QED
    BY <1>1, <2>1, <2>2 DEF StatusKnown
<1>10. EventsAgree'
  BY <1>1, <1>5 DEF IInv, EventsAgree, Away
<1>11. ASSUME NEW b \in Builds, event[b] # "unset" PROVE ~Latest(b)
  <2>1. /\ Kind(b) = "event" /\ build[b].outcome \in {"called", "started"}
        /\ callback # b
    BY <1>1, <1>11 DEF IInv, EventsAgree, Away
  <2>2. b # r
    BY <1>5, <2>1
  <2>3. ~(r < b)
    BY <1>2, <2>1, LatestMeans
  <2>4. b < r
    BY <1>2, <2>2, <2>3 DEF Builds
  <2>5. QED
    BY <1>2, <2>4, LatestMeans
<1>12. Truth'
  BY <1>1, <1>4, <1>11 DEF Truth
<1>13. QED
  BY <1>3, <1>4, <1>6, <1>7, <1>8, <1>9, <1>10, <1>12 DEF IInv

\* What raw_callback is at work on.
LEMMA Notified ==
  ASSUME IInv, notify.at # "idle"
  PROVE  /\ callback = notify.b /\ notify.b \in Builds /\ running = None
         /\ PastCall(callback) /\ build[callback].devices \subseteq Devices
         /\ Kind(callback) \in {"plain", "event"}
         /\ build[callback].outcome \in {"called", "started"}
BY DEF IInv, TypeOK, OneBuild, WorkLatest, Away

\* It copies the callback.
LEMMA NotifyCopyIInv == IInv /\ NotifyCopy => IInv'
<1> SUFFICES ASSUME IInv, NotifyCopy PROVE IInv'
  OBVIOUS
<1> USE DEF Kind
<1>1. /\ notify.at = "pending" /\ callback \in Builds
      /\ notify' = [at |-> "calling", b |-> callback, left |-> build[callback].devices]
      /\ UNCHANGED <<programs, callback, build, host, status, running, leaving, event,
                     kernel>>
  BY Notified DEF NotifyCopy
<1>2. TypeOK'
  BY <1>1, Notified DEF IInv, TypeOK
<1>3. HostAgrees' /\ Ordered' /\ \A b \in Builds : Latest(b)' = Latest(b)
  BY <1>1, Frame
<1>4. OneBuild'
  BY <1>1, Notified, NoneNoBuild DEF OneBuild, PastCall
<1>5. WorkLatest' /\ BlockHeld' /\ Truth'
  BY <1>1, <1>3, NoneNoBuild, Notified DEF IInv, WorkLatest, BlockHeld, Truth
<1>6. StatusKnown'
  BY <1>1, Notified DEF IInv, StatusKnown
<1>7. EventsAgree'
  BY <1>1 DEF IInv, EventsAgree
<1>8. QED
  BY <1>2, <1>3, <1>4, <1>5, <1>6, <1>7 DEF IInv

\* Its loop goes past a device that was built.
LEMMA ScanSuccessIInv ==
  ASSUME IInv, NEW d \in Devices, NotifyScan(d), status[d] = "success"
  PROVE  IInv'
<1> USE DEF Kind
<1>1. /\ notify.at = "calling" /\ Kind(notify.b) = "event"
      /\ notify' = [notify EXCEPT !.left = @ \ {d}]
      /\ UNCHANGED <<programs, callback, build, host, status, running, leaving, event,
                     kernel>>
  BY DEF NotifyScan
<1>2. TypeOK'
  BY <1>1 DEF IInv, TypeOK
<1>3. /\ notify'.at = "calling" /\ notify'.b = notify.b
      /\ notify'.left = notify.left \ {d}
  BY <1>1 DEF IInv, TypeOK
<1>4. HostAgrees' /\ Ordered' /\ \A b \in Builds : Latest(b)' = Latest(b)
  BY <1>1, Frame
<1>5. OneBuild'
  BY <1>1, <1>3, Notified, NoneNoBuild DEF OneBuild, PastCall
<1>6. WorkLatest' /\ BlockHeld' /\ Truth'
  BY <1>1, <1>4, NoneNoBuild, Notified DEF IInv, WorkLatest, BlockHeld, Truth
<1>7. StatusKnown'
  BY <1>1, <1>3 DEF IInv, StatusKnown
<1>8. EventsAgree'
  BY <1>1, <1>3 DEF IInv, EventsAgree
<1>9. QED
  BY <1>2, <1>4, <1>5, <1>6, <1>7, <1>8 DEF IInv

\* The callback has been called: its event, if it has one, is set to what the status
\* of the devices says.
LEMMA CalledIInv ==
  ASSUME IInv, notify.at = "calling", NEW e \in {"complete", "failed"},
         notify' = [notify EXCEPT !.at = "called"],
         event' = IF Kind(notify.b) = "event" THEN [event EXCEPT ![notify.b] = e]
                  ELSE event,
         Kind(notify.b) = "event" =>
           (e = "complete" <=> \A d \in build[notify.b].devices : status[d] = "success"),
         UNCHANGED <<programs, callback, build, host, status, running, leaving, kernel>>
  PROVE  IInv'
<1> USE DEF Kind
<1>1. TypeOK'
  BY DEF IInv, TypeOK
<1>2. notify'.at = "called" /\ notify'.b = notify.b
  BY DEF IInv, TypeOK
<1>3. HostAgrees' /\ Ordered' /\ \A b \in Builds : Latest(b)' = Latest(b)
  BY Frame
<1>4. OneBuild'
  BY <1>2, Notified, NoneNoBuild DEF OneBuild, PastCall
<1>5. WorkLatest' /\ BlockHeld'
  BY <1>3, NoneNoBuild, Notified DEF IInv, WorkLatest, BlockHeld
<1>6. StatusKnown'
  BY <1>2 DEF IInv, StatusKnown
<1>7. \A b \in Builds : event'[b] = IF b = notify.b /\ Kind(b) = "event" THEN e
                                    ELSE event[b]
  BY DEF IInv, TypeOK
<1>8. EventsAgree'
  BY <1>2, <1>7, Notified DEF IInv, EventsAgree
<1>9. Truth'
  BY <1>3, <1>7 DEF IInv, Truth
<1>10. QED
  BY <1>1, <1>3, <1>4, <1>5, <1>6, <1>8, <1>9 DEF IInv

LEMMA NotifyResetIInv == IInv /\ NotifyReset => IInv'
<1> SUFFICES ASSUME IInv, NotifyReset PROVE IInv'
  OBVIOUS
<1> USE DEF Kind
<1>1. /\ notify.at = "called" /\ notify.b \in Builds
      /\ callback' = None /\ notify' = Away /\ leaving' = leaving \cup {notify.b}
      /\ UNCHANGED <<programs, build, host, status, running, event, kernel>>
  BY Notified DEF NotifyReset
<1>2. TypeOK'
  BY <1>1 DEF IInv, TypeOK, Away
<1>3. HostAgrees' /\ Ordered' /\ \A b \in Builds : Latest(b)' = Latest(b)
  BY <1>1, Frame
<1>4. OneBuild' /\ WorkLatest' /\ BlockHeld' /\ StatusKnown'
  BY <1>1, Notified DEF OneBuild, PastCall, WorkLatest, BlockHeld, StatusKnown, Away
<1>5. EventsAgree'
  BY <1>1, NoneNoBuild DEF IInv, EventsAgree
<1>6. Truth'
  BY <1>1, <1>3 DEF IInv, Truth
<1>7. QED
  BY <1>2, <1>3, <1>4, <1>5, <1>6 DEF IInv

\* The loop meets no device whose compilation has not ended: nothing throws out of
\* raw_callback.
LEMMA ScanKnown ==
  ASSUME IInv, NEW d \in Devices, NotifyScan(d)
  PROVE  status[d] \in {"success", "error"} /\ d \in build[notify.b].devices
BY DEF NotifyScan, IInv, StatusKnown

LEMMA ScanIInv ==
  ASSUME IInv, NEW d \in Devices, NotifyScan(d)
  PROVE  IInv'
<1>1. CASE status[d] = "success"
  BY <1>1, ScanSuccessIInv
<1>2. CASE status[d] = "error"
  <2>1. /\ notify.at = "calling" /\ Kind(notify.b) = "event"
        /\ notify' = [notify EXCEPT !.at = "called"]
        /\ event' = [event EXCEPT ![notify.b] = "failed"]
        /\ UNCHANGED <<programs, callback, build, host, status, running, leaving, kernel>>
    BY <1>2 DEF NotifyScan, Fail
  <2>2. ~\A c \in build[notify.b].devices : status[c] = "success"
    BY <1>2, ScanKnown
  <2> DEFINE e == "failed"
  <2>3. /\ e \in {"complete", "failed"} /\ e # "complete"
        /\ event' = [event EXCEPT ![notify.b] = e]
    BY <2>1
  <2> HIDE DEF e
  <2>4. QED
    BY <2>1, <2>2, <2>3, CalledIInv
<1>3. QED
  BY <1>1, <1>2, ScanKnown

LEMMA CompleteIInv == IInv /\ NotifyComplete => IInv'
<1> SUFFICES ASSUME IInv, NotifyComplete PROVE IInv'
  OBVIOUS
<1> DEFINE e == "complete"
<1>1. /\ notify.at = "calling" /\ Kind(notify.b) = "event" /\ notify.left = {}
      /\ notify' = [notify EXCEPT !.at = "called"]
      /\ event' = [event EXCEPT ![notify.b] = e] /\ e \in {"complete", "failed"}
      /\ UNCHANGED <<programs, callback, build, host, status, running, leaving, kernel>>
  BY DEF NotifyComplete
<1>2. e = "complete" <=> \A d \in build[notify.b].devices : status[d] = "success"
  BY <1>1 DEF IInv, StatusKnown
<1> HIDE DEF e
<1>3. QED
  BY <1>1, <1>2, CalledIInv

LEMMA UserIInv == IInv /\ NotifyUser => IInv'
<1> SUFFICES ASSUME IInv, NotifyUser PROVE IInv'
  OBVIOUS
<1>1. /\ notify.at = "calling" /\ Kind(notify.b) # "event"
      /\ notify' = [notify EXCEPT !.at = "called"]
      /\ UNCHANGED <<programs, callback, build, host, status, running, leaving, event,
                     kernel>>
  BY DEF NotifyUser
<1> DEFINE e == "complete"
<1>2. e \in {"complete", "failed"}
  OBVIOUS
<1> HIDE DEF e
<1>3. QED
  BY <1>1, <1>2, CalledIInv

\* The rest: Programs come and go, callbacks leave, kernels are created.
LEMMA ProgramsIInv ==
  ASSUME IInv, NEW p \in Programs, CopyProgram(p) \/ DropProgram(p)
  PROVE  IInv'
<1>1. /\ host.at = "idle" /\ programs' \subseteq Programs
      /\ UNCHANGED <<callback, build, host, status, running, notify, leaving, event,
                     kernel>>
  BY DEF CopyProgram, DropProgram, Idle, IInv, TypeOK
<1>2. TypeOK'
  BY <1>1 DEF IInv, TypeOK, Kind
<1>3. HostAgrees' /\ Ordered' /\ \A b \in Builds : Latest(b)' = Latest(b)
  BY <1>1, Frame
<1>4. OneBuild' /\ WorkLatest' /\ StatusKnown' /\ EventsAgree' /\ Truth'
  BY <1>1, <1>3 DEF IInv, TypeOK, OneBuild, PastCall, WorkLatest, StatusKnown,
     EventsAgree, Truth, Kind
<1>5. BlockHeld'
  <2>1. SUFFICES ASSUME callback # None, Kind(callback) = "plain", DropProgram(p)
                 PROVE  programs' # {}
    BY <1>1 DEF BlockHeld, Kind, CopyProgram, IInv
  <2>2. callback \in Builds /\ Pending(callback)
    BY <1>1, <2>1 DEF IInv, TypeOK, OneBuild, Pending
  <2>3. QED
    BY <2>1, <2>2 DEF DropProgram
<1>6. QED
  BY <1>2, <1>3, <1>4, <1>5 DEF IInv

LEMMA SparesIInv ==
  ASSUME IInv, NEW b \in Builds, CreateKernel(b) \/ NotifyLeave(b)
  PROVE  IInv'
<1>1. /\ leaving' \subseteq leaving
      /\ kernel' \in {"none", "build_failed", "created", "no_executable"}
      /\ UNCHANGED <<programs, callback, build, host, status, running, notify, event>>
  BY DEF CreateKernel, NotifyLeave, IInv, TypeOK
<1>2. TypeOK'
  BY <1>1 DEF IInv, TypeOK, Kind
<1>3. HostAgrees' /\ Ordered' /\ \A c \in Builds : Latest(c)' = Latest(c)
  BY <1>1, Frame
<1>4. OneBuild' /\ WorkLatest' /\ StatusKnown' /\ EventsAgree' /\ Truth' /\ BlockHeld'
  BY <1>1, <1>3 DEF IInv, TypeOK, OneBuild, PastCall, WorkLatest, StatusKnown,
     EventsAgree, Truth, BlockHeld, Kind
<1>5. QED
  BY <1>2, <1>3, <1>4 DEF IInv

LEMMA NextIInv == IInv /\ [Next]_vars => IInv'
<1> SUFFICES ASSUME IInv, [Next]_vars PROVE IInv'
  OBVIOUS
<1>1. CASE UNCHANGED vars
  <2>1. HostAgrees' /\ Ordered' /\ \A c \in Builds : Latest(c)' = Latest(c)
    BY <1>1, Frame DEF vars
  <2>2. TypeOK'
    BY <1>1 DEF IInv, vars, TypeOK, Kind
  <2>3. OneBuild' /\ WorkLatest' /\ StatusKnown' /\ EventsAgree' /\ Truth' /\ BlockHeld'
    BY <1>1, <2>1 DEF vars, IInv, TypeOK, OneBuild, PastCall, WorkLatest, StatusKnown,
       EventsAgree, Truth, BlockHeld, Kind
  <2>4. QED
    BY <2>1, <2>2, <2>3 DEF IInv
<1>2. CASE Runtime
  BY <1>2, CompileEndIInv, NotifyCopyIInv, UserIInv, CompleteIInv, NotifyResetIInv,
     ScanIInv DEF Runtime
<1>3. CASE HostCall
  BY <1>3, BuildStartIInv, BuildRefusedIInv, BuildReturnIInv DEF HostCall
<1>4. ASSUME NEW b \in Builds, NEW k \in {"sync", "plain", "event"},
             NEW T \in SUBSET Devices \ {{}}, BuildEnter(b, k, T)
      PROVE  IInv'
  BY <1>4, BuildEnterIInv
<1>5. QED
  BY <1>1, <1>2, <1>3, <1>4, ProgramsIInv, SparesIInv DEF Next

-----------------------------------------------------------------------------
(* Safety. *)

\* IInv is an invariant: it survives every interleaving of the host and the runtime.
THEOREM Invariance == Spec => []IInv
<1>1. QED
  BY InitIInv, NextIInv, PTL DEF Spec

\* Type correctness, and: only callbacks that are not empty are stored.
THEOREM TypeCorrectness == Spec => []TypeOK
<1>1. IInv => TypeOK
  BY DEF IInv
<1>2. QED
  BY <1>1, Invariance, PTL

\* raw_callback finds the block alive, and a callback in it, when it copies the
\* callback and when it resets it.
THEOREM BlockFound == Spec => []NotifyFindsBlock
<1>1. IInv => NotifyFindsBlock
  <2> SUFFICES ASSUME IInv, notify.at \in {"pending", "called"}
               PROVE  BlockOwned /\ callback # None
    BY DEF NotifyFindsBlock
  <2>1. callback # None /\ Kind(callback) \in {"plain", "event"}
    BY Notified, NoneNoBuild
  <2>2. Kind(callback) = "plain" => programs # {}
    BY <2>1 DEF IInv, BlockHeld
  <2>3. QED
    BY <2>1, <2>2 DEF BlockOwned, CapturesProgram
<1>2. QED
  BY <1>1, Invariance, PTL

\* The block, which owns itself during an event-based build, does not leak.
THEOREM BlockFreed == Spec => []NoLeak
<1>1. IInv => NoLeak
  <2> SUFFICES ASSUME IInv, programs = {}, host = Idle, running = None, notify = Away,
                      leaving = {}
               PROVE  ~BlockOwned
    BY DEF NoLeak
  <2>1. callback = None
    BY DEF IInv, OneBuild, PastCall, Idle, Away
  <2>2. QED
    BY <2>1 DEF BlockOwned, Away
<1>2. QED
  BY <1>1, Invariance, PTL

\* A build event is complete only if every device was built, failed only if one was
\* not.
THEOREM EventTruth == Spec => []EventTellsTruth
<1>1. IInv => EventTellsTruth
  BY DEF IInv, Truth, EventTellsTruth
<1>2. QED
  BY <1>1, Invariance, PTL

-----------------------------------------------------------------------------
(* ProgramBuild implements BuildPromise. *)

\* phase, build by build.
LEMMA PhaseAt ==
  ASSUME NEW b \in Builds
  PROVE  /\ build[b].outcome = "none" => phase[b] = "none"
         /\ build[b].outcome \in {"rejected", "failed"} => phase[b] = "refused"
         /\ build[b].outcome \in {"called", "started"} =>
              phase[b] = IF Unreported(b) THEN "pending"
                         ELSE IF Kind(b) = "event" THEN event[b] ELSE "over"
         /\ build'[b].outcome = "none" => phase'[b] = "none"
         /\ build'[b].outcome \in {"rejected", "failed"} => phase'[b] = "refused"
         /\ build'[b].outcome \in {"called", "started"} =>
              phase'[b] = IF Unreported(b)' THEN "pending"
                          ELSE IF Kind(b)' = "event" THEN event'[b] ELSE "over"
BY DEF phase

\* Unreported, kind by kind.
LEMMA UnreportedAt ==
  ASSUME NEW b \in Builds
  PROVE  /\ Kind(b) = "event" => (Unreported(b) <=> event[b] = "unset")
         /\ Kind(b) = "plain" =>
              (Unreported(b) <=> \/ host = [at |-> "call", b |-> b]
                                 \/ running = b
                                 \/ notify.b = b /\ notify.at \in {"pending", "calling"})
         /\ Kind(b) \notin {"event", "plain"} =>
              (Unreported(b) <=> build[b].outcome = "called")
         /\ Kind(b)' = "event" => (Unreported(b)' <=> event'[b] = "unset")
         /\ Kind(b)' = "plain" =>
              (Unreported(b)' <=> \/ host' = [at |-> "call", b |-> b]
                                  \/ running' = b
                                  \/ /\ notify'.b = b
                                     /\ notify'.at \in {"pending", "calling"})
         /\ Kind(b)' \notin {"event", "plain"} =>
              (Unreported(b)' <=> build'[b].outcome = "called")
BY DEF Unreported

\* A step that moves one build, or none.
LEMMA PhaseMoves ==
  ASSUME NEW n \in Builds, NEW v, phase'[n] = v,
         \A c \in Builds : c # n => phase'[c] = phase[c]
  PROVE  phase' = [phase EXCEPT ![n] = v]
BY DEF phase

LEMMA PhaseStays ==
  ASSUME \A c \in Builds : phase'[c] = phase[c]
  PROVE  phase' = phase
BY DEF phase

\* An outcome leaves the phase alone if what it is read from does.
LEMMA PhaseKept ==
  ASSUME NEW c \in Builds, build'[c] = build[c], event'[c] = event[c],
         build[c].outcome \in {"none", "rejected", "called", "failed", "started"},
         Kind(c) = "plain" /\ build[c].outcome \in {"called", "started"} =>
           (Unreported(c)' <=> Unreported(c))
  PROVE  phase'[c] = phase[c]
BY PhaseAt, UnreportedAt DEF Kind

\* No build is pending when no callback is stored and the host is idle.
LEMMA NonePending ==
  ASSUME IInv, host = Idle, callback = None
  PROVE  Promise!Pending = {}
<1> SUFFICES ASSUME NEW b \in Builds, phase[b] = "pending" PROVE FALSE
  BY DEF Promise!Pending, Promise!Builds, Builds
<1>1. build[b].outcome \in {"called", "started"} /\ Unreported(b)
  BY PhaseAt DEF IInv, TypeOK, EventsAgree
<1>2. build[b].outcome = "started" /\ host.at = "idle"
  BY <1>1 DEF IInv, HostAgrees, Idle
<1>3. running = None /\ notify = Away
  BY <1>2 DEF IInv, OneBuild
<1>4. Kind(b) # "event"
  BY <1>1, UnreportedAt, NoneNoBuild DEF IInv, EventsAgree
<1>5. QED
  BY <1>1, <1>2, <1>3, <1>4, UnreportedAt, NoneNoBuild DEF Away

LEMMA InitPromise == Init => Promise!Init
<1> SUFFICES ASSUME Init PROVE Promise!Init
  OBVIOUS
<1>1. \A b \in Builds : build[b].outcome = "none"
  BY DEF Init, Unused
<1>2. QED
  BY <1>1 DEF Init, phase, Promise!Init, Promise!Builds, Builds

\* A call is refused at once, or submitted when none is pending.
LEMMA BuildEnterPromise ==
  ASSUME IInv, NEW n \in Builds, NEW k \in {"sync", "plain", "event"},
         NEW T \in SUBSET Devices, BuildEnter(n, k, T)
  PROVE  Promise!Submit(n) \/ Promise!Refuse(n)
<1> USE DEF Kind
<1>1. /\ host = Idle /\ build[n].outcome = "none" /\ event[n] = "unset"
      /\ running # n /\ notify.b # n
      /\ UNCHANGED <<running, notify, event, kernel>>
      /\ host' = Idle \/ host' = [at |-> "call", b |-> n]
      /\ \A c \in Builds : c # n => build'[c] = build[c]
      /\ build'[n].kind = k
      /\ build'[n].outcome = IF callback # None THEN "rejected" ELSE "called"
      /\ callback = None => host' = [at |-> "call", b |-> n]
  BY NoneNoBuild DEF BuildEnter, Occupied, IInv, TypeOK, HostAgrees, EventsAgree,
     WorkLatest, OneBuild, Away
<1>2. phase[n] = "none"
  BY <1>1, PhaseAt
<1>3. ASSUME NEW c \in Builds, c # n PROVE phase'[c] = phase[c]
  <2>1. host # [at |-> "call", b |-> c] /\ host' # [at |-> "call", b |-> c]
    BY <1>1, <1>3 DEF Idle
  <2>2. QED
    BY <1>1, <1>3, <2>1, PhaseKept, UnreportedAt DEF IInv, TypeOK
<1>4. CASE callback # None
  <2>1. phase'[n] = "refused"
    BY <1>1, <1>4, PhaseAt
  <2>2. QED
    BY <1>1, <1>2, <1>3, <2>1, PhaseMoves DEF Promise!Refuse
<1>5. CASE callback = None
  <2>1. Unreported(n)'
    BY <1>1, <1>5, UnreportedAt
  <2>2. phase'[n] = "pending"
    BY <1>1, <1>5, <2>1, PhaseAt
  <2>3. Promise!Pending = {}
    BY <1>1, <1>5, NonePending
  <2>4. QED
    BY <1>1, <1>2, <1>3, <2>2, <2>3, PhaseMoves DEF Promise!Submit
<1>6. QED
  BY <1>4, <1>5

LEMMA BuildStartPromise ==
  ASSUME IInv, BuildStart
  PROVE  UNCHANGED <<phase, kernel>>
<1>1. /\ host.at = "call" /\ host.b \in Builds /\ running = None /\ running' = host.b
      /\ host' = [at |-> "started", b |-> host.b]
      /\ host = [at |-> "call", b |-> host.b]
      /\ UNCHANGED <<build, event, notify, kernel>>
  BY DEF BuildStart, IInv, TypeOK, HostAgrees
<1>2. ASSUME NEW c \in Builds PROVE phase'[c] = phase[c]
  <2>1. /\ host = [at |-> "call", b |-> c] <=> c = host.b
        /\ host' # [at |-> "call", b |-> c]
    BY <1>1
  <2>2. QED
    BY <1>1, <2>1, PhaseKept, UnreportedAt, NoneNoBuild DEF IInv, TypeOK, Kind
<1>3. QED
  BY <1>1, <1>2, PhaseStays

LEMMA BuildRefusedPromise ==
  ASSUME IInv, BuildRefused
  PROVE  host.b \in Builds /\ Promise!Refuse(host.b)
<1> USE DEF Kind
<1> DEFINE n == host.b
<1>1. /\ host.at = "call" /\ n \in Builds /\ host' = Idle
      /\ host = [at |-> "call", b |-> n] /\ build[n].outcome = "called"
      /\ build'[n].outcome = "failed"
      /\ \A c \in Builds : c # n => build'[c] = build[c]
      /\ UNCHANGED <<running, notify, event, kernel>>
  BY DEF BuildRefused, IInv, TypeOK, HostAgrees
<1>2. phase'[n] = "refused"
  BY <1>1, PhaseAt
<1>3. Unreported(n)
  <2>1. Kind(n) = "event" => event[n] = "unset"
    BY <1>1 DEF IInv, OneBuild, PastCall, EventsAgree, Away
  <2>2. QED
    BY <1>1, <2>1, UnreportedAt
<1>4. phase[n] = "pending"
  BY <1>1, <1>3, PhaseAt
<1>5. ASSUME NEW c \in Builds, c # n PROVE phase'[c] = phase[c]
  <2>1. host # [at |-> "call", b |-> c] /\ host' # [at |-> "call", b |-> c]
    BY <1>1, <1>5 DEF Idle
  <2>2. QED
    BY <1>1, <1>5, <2>1, PhaseKept, UnreportedAt DEF IInv, TypeOK
<1>6. QED
  BY <1>1, <1>2, <1>4, <1>5, PhaseMoves DEF Promise!Refuse

\* A synchronous build is settled by the return of clBuildProgram, or refused with an
\* exception; nothing is known yet of another.
LEMMA BuildReturnPromise ==
  ASSUME IInv, BuildReturn
  PROVE  /\ host.b \in Builds
         /\ \/ Promise!Settle(host.b) \/ Promise!Refuse(host.b)
            \/ UNCHANGED <<phase, kernel>>
<1> USE DEF Kind
<1>0. PICK n \in Builds : n = host.b
  BY DEF BuildReturn, IInv, HostAgrees
<1> DEFINE failed == Kind(n) = "sync" /\ \E d \in build[n].devices : status[d] = "error"
           how == IF failed THEN "failed" ELSE "started"
<1>1. /\ host.at = "started" /\ host' = Idle
      /\ host = [at |-> "started", b |-> n] /\ build[n].outcome = "called"
      /\ Kind(n) # "none"
      /\ Kind(n)' = Kind(n) /\ build'[n].outcome \in {"failed", "started"}
      /\ Kind(n) # "sync" => build'[n].outcome = "started"
      /\ \A c \in Builds : c # n => build'[c] = build[c]
      /\ UNCHANGED <<running, notify, event, kernel>>
  <2>1. /\ host.at = "started" /\ host' = Idle
        /\ how \in {"failed", "started"} /\ (Kind(n) # "sync" => how = "started")
        /\ build' = [build EXCEPT ![n].outcome = how]
        /\ UNCHANGED <<running, notify, event, kernel>>
    BY <1>0 DEF BuildReturn
  <2>2. build[n].outcome = "called" /\ Kind(n) # "none"
    BY <1>0, <2>1 DEF IInv, HostAgrees
  <2> HIDE DEF how
  <2>3. QED
    BY <1>0, <2>1, <2>2 DEF IInv, TypeOK
<1>2. \A c \in Builds : host # [at |-> "call", b |-> c] /\ host' # [at |-> "call", b |-> c]
  BY <1>1 DEF Idle
<1>3. ASSUME NEW c \in Builds, c # n PROVE phase'[c] = phase[c]
  <2>1. host # [at |-> "call", b |-> c] /\ host' # [at |-> "call", b |-> c]
    BY <1>2
  <2>2. QED
    BY <1>1, <1>3, <2>1, PhaseKept, UnreportedAt DEF IInv, TypeOK
<1>4. CASE Kind(n) = "sync"
  <2>1. phase[n] = "pending"
    BY <1>1, <1>4, PhaseAt, UnreportedAt
  <2>2. phase'[n] = "refused" \/ phase'[n] = "over"
    BY <1>1, <1>4, PhaseAt, UnreportedAt
  <2>3. QED
    BY <1>0, <1>1, <1>3, <2>1, <2>2, PhaseMoves DEF Promise!Settle, Promise!Refuse
<1>5. CASE Kind(n) # "sync"
  <2>1. Kind(n) \in {"plain", "event"}
    BY <1>1, <1>5 DEF IInv, TypeOK
  <2>2. Unreported(n)' <=> Unreported(n)
    <3>1. host # [at |-> "call", b |-> n] /\ host' # [at |-> "call", b |-> n]
      BY <1>2
    <3>2. QED
      BY <1>1, <2>1, <3>1, UnreportedAt
  <2>3. phase'[n] = phase[n]
    BY <1>1, <1>5, <2>2, PhaseAt
  <2>4. QED
    BY <1>0, <1>1, <1>3, <2>3, PhaseStays
<1>6. QED
  BY <1>4, <1>5

\* A build whose event is set is reported; if it is the last one, nothing is pending.
LEMMA CreateKernelPromise ==
  ASSUME IInv, NEW b \in Builds, CreateKernel(b)
  PROVE  Promise!CreateKernel(b)
<1>1. /\ host.at = "idle" /\ host = Idle /\ build[b].outcome = "started"
      /\ event[b] # "unset" /\ Latest(b)
      /\ kernel' = IF event[b] = "failed" THEN "build_failed"
                   ELSE IF \A d \in build[b].devices : status[d] = "success"
                     THEN "created" ELSE "no_executable"
      /\ UNCHANGED <<build, host, running, notify, event>>
  BY DEF CreateKernel, Idle
<1>2. Kind(b) = "event" /\ event[b] \in {"complete", "failed"}
  BY <1>1 DEF IInv, TypeOK, EventsAgree
<1>3. phase[b] = event[b]
  BY <1>1, <1>2, PhaseAt, UnreportedAt
<1>4. ASSUME NEW c \in Builds, phase[c] = "pending" PROVE FALSE
  <2>1. build[c].outcome \in {"called", "started"} /\ Unreported(c)
    BY <1>4, PhaseAt DEF IInv, TypeOK, EventsAgree
  <2>2. build[c].outcome = "started"
    BY <1>1, <2>1 DEF IInv, HostAgrees
  <2>3. c < b
    BY <1>1, <1>2, <1>3, <1>4, <2>2, LatestMeans DEF Builds
  <2>4. callback = c \/ running = c
    <3>1. CASE Kind(c) = "event"
      BY <2>1, <2>2, <3>1, UnreportedAt DEF IInv, EventsAgree
    <3>2. CASE Kind(c) = "plain"
      <4>1. host # [at |-> "call", b |-> c]
        BY <1>1 DEF Idle
      <4>2. QED
        BY <2>1, <3>2, <4>1, UnreportedAt, Notified
    <3>3. CASE Kind(c) \notin {"event", "plain"}
      BY <2>1, <2>2, <3>3, UnreportedAt
    <3>4. QED
      BY <3>1, <3>2, <3>3
  <2>5. Latest(c)
    BY <2>4, NoneNoBuild DEF IInv, WorkLatest
  <2>6. QED
    BY <1>1, <2>3, <2>5, LatestMeans
<1>5. Promise!Pending = {}
  BY <1>4 DEF Promise!Pending, Promise!Builds, Builds
<1>6. event[b] = "complete" => \A d \in build[b].devices : status[d] = "success"
  BY <1>1 DEF IInv, Truth
<1>7. phase' = phase
  BY <1>1 DEF phase, Unreported, Kind
<1>8. QED
  BY <1>1, <1>2, <1>3, <1>5, <1>6, <1>7 DEF Promise!CreateKernel

\* The runtime moves on without the caller's knowing.
LEMMA SilentPromise ==
  ASSUME IInv,
         \/ \E good \in SUBSET Devices : CompileEnd(good)
         \/ NotifyCopy \/ NotifyReset
         \/ \E d \in Devices : NotifyScan(d) /\ status[d] = "success"
  PROVE  UNCHANGED <<phase, kernel>>
<1>1. UNCHANGED <<build, host, event, kernel>>
  BY DEF CompileEnd, NotifyCopy, NotifyReset, NotifyScan
<1>2. ASSUME NEW c \in Builds, Kind(c) = "plain"
      PROVE  \/ running' = c
             \/ notify'.b = c /\ notify'.at \in {"pending", "calling"}
             <=> \/ running = c
                 \/ notify.b = c /\ notify.at \in {"pending", "calling"}
  <2>1. ASSUME NEW good \in SUBSET Devices, CompileEnd(good)
        PROVE  /\ running # None /\ running' = None /\ notify = Away
               /\ notify' = IF Kind(running) = "sync" THEN Away
                            ELSE [at |-> "pending", b |-> running, left |-> {}]
    BY <2>1 DEF CompileEnd
  <2>2. CASE \E good \in SUBSET Devices : CompileEnd(good)
    BY <1>2, <2>1, <2>2, NoneNoBuild DEF Away
  <2>3. CASE NotifyCopy
    BY <2>3, Notified DEF NotifyCopy
  <2>4. CASE NotifyReset
    BY <2>4, NoneNoBuild DEF NotifyReset, Away
  <2>5. ASSUME NEW d \in Devices, NotifyScan(d), status[d] = "success"
        PROVE  notify'.at = notify.at /\ notify'.b = notify.b /\ running' = running
    BY <2>5 DEF NotifyScan, IInv, TypeOK
  <2>6. QED
    BY <2>2, <2>3, <2>4, <2>5
<1>3. ASSUME NEW c \in Builds PROVE phase'[c] = phase[c]
  BY <1>1, <1>2, PhaseKept, UnreportedAt DEF IInv, TypeOK, Kind
<1>4. QED
  BY <1>1, <1>3, PhaseStays

\* Once its callback has been called the outcome of a build is settled.
LEMMA CalledPromise ==
  ASSUME IInv, notify.at = "calling",
         notify' = [notify EXCEPT !.at = "called"],
         UNCHANGED <<build, host, running, kernel>>,
         IF Kind(notify.b) = "event"
           THEN \E e \in {"complete", "failed"} :
                  event' = [event EXCEPT ![notify.b] = e]
           ELSE event' = event
  PROVE  notify.b \in Builds /\ Promise!Settle(notify.b)
<1>1. PICK n \in Builds : n = notify.b
  BY Notified
<1>2. /\ callback = n /\ running = None
      /\ build[n].outcome \in {"called", "started"} /\ Kind(n) \in {"plain", "event"}
      /\ host # [at |-> "call", b |-> n]
  <2>1. /\ callback = n /\ running = None /\ PastCall(n)
        /\ build[n].outcome \in {"called", "started"} /\ Kind(n) \in {"plain", "event"}
    BY <1>1, Notified
  <2>2. QED
    BY <2>1 DEF PastCall
<1>3. phase[n] = "pending"
  BY <1>1, <1>2, PhaseAt, UnreportedAt DEF IInv, EventsAgree
<1>4. notify'.at = "called" /\ notify'.b = n
  BY <1>1 DEF IInv, TypeOK
<1>5. phase'[n] \in {"complete", "failed", "over"}
  <2>1. CASE Kind(n) = "event"
    <3>1. event'[n] \in {"complete", "failed"}
      BY <1>1, <2>1 DEF IInv, TypeOK
    <3>2. Kind(n)' = "event" /\ build'[n].outcome \in {"called", "started"}
      BY <1>2, <2>1 DEF Kind
    <3>3. QED
      BY <3>1, <3>2, PhaseAt, UnreportedAt
  <2>2. CASE Kind(n) = "plain"
    <3>1. Kind(n)' = "plain" /\ build'[n].outcome \in {"called", "started"}
      BY <1>2, <2>2 DEF Kind
    <3>2. ~Unreported(n)'
      BY <1>2, <1>4, <3>1, UnreportedAt, NoneNoBuild
    <3>3. QED
      BY <3>1, <3>2, PhaseAt
  <2>3. QED
    BY <1>2, <2>1, <2>2
<1>6. ASSUME NEW c \in Builds, c # n PROVE phase'[c] = phase[c]
  <2>1. event'[c] = event[c] /\ build'[c] = build[c]
    BY <1>1, <1>6 DEF IInv, TypeOK
  <2>2. Kind(c) = "plain" => (Unreported(c)' <=> Unreported(c))
    BY <1>1, <1>4, <1>6, UnreportedAt DEF Kind
  <2>3. QED
    BY <2>1, <2>2, PhaseKept DEF IInv, TypeOK
<1>7. QED
  BY <1>1, <1>3, <1>5, <1>6, PhaseMoves DEF Promise!Settle

LEMMA StepPromise ==
  ASSUME IInv, [Next]_vars
  PROVE  [Promise!Next]_(Promise!vars)
<1> USE DEF Promise!vars
<1>1. ASSUME UNCHANGED <<build, host, running, notify, event, kernel>>
      PROVE  UNCHANGED <<phase, kernel>>
  BY <1>1 DEF phase, Unreported, Kind
<1>2. CASE UNCHANGED vars
  BY <1>1, <1>2 DEF vars
<1>3. ASSUME NEW p \in Programs, CopyProgram(p) \/ DropProgram(p)
      PROVE  UNCHANGED <<phase, kernel>>
  BY <1>1, <1>3 DEF CopyProgram, DropProgram
<1>4. ASSUME NEW b \in Builds, NEW k \in {"sync", "plain", "event"},
             NEW T \in SUBSET Devices \ {{}}, BuildEnter(b, k, T)
      PROVE  Promise!Next
  BY <1>4, BuildEnterPromise DEF Promise!Next, Promise!Builds, Builds
<1>5. CASE HostCall
  BY <1>5, BuildStartPromise, BuildRefusedPromise, BuildReturnPromise
  DEF HostCall, Promise!Next, Promise!Builds, Builds
<1>6. ASSUME NEW b \in Builds, NotifyLeave(b)
      PROVE  UNCHANGED <<phase, kernel>>
  BY <1>1, <1>6 DEF NotifyLeave
<1>7. ASSUME NEW b \in Builds, CreateKernel(b)
      PROVE  Promise!Next
  BY <1>7, CreateKernelPromise DEF Promise!Next, Promise!Builds, Builds
<1>8. CASE Runtime
  <2>1. CASE \/ \E good \in SUBSET Devices : CompileEnd(good)
             \/ NotifyCopy \/ NotifyReset
             \/ \E d \in Devices : NotifyScan(d) /\ status[d] = "success"
    BY <2>1, SilentPromise
  <2>2. CASE NotifyUser
    <3>1. notify.b \in Builds /\ Promise!Settle(notify.b)
      BY <2>2, CalledPromise DEF NotifyUser
    <3>2. QED
      BY <3>1 DEF Promise!Next, Promise!Builds, Builds
  <2>3. CASE NotifyComplete
    <3>1. notify.b \in Builds /\ Promise!Settle(notify.b)
      BY <2>3, CalledPromise DEF NotifyComplete
    <3>2. QED
      BY <3>1 DEF Promise!Next, Promise!Builds, Builds
  <2>4. ASSUME NEW d \in Devices, NotifyScan(d), status[d] = "error"
        PROVE  Promise!Next
    <3>1. notify.b \in Builds /\ Promise!Settle(notify.b)
      BY <2>4, CalledPromise DEF NotifyScan, Fail
    <3>2. QED
      BY <3>1 DEF Promise!Next, Promise!Builds, Builds
  <2>5. QED
    BY <1>8, <2>1, <2>2, <2>3, <2>4, ScanKnown DEF Runtime
<1>9. QED
  BY <1>2, <1>3, <1>4, <1>5, <1>6, <1>7, <1>8 DEF Next

\* Builds do not overlap, every call is refused or has its outcome reported once, and
\* a kernel can be created as soon as the event says so: BuildPromise, kept.
THEOREM Refinement == Spec => ImplementsPromise
<1>1. Init => Promise!Init
  BY InitPromise
<1>2. IInv /\ [Next]_vars => [Promise!Next]_(Promise!vars)
  BY StepPromise
<1>3. QED
  BY <1>1, <1>2, Invariance, PTL DEF Spec, ImplementsPromise, Promise!Spec
=============================================================================
