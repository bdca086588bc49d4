-------------------------- MODULE EnvRelease_proofs --------------------------
(***************************************************************************)
(* Proofs about EnvRelease for any sets of shells and revisions.           *)
(*                                                                         *)
(* A finished release stays as it is because only its builder writes to    *)
(* it, and a release that is being built is not finished (BuildShape).     *)
(* Two builders of one release would break that, hence contested.  A       *)
(* server that was there to be seen has no script past its check           *)
(* (ServerShape), so nobody can reach the link it looks through.           *)
(***************************************************************************)
EXTENDS EnvRelease, TLAPS

GoalShape == \A s \in Shell : pc[s] \in Activation \union {"check"} =>
                goal[s] \in Revision

OneBuilder ==
    \A s, t \in Shell, v \in Revision \ contested :
        Builds(s, v) /\ Builds(t, v) => s = t

\* What a builder finds in a release nobody else is building.
BuildShape ==
    \A s \in Shell, v \in Revision \ contested : Builds(s, v) =>
        /\ ~Valid(v)
        /\ pc[s] = "manifest" =>
              Exists(v) /\ release[v].python /\ release[v].packages = "all"

\* A script activates only what is finished.
ActivateShape ==
    \A s \in Shell, v \in Revision \ contested :
        pc[s] \in {"unlink", "link"} /\ goal[s] = v => Valid(v)

\* A server that a check could see is named by the pid file, or will be by
\* the script that started it, and no script is past its check.
ServerShape ==
    \A s \in Shell \ unseen : running[s] # None =>
        /\ pid = s \/ pc[s] = "record"
        /\ \A t \in Shell : ~Past(t)
        /\ link = running[s]

Safety == /\ ManifestMeansBuilt
          /\ ActivatedStaysBuilt
          /\ AbsentMeansHeld

IInv == /\ TypeOK /\ GoalShape
        /\ OneBuilder /\ BuildShape /\ ActivateShape
        /\ ServerShape /\ Safety

-----------------------------------------------------------------------------
LEMMA TypeStep == TypeOK /\ GoalShape /\ [Next]_vars => TypeOK' /\ GoalShape'
<1> SUFFICES ASSUME TypeOK, GoalShape, [Next]_vars PROVE TypeOK' /\ GoalShape'
  OBVIOUS
<1> USE DEF TypeOK, GoalShape, Steps, Activation, Build, servers, history, script, disk
<1>1. ASSUME NEW s \in Shell, Serve(s) \/ Setup(s) PROVE TypeOK' /\ GoalShape'
  BY <1>1 DEF Serve, Setup, Begin
<1>2. ASSUME NEW s \in Shell, Spawn(s) PROVE TypeOK' /\ GoalShape'
  BY <1>2 DEF Spawn, Goto
<1>3. ASSUME NEW s \in Shell, ReadRevision(s) PROVE TypeOK' /\ GoalShape'
  BY <1>3 DEF ReadRevision
<1>18. ASSUME NEW s \in Shell, Record(s) PROVE TypeOK' /\ GoalShape'
  BY <1>18 DEF Record, Goto
<1>19. ASSUME NEW s \in Shell, Check(s) PROVE TypeOK' /\ GoalShape'
  BY <1>19 DEF Check, Unnamed, Goto
<1>4. ASSUME NEW s \in Shell, Look(s) PROVE TypeOK' /\ GoalShape'
  BY <1>4 DEF Look, Goto
<1>5. ASSUME NEW s \in Shell, Wipe(s) PROVE TypeOK' /\ GoalShape'
  BY <1>5 DEF Wipe, Goto, Remains
<1>6. ASSUME NEW s \in Shell, Venv(s) PROVE TypeOK' /\ GoalShape'
  BY <1>6 DEF Venv, Goto, NewVenv, Directory
<1>7. ASSUME NEW s \in Shell, Install(s) PROVE TypeOK' /\ GoalShape'
  BY <1>7 DEF Install, Goto, Exists, Directory
<1>8. ASSUME NEW s \in Shell, Installed(s) PROVE TypeOK' /\ GoalShape'
  BY <1>8 DEF Installed, Goto, Exists, Directory
<1>9. ASSUME NEW s \in Shell, Validate(s) PROVE TypeOK' /\ GoalShape'
  BY <1>9 DEF Validate, Goto
<1>10. ASSUME NEW s \in Shell, WriteManifest(s) PROVE TypeOK' /\ GoalShape'
  BY <1>10 DEF WriteManifest, Goto, Exists, Directory
<1>11. ASSUME NEW s \in Shell, NoDirectory(s) \/ Fails(s) PROVE TypeOK' /\ GoalShape'
  BY <1>11 DEF NoDirectory, Fails, Goto
<1>12. ASSUME NEW s \in Shell, Unlink(s) PROVE TypeOK' /\ GoalShape'
  BY <1>12 DEF Unlink, Goto
<1>13. ASSUME NEW s \in Shell, Link(s) PROVE TypeOK' /\ GoalShape'
  BY <1>13 DEF Link, Goto
<1>14. ASSUME NEW s \in Shell, Killed(s) PROVE TypeOK' /\ GoalShape'
  BY <1>14 DEF Killed, Unnamed, Goto
<1>15. CASE Checkout
  BY <1>15 DEF Checkout
<1>16. CASE ServerEnds
  BY <1>16 DEF ServerEnds
<1>17. CASE UNCHANGED vars
  BY <1>17 DEF vars
<1> QED
  BY <1>1, <1>2, <1>3, <1>4, <1>5, <1>6, <1>7, <1>8, <1>9, <1>10, <1>11, <1>12,
     <1>13, <1>14, <1>15, <1>16, <1>17, <1>18, <1>19 DEF Next, Building, Activating

-----------------------------------------------------------------------------
Rest == OneBuilder /\ BuildShape /\ ActivateShape /\ Safety

\* The shells other than s go on as they were.
LEMMA OthersStay ==
    ASSUME IInv, NEW s \in Shell, NEW step, Goto(s, step)
    PROVE  /\ pc'[s] = step
           /\ step \notin {"spawn", "ended"} => goal'[s] = goal[s]
           /\ \A t \in Shell \ {s} : pc'[t] = pc[t] /\ goal'[t] = goal[t]
BY DEF IInv, TypeOK, Goto

\* A script ends: its release, if it was building one, is left as it is.
LEMMA EndStep ==
    ASSUME IInv, NEW s \in Shell, Goto(s, "ended"),
           UNCHANGED <<disk, contested>>,
           torn \/ pc[s] = "link" => torn'
    PROVE  Rest'
<1>1. pc'[s] = "ended" /\ \A t \in Shell \ {s} : pc'[t] = pc[t] /\ goal'[t] = goal[t]
  BY OthersStay
<1>2. \A v : (Exists(v) <=> Exists(v)') /\ (Valid(v) <=> Valid(v)')
  BY DEF disk, Exists, Valid
<1>3. OneBuilder'
  BY <1>1 DEF IInv, OneBuilder, Builds, Build
<1>4. BuildShape'
  BY <1>1, <1>2 DEF IInv, BuildShape, Builds, Build, disk
<1>5. ActivateShape'
  BY <1>1, <1>2 DEF IInv, ActivateShape
<1>6. ManifestMeansBuilt' /\ ActivatedStaysBuilt'
  BY <1>2 DEF IInv, Safety, ManifestMeansBuilt, ActivatedStaysBuilt, disk
<1>7. AbsentMeansHeld'
  <2> SUFFICES ASSUME link' = None PROVE torn' \/ \E t \in Shell : pc'[t] = "link"
    BY DEF AbsentMeansHeld
  <2>1. torn \/ \E t \in Shell : pc[t] = "link"
    BY DEF IInv, Safety, AbsentMeansHeld, disk
  <2> QED
    BY <1>1, <2>1
<1> QED
  BY <1>3, <1>4, <1>5, <1>6, <1>7 DEF Rest, Safety

\* Valid, of a directory
Finished(d, w) == d # None /\ d.python /\ d.manifest = w

\* A builder puts d in the place of release w, and goes on with step.
Writes(s, w, d, step) ==
    /\ pc[s] \in Build /\ goal[s] = w /\ Goto(s, step)
    /\ step \in Build \union {"unlink", "ended"}
    /\ release' = [release EXCEPT ![w] = d]
    /\ UNCHANGED <<link, contested, torn>>
    /\ w \notin contested =>
          /\ Finished(d, w) <=> step = "unlink"
          /\ Finished(d, w) => d.packages = "all"
          /\ step = "manifest" => d # None /\ d.python /\ d.packages = "all"

\* A builder writes to its own release, which nobody else builds and which is
\* neither finished, nor linked, nor in use.
LEMMA WriteStep ==
    ASSUME IInv, NEW s \in Shell, NEW w \in Revision, NEW d, NEW step, Writes(s, w, d, step)
    PROVE  Rest'
<1> USE DEF Writes
<1>1. w \in Revision
  OBVIOUS
<1>2. Builds(s, w)
  BY DEF Builds
<1>3. pc'[s] = step /\ (step \notin {"spawn", "ended"} => goal'[s] = w)
  BY OthersStay
<1>4. \A t \in Shell \ {s} : pc'[t] = pc[t] /\ goal'[t] = goal[t]
  BY OthersStay
<1>5. /\ release'[w] = d /\ \A v \in Revision \ {w} : release'[v] = release[v]
      /\ (Valid(w)' <=> Finished(d, w)) /\ (Exists(w)' <=> d # None)
  BY <1>1 DEF IInv, TypeOK, Finished, Valid, Exists
<1>6. \A v \in Revision \ {w} : (Exists(v) <=> Exists(v)') /\ (Valid(v) <=> Valid(v)')
  BY <1>5 DEF Exists, Valid
<1>7. w \notin contested => ~Valid(w)
  BY <1>1, <1>2 DEF IInv, BuildShape
<1>8. \A t \in Shell \ {s}, v \in Revision \ contested : Builds(t, v) => v # w
  BY <1>1, <1>2 DEF IInv, OneBuilder
<1>9. OneBuilder'
  BY <1>1, <1>2, <1>3, <1>4, <1>8 DEF IInv, OneBuilder, Builds, Build
<1>10. BuildShape'
  <2> SUFFICES ASSUME NEW t \in Shell, NEW v \in Revision \ contested, Builds(t, v)'
               PROVE  /\ ~Valid(v)'
                      /\ pc'[t] = "manifest" =>
                            /\ Exists(v)' /\ release'[v].python
                            /\ release'[v].packages = "all"
    BY DEF BuildShape
  <2>1. CASE t = s
    <3>1. v = w /\ w \notin contested
      BY <2>1, <1>3 DEF Builds, Build
    <3> QED
      BY <2>1, <3>1, <1>3, <1>5 DEF Builds, Build
  <2>2. CASE t # s
    <3>1. Builds(t, v)
      BY <2>2, <1>4 DEF Builds
    <3>2. v # w
      BY <3>1, <2>2, <1>8
    <3> QED
      BY <3>1, <3>2, <2>2, <1>4, <1>5, <1>6 DEF IInv, BuildShape
  <2> QED
    BY <2>1, <2>2
<1>11. ActivateShape'
  <2> SUFFICES ASSUME NEW t \in Shell, NEW v \in Revision \ contested,
                      pc'[t] \in {"unlink", "link"}, goal'[t] = v
               PROVE  Valid(v)'
    BY DEF ActivateShape
  <2>1. CASE t = s
    <3>1. v = w /\ w \notin contested /\ step = "unlink"
      BY <2>1, <1>3 DEF Build
    <3>2. Finished(d, w)
      BY <3>1
    <3> QED
      BY <3>1, <3>2, <1>5 DEF Valid, Exists
  <2>2. CASE t # s
    <3>1. Valid(v)
      BY <2>2, <1>4 DEF IInv, ActivateShape
    <3> QED
      BY <3>1, <1>6, <1>7
  <2> QED
    BY <2>1, <2>2
<1>12. ManifestMeansBuilt'
  BY <1>1, <1>3, <1>5, <1>6 DEF IInv, Safety, ManifestMeansBuilt
<1>13. ActivatedStaysBuilt'
  BY <1>6, <1>7 DEF IInv, Safety, ActivatedStaysBuilt
<1>15. AbsentMeansHeld'
  BY <1>4 DEF IInv, Safety, AbsentMeansHeld, Build
<1> QED
  BY <1>9, <1>10, <1>11, <1>12, <1>13, <1>15 DEF Rest, Safety

\* A script takes a step that neither builds nor activates.
LEMMA StillStep ==
    ASSUME IInv, NEW s \in Shell,
           UNCHANGED <<disk, contested, torn>>,
           pc[s] \notin {"unlink", "link"} \/ pc'[s] = pc[s],
           \A t \in Shell \ {s} : pc'[t] = pc[t] /\ goal'[t] = goal[t],
           pc'[s] \in {"ended", "revision", "check", "look", "spawn", "record"}
    PROVE  Rest'
<1>1. \A v : (Exists(v) <=> Exists(v)') /\ (Valid(v) <=> Valid(v)')
  BY DEF disk, Exists, Valid
<1>2. OneBuilder'
  BY DEF IInv, OneBuilder, Builds, Build
<1>3. BuildShape'
  BY <1>1 DEF IInv, BuildShape, Builds, Build, disk
<1>4. ActivateShape'
  BY <1>1 DEF IInv, ActivateShape
<1>5. ManifestMeansBuilt' /\ ActivatedStaysBuilt'
  BY <1>1 DEF IInv, Safety, ManifestMeansBuilt, ActivatedStaysBuilt, disk
<1>6. AbsentMeansHeld'
  <2> SUFFICES ASSUME link' = None PROVE torn' \/ \E t \in Shell : pc'[t] = "link"
    BY DEF AbsentMeansHeld
  <2>1. torn \/ \E t \in Shell : pc[t] = "link"
    BY DEF IInv, Safety, AbsentMeansHeld, disk
  <2> QED
    BY <2>1
<1> QED
  BY <1>2, <1>3, <1>4, <1>5, <1>6 DEF Rest, Safety

-----------------------------------------------------------------------------
LEMMA BeginStep ==
    ASSUME IInv, NEW s \in Shell, Serve(s) \/ Setup(s)
    PROVE  Rest'
<1>1. UNCHANGED <<disk, contested, torn, goal>>
  BY DEF Serve, Setup, Begin, history
<1>2. pc[s] = "ended" /\ pc'[s] \in {"revision", "spawn"}
  BY DEF Serve, Setup, Begin, IInv, TypeOK
<1>3. \A t \in Shell \ {s} : pc'[t] = pc[t]
  BY DEF Serve, Setup, Begin, IInv, TypeOK
<1> QED
  BY <1>1, <1>2, <1>3, StillStep

\* Starting and naming a server, and passing the check, touch no release.
LEMMA ServeStep ==
    ASSUME IInv, NEW s \in Shell, Spawn(s) \/ Record(s) \/ Check(s)
    PROVE  Rest'
<1>1. /\ pc[s] \in {"spawn", "record", "check"}
      /\ \E step \in {"record", "ended", "look"} : Goto(s, step)
      /\ UNCHANGED <<disk, contested, torn>>
  BY DEF Spawn, Record, Check, history
<1>2. pc'[s] \in {"record", "ended", "look"}
  BY <1>1, OthersStay
<1>3. \A t \in Shell \ {s} : pc'[t] = pc[t] /\ goal'[t] = goal[t]
  BY <1>1, OthersStay
<1> QED
  BY <1>1, <1>2, <1>3, StillStep

LEMMA ReadRevisionStep ==
    ASSUME IInv, NEW s \in Shell, ReadRevision(s)
    PROVE  Rest'
<1>1. UNCHANGED <<disk, contested, torn>> /\ pc[s] = "revision"
  BY DEF ReadRevision, history
<1>2. /\ pc'[s] = "check"
      /\ \A t \in Shell \ {s} : pc'[t] = pc[t] /\ goal'[t] = goal[t]
  BY DEF ReadRevision, IInv, TypeOK
<1> QED
  BY <1>1, <1>2, StillStep

\* A new builder makes its release contested, if it is not the only one.
LEMMA LookStep ==
    ASSUME IInv, NEW s \in Shell, Look(s)
    PROVE  Rest'
<1> DEFINE w == goal[s]
<1>1. pc[s] = "look" /\ UNCHANGED <<disk, torn>>
  BY DEF Look
<1>2. w \in Revision
  BY <1>1 DEF IInv, GoalShape, Activation, Build
<1>3. /\ goal'[s] = w
      /\ pc'[s] = IF Valid(w) THEN "unlink" ELSE "wipe"
      /\ \A t \in Shell \ {s} : pc'[t] = pc[t] /\ goal'[t] = goal[t]
  BY OthersStay DEF Look
<1>4. \A v : (Exists(v) <=> Exists(v)') /\ (Valid(v) <=> Valid(v)')
  BY <1>1 DEF disk, Exists, Valid
<1>5. /\ contested \subseteq contested'
      /\ ~Valid(w) /\ w \notin contested' => \A t \in Shell : ~Builds(t, w)
  BY DEF Look
<1>6. OneBuilder'
  BY <1>2, <1>3, <1>5 DEF IInv, OneBuilder, Builds, Build
<1>7. BuildShape'
  BY <1>1, <1>3, <1>4, <1>5 DEF IInv, BuildShape, Builds, Build, disk
<1>8. ActivateShape'
  BY <1>2, <1>3, <1>4, <1>5 DEF IInv, ActivateShape
<1>9. ManifestMeansBuilt' /\ ActivatedStaysBuilt'
  BY <1>1, <1>4, <1>5 DEF IInv, Safety, ManifestMeansBuilt, ActivatedStaysBuilt, disk
<1>10. AbsentMeansHeld'
  <2> SUFFICES ASSUME link' = None PROVE torn' \/ \E t \in Shell : pc'[t] = "link"
    BY DEF AbsentMeansHeld
  <2>1. torn \/ \E t \in Shell : pc[t] = "link"
    BY <1>1 DEF IInv, Safety, AbsentMeansHeld, disk
  <2> QED
    BY <1>1, <1>3, <2>1
<1> QED
  BY <1>6, <1>7, <1>8, <1>9, <1>10 DEF Rest, Safety

\* The release a builder works on, as a constant of the proof.
LEMMA GoalPicked ==
    ASSUME IInv, NEW s \in Shell, pc[s] \in Build
    PROVE  \E w \in Revision :
          goal[s] = w /\ w # None /\ w # Cut /\ (w \in contested \/ ~Valid(w))
BY NamesAssumption DEF IInv, GoalShape, Activation, BuildShape, Builds

\* rm -rf of a release that is not finished leaves one that is not finished.
LEMMA WipeStep ==
    ASSUME IInv, NEW s \in Shell, Wipe(s)
    PROVE  Rest'
<1>1. pc[s] = "wipe" /\ UNCHANGED <<link, contested, torn>>
  BY DEF Wipe, history
<1>2. PICK w \in Revision :
          goal[s] = w /\ w # None /\ w # Cut /\ (w \in contested \/ ~Valid(w))
  BY <1>1, GoalPicked DEF Build
<1>3. CASE release' = [release EXCEPT ![w] = None] /\ Goto(s, "venv")
  <2>1. ~Finished(None, w)
    BY DEF Finished
  <2>2. Writes(s, w, None, "venv")
    BY <1>1, <1>2, <1>3, <2>1 DEF Writes, Build
  <2> QED
    BY <2>2, WriteStep
<1>4. ASSUME Exists(w), UNCHANGED script, NEW e \in Remains(release[w]),
             release' = [release EXCEPT ![w] = e]
      PROVE  Rest'
  <2>1. Goto(s, "wipe")
    BY <1>1, <1>4 DEF Goto, script, IInv, TypeOK
  <2>2. /\ e.python => release[w].python
        /\ e.manifest = release[w].manifest \/ e.manifest = None
    BY DEF Remains
  <2>3. w \in contested \/ ~Finished(e, w)
    BY <1>2, <1>4, <2>2 DEF Valid, Finished
  <2>4. Writes(s, w, e, "wipe")
    BY <1>1, <1>2, <1>4, <2>1, <2>3 DEF Writes, Build
  <2> QED
    BY <2>4, WriteStep
<1> QED
  BY <1>2, <1>3, <1>4 DEF Wipe

LEMMA VenvStep ==
    ASSUME IInv, NEW s \in Shell, Venv(s)
    PROVE  Rest'
<1>1. /\ pc[s] = "venv" /\ Goto(s, "install")
      /\ UNCHANGED <<link, contested, torn>>
  BY DEF Venv, history
<1>2. PICK w \in Revision :
          goal[s] = w /\ w # None /\ w # Cut /\ (w \in contested \/ ~Valid(w))
  BY <1>1, GoalPicked DEF Build
<1>3. release' = [release EXCEPT ![w] = NewVenv]
  BY <1>2 DEF Venv
<1>4. ~Finished(NewVenv, w)
  BY <1>2 DEF Finished, NewVenv
<1>5. Writes(s, w, NewVenv, "install")
  BY <1>1, <1>2, <1>3, <1>4 DEF Writes, Build
<1> QED
  BY <1>5, WriteStep

Installs(s, p, step) ==
    /\ pc[s] \in {"install", "installing"} /\ Goto(s, step)
    /\ step \in {"installing", "validate"}
    /\ Exists(goal[s])
    /\ release' = [release EXCEPT ![goal[s]].packages = p]
    /\ UNCHANGED <<link, contested, torn>>

\* Installing packages does not finish a release.
LEMMA InstallStep ==
    ASSUME IInv, NEW s \in Shell, NEW p, NEW step, Installs(s, p, step)
    PROVE  Rest'
<1> USE DEF Installs
<1>1. PICK w \in Revision :
          goal[s] = w /\ w # None /\ w # Cut /\ (w \in contested \/ ~Valid(w))
  BY GoalPicked DEF Build
<1> DEFINE d == [release[w] EXCEPT !.packages = p]
<1>2. release[w] \in Directory
  BY <1>1 DEF IInv, TypeOK, Exists
<1>3. d.manifest = release[w].manifest
  BY <1>2 DEF Directory
<1>4. release' = [release EXCEPT ![w] = d]
  BY <1>1 DEF IInv, TypeOK
<1>5. w \in contested \/ ~Finished(d, w)
  BY <1>1, <1>3 DEF Valid, Finished
<1>6. step \in Build \union {"unlink", "ended"} /\ pc[s] \in Build
  BY DEF Build
<1>7. step # "manifest" /\ step # "unlink"
  OBVIOUS
<1> HIDE DEF d
<1>8. Writes(s, w, d, step)
  BY <1>1, <1>4, <1>5, <1>6, <1>7 DEF Writes
<1> QED
  BY <1>8, WriteStep

LEMMA ValidateStep ==
    ASSUME IInv, NEW s \in Shell, Validate(s)
    PROVE  Rest'
<1>1. /\ pc[s] = "validate" /\ Goto(s, "manifest")
      /\ UNCHANGED <<disk, contested, torn>>
  BY DEF Validate, history
<1>2. PICK w \in Revision :
          goal[s] = w /\ w # None /\ w # Cut /\ (w \in contested \/ ~Valid(w))
  BY <1>1, GoalPicked DEF Build
<1>3. Exists(w) /\ release[w].python /\ release[w].packages = "all"
  BY <1>2 DEF Validate
<1>4. release' = [release EXCEPT ![w] = release[w]] /\ UNCHANGED link
  BY <1>1 DEF IInv, TypeOK, disk
<1>5. /\ release[w] # None
      /\ w \in contested \/ ~Finished(release[w], w)
      /\ UNCHANGED <<contested, torn>>
  BY <1>1, <1>2, <1>3 DEF Exists, Valid, Finished
<1>6. Writes(s, w, release[w], "manifest")
  BY <1>1, <1>2, <1>3, <1>4, <1>5 DEF Writes, Build
<1> QED
  BY <1>6, WriteStep

\* The manifest finishes the release, or ends the script.
LEMMA WriteManifestStep ==
    ASSUME IInv, NEW s \in Shell, WriteManifest(s)
    PROVE  Rest'
<1>1. /\ pc[s] = "manifest" /\ Exists(goal[s])
      /\ UNCHANGED <<link, contested, torn>>
  BY DEF WriteManifest, history
<1>2. PICK w \in Revision :
          goal[s] = w /\ w # None /\ w # Cut /\ (w \in contested \/ ~Valid(w))
  BY <1>1, GoalPicked DEF Build
<1>3. release[w] \in Directory
  BY <1>1, <1>2 DEF IInv, TypeOK, Exists
<1>4. w \notin contested => release[w].python /\ release[w].packages = "all"
  BY <1>1, <1>2 DEF IInv, BuildShape, Builds, Build
<1>5. ASSUME NEW m \in {w, Cut}, NEW step \in {"unlink", "ended"},
             (m = w) <=> (step = "unlink"), Goto(s, step),
             release' = [release EXCEPT ![w].manifest = m]
      PROVE  Rest'
  <2> DEFINE d == [release[w] EXCEPT !.manifest = m]
  <2>1. /\ d.python = release[w].python /\ d.packages = release[w].packages
        /\ d.manifest = m /\ d \in Directory
    BY <1>3 DEF Directory
  <2>2. release' = [release EXCEPT ![w] = d]
    BY <1>5 DEF IInv, TypeOK
  <2>3. d # None
    BY <2>1, NamesAssumption
  <2>4. w \in contested \/ (Finished(d, w) <=> step = "unlink")
    BY <1>2, <1>4, <1>5, <2>1, <2>3 DEF Finished
  <2>5. w \in contested \/ d.packages = "all"
    BY <1>4, <2>1
  <2> HIDE DEF d
  <2>6. Writes(s, w, d, step)
    BY <1>1, <1>2, <1>5, <2>2, <2>4, <2>5 DEF Writes, Build
  <2> QED
    BY <2>6, WriteStep
<1>6. CASE /\ release' = [release EXCEPT ![w].manifest = w] /\ Goto(s, "unlink")
  BY <1>5, <1>6
<1>7. CASE /\ release' = [release EXCEPT ![w].manifest = Cut] /\ Goto(s, "ended")
  BY <1>2, <1>5, <1>7
<1> QED
  BY <1>2, <1>6, <1>7 DEF WriteManifest

-----------------------------------------------------------------------------
\* The link is taken away and put in place; the releases stay as they are.
LEMMA UnlinkStep ==
    ASSUME IInv, NEW s \in Shell, Unlink(s)
    PROVE  Rest'
<1>1. /\ pc[s] = "unlink" /\ link' = None
      /\ UNCHANGED <<release, contested, torn>>
  BY DEF Unlink, history
<1>2. /\ pc'[s] = "link" /\ goal'[s] = goal[s]
      /\ \A t \in Shell \ {s} : pc'[t] = pc[t] /\ goal'[t] = goal[t]
  BY OthersStay DEF Unlink
<1>3. \A v : (Exists(v) <=> Exists(v)') /\ (Valid(v) <=> Valid(v)')
  BY <1>1 DEF Exists, Valid
<1>4. OneBuilder'
  BY <1>1, <1>2 DEF IInv, OneBuilder, Builds, Build
<1>5. BuildShape'
  BY <1>1, <1>2, <1>3 DEF IInv, BuildShape, Builds, Build
<1>6. ActivateShape'
  BY <1>1, <1>2, <1>3 DEF IInv, ActivateShape
<1>7. ManifestMeansBuilt'
  BY <1>1, <1>3 DEF IInv, Safety, ManifestMeansBuilt
<1>8. ActivatedStaysBuilt'
  BY <1>1, NamesAssumption DEF ActivatedStaysBuilt
<1>9. AbsentMeansHeld'
  BY <1>2 DEF AbsentMeansHeld
<1> QED
  BY <1>4, <1>5, <1>6, <1>7, <1>8, <1>9 DEF Rest, Safety

\* The release that is linked is finished.
LEMMA LinkStep ==
    ASSUME IInv, NEW s \in Shell, Link(s)
    PROVE  Rest'
<1>1. /\ pc[s] = "link" /\ torn' = (link' = None)
      /\ link' = link \/ (link = None /\ link' = goal[s])
      /\ UNCHANGED <<release, contested>>
  BY DEF Link
<1>2. goal[s] \in Revision
  BY <1>1 DEF IInv, GoalShape, Activation, Build
<1>3. pc'[s] \in {"spawn", "ended"}
  BY OthersStay DEF Link
<1>4. \A t \in Shell \ {s} : pc'[t] = pc[t] /\ goal'[t] = goal[t]
  BY OthersStay DEF Link
<1>5. \A v : (Exists(v) <=> Exists(v)') /\ (Valid(v) <=> Valid(v)')
  BY <1>1 DEF Exists, Valid
<1>6. OneBuilder'
  BY <1>1, <1>3, <1>4 DEF IInv, OneBuilder, Builds, Build
<1>7. BuildShape'
  BY <1>1, <1>3, <1>4, <1>5 DEF IInv, BuildShape, Builds, Build
<1>8. ActivateShape'
  BY <1>1, <1>3, <1>4, <1>5 DEF IInv, ActivateShape
<1>9. ManifestMeansBuilt'
  BY <1>1, <1>5 DEF IInv, Safety, ManifestMeansBuilt
<1>10. ActivatedStaysBuilt'
  <2>1. CASE link' = link
    BY <2>1, <1>1 DEF IInv, Safety, ActivatedStaysBuilt, Valid, Exists
  <2>2. CASE link' = goal[s]
    BY <2>2, <1>1, <1>2 DEF IInv, ActivateShape, ActivatedStaysBuilt, Valid, Exists
  <2> QED
    BY <2>1, <2>2, <1>1
<1>11. AbsentMeansHeld'
  BY <1>1 DEF AbsentMeansHeld
<1> QED
  BY <1>6, <1>7, <1>8, <1>9, <1>10, <1>11 DEF Rest, Safety

\* Steps of no script
LEMMA IdleStep ==
    ASSUME IInv, UNCHANGED <<disk, script, history>>
    PROVE  Rest'
<1>1. UNCHANGED <<release, link, pc, goal, contested, torn>>
  BY DEF disk, script, history
<1>2. OneBuilder' /\ BuildShape' /\ ActivateShape'
  BY <1>1 DEF IInv, OneBuilder, BuildShape, ActivateShape, Builds, Valid, Exists
<1>3. ManifestMeansBuilt' /\ ActivatedStaysBuilt' /\ AbsentMeansHeld'
  BY <1>1 DEF IInv, Safety, ManifestMeansBuilt, ActivatedStaysBuilt,
              AbsentMeansHeld, Valid, Exists
<1> QED
  BY <1>2, <1>3 DEF Rest, Safety

-----------------------------------------------------------------------------
\* A script that is past its check takes a step: then no server could be seen.
LEMMA PastKeeps ==
    ASSUME IInv, NEW s \in Shell, Past(s), UNCHANGED servers
    PROVE  ServerShape'
BY DEF IInv, ServerShape, servers

\* A script takes a step outside of its activation that starts no server.
LEMMA OutsideKeeps ==
    ASSUME IInv, NEW s \in Shell, UNCHANGED servers, UNCHANGED link,
           pc[s] # "record", pc'[s] \notin Activation,
           \A t \in Shell \ {s} : pc'[t] = pc[t]
    PROVE  ServerShape'
BY DEF IInv, ServerShape, servers, Past

LEMMA SpawnKeeps ==
    ASSUME IInv, NEW s \in Shell, Spawn(s)
    PROVE  ServerShape'
<1>1. pc'[s] = "record" /\ \A t \in Shell \ {s} : pc'[t] = pc[t]
  BY OthersStay DEF Spawn
<1>2. UNCHANGED <<link, pid>>
  BY DEF Spawn, disk
<1>3. running'[s] = link /\ \A t \in Shell \ {s} : running'[t] = running[t]
  BY DEF Spawn, IInv, TypeOK
<1>4. /\ unseen \subseteq unseen'
      /\ s \notin unseen' => \A t \in Shell : ~Past(t)
  BY DEF Spawn
<1>5. \A t \in Shell : Past(t)' => Past(t)
  BY <1>1 DEF Past, Activation, Build
<1> QED
  BY <1>1, <1>2, <1>3, <1>4, <1>5 DEF IInv, ServerShape

\* The server that was named before may be seen no more.
LEMMA RecordKeeps ==
    ASSUME IInv, NEW s \in Shell, Record(s)
    PROVE  ServerShape'
<1>1. pc'[s] = "ended" /\ \A t \in Shell \ {s} : pc'[t] = pc[t]
  BY OthersStay DEF Record
<1>2. UNCHANGED <<link, running>> /\ pid' = IF running[s] = None THEN None ELSE s
  BY DEF Record, disk
<1>3. unseen' = unseen \union ({pid} \ {None})
  BY DEF Record
<1>4. \A t \in Shell : Past(t)' => Past(t)
  BY <1>1 DEF Past, Activation, Build
<1>5. ASSUME NEW t \in Shell \ unseen', running'[t] # None
      PROVE  /\ pid' = t \/ pc'[t] = "record"
             /\ \A u \in Shell : ~Past(u)'
             /\ link' = running'[t]
  <2>1. t \notin unseen /\ t # pid /\ running[t] # None
    BY <1>2, <1>3, <1>5, NamesAssumption
  <2>2. pc[t] = "record" /\ (\A u \in Shell : ~Past(u)) /\ link = running[t]
    BY <2>1 DEF IInv, ServerShape
  <2> QED
    BY <1>1, <1>2, <1>4, <2>1, <2>2
<1> QED
  BY <1>5 DEF ServerShape

\* Whoever passes the check has seen no server, and those it could not see
\* are known.
LEMMA CheckKeeps ==
    ASSUME IInv, NEW s \in Shell, Check(s)
    PROVE  ServerShape'
<1>1. pid = None /\ UNCHANGED running /\ unseen' = unseen \union Unnamed
  BY DEF Check, Running
<1>2. \A t \in Shell \ unseen' : running'[t] = None
  BY <1>1, NamesAssumption DEF IInv, ServerShape, Unnamed
<1> QED
  BY <1>2 DEF ServerShape

LEMMA KilledKeeps ==
    ASSUME IInv, NEW s \in Shell, Killed(s)
    PROVE  ServerShape'
<1>1. pc'[s] = "ended" /\ \A t \in Shell \ {s} : pc'[t] = pc[t]
  BY OthersStay DEF Killed
<1>2. UNCHANGED <<link, running, pid>>
  BY DEF Killed, disk
<1>3. unseen' = unseen \union (Unnamed \intersect {s})
  BY DEF Killed
<1>4. \A t \in Shell : Past(t)' => Past(t)
  BY <1>1 DEF Past, Activation, Build
<1> QED
  BY <1>1, <1>2, <1>3, <1>4 DEF IInv, ServerShape, Unnamed

LEMMA EndsKeeps ==
    ASSUME IInv, ServerEnds
    PROVE  ServerShape'
<1>1. PICK s \in Shell : /\ running' = [running EXCEPT ![s] = None]
                         /\ pid' = IF pid = s THEN None ELSE pid
                         /\ unseen' = unseen \ {s}
  BY DEF ServerEnds
<1>2. UNCHANGED <<link, pc>>
  BY DEF ServerEnds, disk, script
<1>3. running'[s] = None /\ \A t \in Shell \ {s} : running'[t] = running[t]
  BY <1>1 DEF IInv, TypeOK
<1> QED
  BY <1>1, <1>2, <1>3 DEF IInv, ServerShape, Past

LEMMA ServerStep == IInv /\ [Next]_vars => ServerShape'
<1> SUFFICES ASSUME IInv, [Next]_vars PROVE ServerShape'
  OBVIOUS
<1>1. ASSUME NEW s \in Shell, Serve(s) \/ Setup(s) PROVE ServerShape'
  <2>1. UNCHANGED servers /\ UNCHANGED link /\ pc[s] = "ended"
    BY <1>1 DEF Serve, Setup, Begin, disk
  <2>2. pc'[s] \in {"revision", "spawn"} /\ \A t \in Shell \ {s} : pc'[t] = pc[t]
    BY <1>1 DEF Serve, Setup, Begin, IInv, TypeOK
  <2> QED
    BY <2>1, <2>2, OutsideKeeps DEF Activation, Build
<1>2. ASSUME NEW s \in Shell, ReadRevision(s) PROVE ServerShape'
  <2>1. UNCHANGED servers /\ UNCHANGED link /\ pc[s] = "revision"
    BY <1>2 DEF ReadRevision, disk
  <2>2. pc'[s] = "check" /\ \A t \in Shell \ {s} : pc'[t] = pc[t]
    BY <1>2 DEF ReadRevision, IInv, TypeOK
  <2> QED
    BY <2>1, <2>2, OutsideKeeps DEF Activation, Build
<1>3. ASSUME NEW s \in Shell, Fails(s) PROVE ServerShape'
  <2>1. UNCHANGED servers /\ UNCHANGED link
    BY <1>3 DEF Fails, disk
  <2>2. pc[s] \in {"check", "spawn"} \/ Past(s)
    BY <1>3 DEF Fails, Past, Activation
  <2>3. pc'[s] = "ended" /\ \A t \in Shell \ {s} : pc'[t] = pc[t]
    BY <1>3, OthersStay DEF Fails
  <2> QED
    BY <2>1, <2>2, <2>3, PastKeeps, OutsideKeeps DEF Activation, Build
<1>4. ASSUME NEW s \in Shell,
             \/ Look(s) \/ Wipe(s) \/ Venv(s) \/ Install(s) \/ Installed(s)
             \/ Validate(s) \/ WriteManifest(s) \/ NoDirectory(s) \/ Activating(s)
      PROVE  ServerShape'
  <2>1. UNCHANGED servers
    BY <1>4 DEF Look, Wipe, Venv, Install, Installed, Validate, WriteManifest,
                NoDirectory, Activating, Unlink, Link
  <2>2. Past(s)
    BY <1>4 DEF Look, Wipe, Venv, Install, Installed, Validate, WriteManifest,
                NoDirectory, Activating, Unlink, Link, Past, Activation, Build
  <2> QED
    BY <2>1, <2>2, PastKeeps
<1>5. CASE Checkout \/ UNCHANGED vars
  <2>1. UNCHANGED <<running, pid, unseen, link, pc>>
    BY <1>5 DEF Checkout, vars, servers, disk, script
  <2> QED
    BY <2>1 DEF IInv, ServerShape, Past
<1> QED
  BY <1>1, <1>2, <1>3, <1>4, <1>5, SpawnKeeps, RecordKeeps, CheckKeeps, KilledKeeps,
     EndsKeeps DEF Next, Building

-----------------------------------------------------------------------------
LEMMA Initial == Init => IInv
<1> SUFFICES ASSUME Init PROVE IInv
  OBVIOUS
<1> USE DEF Init
<1>1. TypeOK
  BY DEF TypeOK, Steps, Build
<1>2. GoalShape /\ OneBuilder /\ BuildShape /\ ActivateShape /\ ServerShape
  BY DEF GoalShape, Activation, ServerShape, OneBuilder, BuildShape, ActivateShape, Builds, Build
<1>3. Safety
  BY NamesAssumption DEF Safety, ManifestMeansBuilt, ActivatedStaysBuilt, AbsentMeansHeld, Valid, Exists
<1> QED
  BY <1>1, <1>2, <1>3 DEF IInv

LEMMA Inductive == IInv /\ [Next]_vars => IInv'
<1> SUFFICES ASSUME IInv, [Next]_vars PROVE IInv'
  OBVIOUS
<1>1. TypeOK' /\ GoalShape'
  BY TypeStep DEF IInv
<1>2. ASSUME NEW s \in Shell, Serve(s) \/ Setup(s) \/ Spawn(s) \/ Record(s) PROVE Rest'
  BY <1>2, BeginStep, ServeStep
<1>3. ASSUME NEW s \in Shell, Building(s) PROVE Rest'
  <2>1. CASE ReadRevision(s) \/ Check(s) \/ Look(s)
    BY <2>1, ReadRevisionStep, ServeStep, LookStep
  <2>2. CASE Wipe(s) \/ Venv(s) \/ Validate(s) \/ WriteManifest(s)
    BY <2>2, WipeStep, VenvStep, ValidateStep, WriteManifestStep
  <2>3. CASE Install(s)
    <3>1. Installs(s, "some", "installing")
      BY <2>3 DEF Install, Installs, history
    <3> QED
      BY <3>1, InstallStep
  <2>4. CASE Installed(s)
    <3>1. Installs(s, IF release[goal[s]].packages = "none" THEN "some" ELSE "all",
                   "validate")
      BY <2>4 DEF Installed, Installs, history
    <3> QED
      BY <3>1, InstallStep
  <2>5. CASE NoDirectory(s) \/ Fails(s)
    BY <2>5, EndStep DEF NoDirectory, Fails, history, Build
  <2> QED
    BY <1>3, <2>1, <2>2, <2>3, <2>4, <2>5 DEF Building
<1>4. ASSUME NEW s \in Shell, Activating(s) PROVE Rest'
  BY <1>4, UnlinkStep, LinkStep DEF Activating
<1>5. ASSUME NEW s \in Shell, Killed(s) PROVE Rest'
  <2>1. Goto(s, "ended") /\ UNCHANGED <<disk, contested>>
    BY <1>5 DEF Killed
  <2>2. torn \/ pc[s] = "link" => torn'
    BY <1>5 DEF Killed
  <2> QED
    BY <2>1, <2>2, EndStep
<1>6. ASSUME Checkout \/ ServerEnds \/ UNCHANGED vars PROVE Rest'
  <2>1. UNCHANGED <<disk, script, history>>
    BY <1>6 DEF Checkout, ServerEnds, vars, disk, script, history
  <2> QED
    BY <2>1, IdleStep
<1>7. Rest'
  BY <1>2, <1>3, <1>4, <1>5, <1>6 DEF Next
<1>8. ServerShape'
  BY ServerStep
<1> QED
  BY <1>1, <1>7, <1>8 DEF IInv, Rest

LEMMA Invariance == Spec => []IInv
BY Initial, Inductive, PTL DEF Spec

-----------------------------------------------------------------------------
\* Every variable of the scripts and of the disk holds a value of the program.
THEOREM TypeCorrect == Spec => []TypeOK
<1>1. IInv => TypeOK
  BY DEF IInv
<1> QED
  BY <1>1, Invariance, PTL

\* For any number of shells and revisions: a release whose manifest is in
\* order holds all packages, unless two scripts were building it at a time.
THEOREM ManifestAlwaysMeansBuilt == Spec => []ManifestMeansBuilt
<1>1. IInv => ManifestMeansBuilt
  BY DEF IInv, Safety
<1> QED
  BY <1>1, Invariance, PTL

\* The environment that the link points to stays finished.
THEOREM ActivatedAlwaysBuilt == Spec => []ActivatedStaysBuilt
<1>1. IInv => ActivatedStaysBuilt
  BY DEF IInv, Safety
<1> QED
  BY <1>1, Invariance, PTL

\* What a server that could be seen finds under its path stays its own
\* release, whole and finished.
THEOREM ServersAlwaysKeepTheirEnvironment == Spec => []ServersKeepTheirEnvironment
<1>1. IInv => ServersKeepTheirEnvironment
  <2> SUFFICES ASSUME IInv, NEW s \in Shell \ unseen, running[s] # None
               PROVE  /\ link = running[s]
                      /\ link \notin contested =>
                            Valid(link) /\ release[link].packages = "all"
    BY DEF ServersKeepTheirEnvironment
  <2>1. link = running[s] /\ link \in Revision
    BY DEF IInv, TypeOK, ServerShape
  <2> QED
    BY <2>1 DEF IInv, Safety, ActivatedStaysBuilt, ManifestMeansBuilt
<1> QED
  BY <1>1, Invariance, PTL

\* The environment is missing only between the two commands that replace it,
\* or because a script was stopped between them by a signal or a failing ln.
THEOREM AbsentAlwaysHeld == Spec => []AbsentMeansHeld
<1>1. IInv => AbsentMeansHeld
  BY DEF IInv, Safety
<1> QED
  BY <1>1, Invariance, PTL

=============================================================================
