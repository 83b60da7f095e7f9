--------------------------- MODULE SuperviseProofs ---------------------------
(***************************************************************************)
(* For any number of runs, contexts and pictures, wherever calls fail and  *)
(* supervisors die: a run that is accepted is complete on disk, a capture  *)
(* is cleared only when it is durable, and a traced child never has the    *)
(* device open unrecorded.                                                 *)
(*                                                                         *)
(* The invariant follows one run.  Owned: the captures, each off or of one *)
(* child's run.  Fits: the child, against the supervisor that forked it.   *)
(* Traced: the captures of a child that was released, be it by an earlier  *)
(* supervisor.  Place: what has been done when the supervisor is at a      *)
(* place.  Durable: what is known of disk and captures as long as nothing  *)
(* has failed, and from the first clearing on whatever fails.              *)
(***************************************************************************)
EXTENDS Supervise, Integers, TLAPS

Arming == {"attempt", "arm", "armed", "release"}
Watching == {"poll", "watch"}
Cleaning == {"close", "term", "termwait", "kill", "killwait"}
Sealing == {"seal_check", "seal", "snapshot", "stored", "sealed"}
Clearing == {"clear", "cleared"}

Active == ~At("idle")

Captures == Capture(Run, Run)

Children ==
    [state : {"none", "blocked", "free", "dying", "stuck", "dead"},
     pid : Run \cup {0}, exit : 0..NoExit, context : Nat,
     op : InProgress \cup {"closed", "opened", "started"}, half : {1, 2}]

Supervisors ==
    [pc : Pc, i : {1, 2}, run : Run \cup {0}, enabled : BOOLEAN,
     errors : BOOLEAN, forked : BOOLEAN, reaped : BOOLEAN, exit : 0..NoExit,
     armed : 0..2, seen : Nat]

Results ==
    [attempted : 0..2, reaped : BOOLEAN, exit : 0..NoExit,
     snapshot : [Rec -> Captures]]

Typed ==
    /\ rec \in [Rec -> Captures]
    /\ opens \in [Rec -> Int]
    /\ last_run \in [Rec -> Run \cup {0}]
    /\ child \in Children
    /\ next_context \in Nat
    /\ foreign \subseteq Rec
    /\ sup \in Supervisors
    /\ disk \in [Run -> Results]
    /\ Active => sup.run # 0

(* A capture is off, or one of a child's run. *)
Owned ==
    \A n \in Rec :
        /\ rec[n].errors \in {{}, Error}
        /\ rec[n].phase = "off" => rec[n] = Off
        /\ rec[n].phase # "off" => rec[n].run # 0 /\ rec[n].pid = rec[n].run

(* The child, and what the supervisor has done to it. *)
Fits ==
    /\ child.state \in {"none", "blocked", "dead"} => child.op = "closed"
    /\ child.state # "none" => child.pid # 0
    /\ child.pid <= sup.run
    /\ Active /\ ~sup.forked => child.pid < sup.run
    /\ Active /\ sup.forked => child.pid = sup.run /\ child.state # "none"
    /\ Active /\ sup.reaped => sup.forked /\ child.state = "dead"

Recorded(n, run) ==
    Recording(rec[n]) /\ rec[n].run = run

(* A child that has the device open, or may open it. *)
Loose ==
    child.state \in {"free", "stuck"} \/ child.op # "closed"

(* The captures of a child that was released, also by an earlier supervisor. *)
(* An untraced run has found both recorders off, and leaves them so.         *)
Traced ==
    /\ \A r \in Run : r > sup.run => disk[r].attempted = 0
    /\ Active /\ ~sup.enabled => sup.armed = 0 /\ disk[sup.run].attempted = 0
    /\ Active /\ ~sup.enabled /\ sup.forked => \A n \in Rec : rec[n] = Off
    /\ Loose => \/ \A n \in Rec : Recorded(n, child.pid)
                \/ /\ disk[child.pid].attempted = 0
                   /\ Active /\ child.pid = sup.run => sup.armed = 0

(* What has been done when the supervisor is at a place. *)
Place ==
    /\ At("preflight") /\ sup.i = 2 => rec[1] = Off
    /\ At("fork") => \A n \in Rec : rec[n] = Off
    /\ sup.pc \in {"preflight", "fork"} => ~sup.forked /\ sup.armed = 0
    /\ sup.pc \in Arming \cup Watching => sup.forked
    /\ sup.pc \in Arming => child.state = "blocked"
    /\ sup.enabled /\ At("attempt") => sup.armed = sup.i - 1
    /\ sup.enabled /\ sup.pc \in {"arm", "armed"} => sup.armed = sup.i
    /\ sup.enabled /\ sup.pc \in {"attempt", "arm", "armed"} =>
           \A n \in Rec : n < sup.i => Recorded(n, sup.run)
    /\ sup.enabled /\ At("release") =>
           sup.armed = 2 /\ \A n \in Rec : Recorded(n, sup.run)
    /\ sup.pc \in Cleaning => sup.errors
    /\ sup.pc \in {"term", "termwait", "kill", "killwait"} => sup.forked
    /\ sup.pc \in Sealing \cup Clearing \cup {"final"} => sup.reaped
    /\ At("judge") /\ ~sup.errors => sup.reaped
    /\ At("complete") /\ ~sup.errors /\ sup.exit = 0 => sup.reaped

Result == disk[sup.run]

(* The capture of recorder n is whole, and on disk. *)
Stored(n) ==
    rec[n] = Result.snapshot[n] /\ Whole(rec[n], sup.run)

(* The evidence of a successful run is on disk. *)
Evidence ==
    /\ Result.reaped /\ Result.exit = 0
    /\ sup.enabled =>
          /\ \A n \in Rec : Whole(Result.snapshot[n], sup.run)
          /\ Result.snapshot[1].context = Result.snapshot[2].context

Durable ==
    /\ ~sup.errors /\ sup.pc \in Watching \cup Sealing \cup {"final", "judge"} =>
           sup.armed = IF sup.enabled THEN 2 ELSE 0
    /\ ~sup.errors /\ sup.pc \in Sealing \cup {"final", "judge"} =>
           Result.reaped /\ Result.exit = sup.exit
    /\ ~sup.errors /\ sup.pc \in Sealing =>
           sup.enabled /\ \A n \in Rec : n < sup.i => Stored(n)
    /\ ~sup.errors /\ sup.pc \in {"stored", "sealed"} =>
           rec[sup.i] = Result.snapshot[sup.i] /\ rec[sup.i].phase = "sealed"
    /\ ~sup.errors /\ sup.pc \in {"final", "judge"} /\ sup.enabled =>
           \A n \in Rec : Stored(n)
    /\ ~sup.errors /\ At("final") /\ sup.enabled /\ sup.i = 2 =>
           sup.seen = rec[1].context
    /\ ~sup.errors /\ At("judge") /\ sup.enabled => rec[1].context = rec[2].context
    /\ sup.pc \in Clearing => sup.exit = 0 /\ Evidence
    /\ sup.enabled /\ At("clear") =>
           \A n \in Rec : n >= sup.i => rec[n] = Result.snapshot[n]
    /\ sup.enabled /\ At("cleared") =>
           \A n \in Rec : n > sup.i => rec[n] = Result.snapshot[n]
    /\ sup.pc \in {"complete", "idle"} /\ ~sup.errors /\ sup.exit = 0 => Evidence

Inv ==
    Typed /\ Owned /\ Fits /\ Traced /\ Place /\ Durable

-----------------------------------------------------------------------------
(* t is s at another place. *)
Moved(s, t) ==
    /\ t \in Supervisors
    /\ t.run = s.run /\ t.enabled = s.enabled /\ t.forked = s.forked
    /\ t.reaped = s.reaped /\ t.exit = s.exit /\ t.armed = s.armed

LEMMA ToFields ==
    ASSUME NEW s \in Supervisors, NEW pc \in Pc, NEW i \in {1, 2}
    PROVE  LET t == To(s, pc, i)
           IN  /\ Moved(s, t) /\ t.errors = s.errors /\ t.seen = s.seen
               /\ t.pc = pc /\ t.i = i
  BY ZenonT(60) DEF Supervisors, To, Moved

LEMMA HandledFields ==
    ASSUME NEW s \in Supervisors
    PROVE  LET t == Handled(s)
           IN  /\ Moved(s, t) /\ t.errors = s.errors /\ t.seen = s.seen
               /\ s.pc \in Sealing =>
                      \/ s.i = 1 /\ s.armed = 2 /\ t.pc = "seal_check" /\ t.i = 2
                      \/ ~(s.i < s.armed) /\ t.pc = "final" /\ t.i = 1
               /\ s.pc = "final" => t.pc = "judge"
               /\ s.pc \in Clearing => \/ s.i = 1 /\ t.pc = "clear" /\ t.i = 2
                                       \/ s.i = 2 /\ t.pc = "complete"
               /\ s.pc \notin Sealing \cup Clearing \cup {"final"} => t.pc = "close"
  <1>0. /\ s.i \in {1, 2} /\ s.armed \in 0..2
        /\ {"seal_check", "final", "clear"} \subseteq Pc
    BY Zenon DEF Supervisors, Pc
  <1>1. CASE s.pc \in Sealing
    <2>1. CASE s.i < s.armed
      <3>1. s.i = 1 /\ s.armed = 2
        BY <1>0, <2>1
      <3>2. Handled(s) = To(s, "seal_check", 2)
        BY <1>1, <2>1, <3>1 DEF Handled, To, Sealing
      <3> QED
        BY <1>0, <1>1, <3>1, <3>2, ToFields DEF Sealing, Clearing
    <2>2. CASE ~(s.i < s.armed)
      <3>1. Handled(s) = To(s, "final", 1)
        BY Zenon, <1>1, <2>2 DEF Handled, To, Sealing
      <3> QED
        BY <1>0, <1>1, <2>2, <3>1, ToFields DEF Sealing, Clearing
    <2> QED
      BY Zenon, <2>1, <2>2
  <1>2. CASE s.pc \in Clearing
    <2>1. CASE s.i < 2
      <3>1. s.i = 1
        BY <1>0, <2>1
      <3>2. Handled(s) = To(s, "clear", 2)
        BY <1>2, <2>1, <3>1 DEF Handled, To, Clearing
      <3> QED
        BY <1>0, <1>2, <3>1, <3>2, ToFields DEF Sealing, Clearing
    <2>2. CASE ~(s.i < 2)
      BY <1>2, <1>0, <2>2 DEF Supervisors, Handled, Moved, Sealing, Clearing, Pc
    <2> QED
      BY Zenon, <2>1, <2>2
  <1>3. CASE s.pc \notin Sealing \cup Clearing
    BY ZenonT(60), <1>3 DEF Supervisors, Handled, Moved, Sealing, Clearing, Pc
  <1> QED
    BY Zenon, <1>1, <1>2, <1>3

(* disk' holds for run what s says, or what it said before; no snapshot of *)
(* it and no other run changes.                                            *)
Rewritten(run) ==
    /\ disk' \in [Run -> Results]
    /\ \A r \in Run : r # run => disk'[r] = disk[r]
    /\ disk'[run].snapshot = disk[run].snapshot

Wrote(s) ==
    /\ Rewritten(s.run)
    /\ disk'[s.run].attempted = s.armed
    /\ disk'[s.run].reaped = s.reaped
    /\ disk'[s.run].exit = s.exit

LEMMA WrittenFields ==
    ASSUME NEW s \in Supervisors, s.run # 0, disk \in [Run -> Results],
           disk' = Written(s)
    PROVE  Wrote(s)
  <1>1. s.run \in Run
    BY Zenon DEF Supervisors
  <1> DEFINE d == disk[s.run]
             e == [d EXCEPT !.attempted = s.armed, !.reaped = s.reaped,
                            !.exit = s.exit]
  <1>2. d \in Results
    BY Zenon, <1>1
  <1>3. /\ e \in Results
        /\ e.attempted = s.armed /\ e.reaped = s.reaped /\ e.exit = s.exit
        /\ e.snapshot = d.snapshot
    BY ZenonT(60), <1>2 DEF Results, Supervisors
  <1>4. disk' = [disk EXCEPT ![s.run] = e]
    BY Zenon DEF Written
  <1> HIDE DEF e
  <1> QED
    BY Zenon, <1>1, <1>3, <1>4 DEF Wrote, Rewritten

LEMMA FailsFields ==
    ASSUME NEW s \in Supervisors, s.run # 0, disk \in [Run -> Results],
           Fails(s)
    PROVE  /\ Moved(s, sup') /\ sup'.errors /\ sup'.seen = s.seen
           /\ s.pc \in Sealing =>
                  \/ s.i = 1 /\ s.armed = 2 /\ sup'.pc = "seal_check" /\ sup'.i = 2
                  \/ ~(s.i < s.armed) /\ sup'.pc = "final" /\ sup'.i = 1
           /\ s.pc = "final" => sup'.pc = "judge"
           /\ s.pc \in Clearing => \/ s.i = 1 /\ sup'.pc = "clear" /\ sup'.i = 2
                                   \/ s.i = 2 /\ sup'.pc = "complete"
           /\ s.pc \notin Sealing \cup Clearing \cup {"final"} =>
                  sup'.pc = "close"
           /\ disk' = disk \/ Wrote(s)
  <1> DEFINE e == [s EXCEPT !.errors = TRUE]
  <1>1. /\ e \in Supervisors /\ e.errors /\ Moved(s, e)
        /\ e.pc = s.pc /\ e.i = s.i /\ e.seen = s.seen
    BY ZenonT(60) DEF Supervisors, Moved
  <1>2. sup' = Handled(e) /\ disk' \in {disk, Written(Handled(e))}
    BY Zenon DEF Fails
  <1> HIDE DEF e
  <1>3. Moved(e, sup') /\ sup'.errors = e.errors /\ sup'.seen = e.seen
    BY ZenonT(60), <1>1, <1>2, HandledFields
  <1>4. Moved(s, sup') /\ sup'.run # 0
    BY Zenon, <1>1, <1>3 DEF Moved
  <1>5. disk' = disk \/ Wrote(sup')
    BY Zenon, <1>2, <1>4, WrittenFields DEF Moved
  <1>6. disk' = disk \/ Wrote(s)
    BY Zenon, <1>4, <1>5 DEF Wrote, Moved
  <1>7. /\ e.pc \in Sealing =>
                  \/ e.i = 1 /\ e.armed = 2 /\ sup'.pc = "seal_check" /\ sup'.i = 2
                  \/ ~(e.i < e.armed) /\ sup'.pc = "final" /\ sup'.i = 1
        /\ e.pc = "final" => sup'.pc = "judge"
        /\ e.pc \in Clearing => \/ e.i = 1 /\ sup'.pc = "clear" /\ sup'.i = 2
                                \/ e.i = 2 /\ sup'.pc = "complete"
        /\ e.pc \notin Sealing \cup Clearing \cup {"final"} => sup'.pc = "close"
    BY Zenon, <1>1, <1>2, HandledFields
  <1> QED
    BY Zenon, <1>1, <1>3, <1>4, <1>6, <1>7 DEF Moved

-----------------------------------------------------------------------------
(* c is what the hooks may make of capture b: only a recording one changes,  *)
(* and it stays the recording of its run.                                    *)
Later(b, c) ==
    /\ c \in Captures
    /\ c.errors \in {{}, Error}
    /\ c.run = b.run /\ c.pid = b.pid
    /\ b.phase \in {"off", "sealed"} => c = b
    /\ Recording(b) => Recording(c)

LEMMA AnyFields ==
    ASSUME NEW b \in Captures
    PROVE  /\ Any(b) \in Captures /\ Any(b).errors \in {{}, Error}
           /\ Any(b).phase = b.phase /\ Any(b).run = b.run
           /\ Any(b).pid = b.pid
           /\ Any(b).errors = {} <=> b.errors = {}
           /\ b.errors \in {{}, Error} => Any(b) = b
  BY Zenon DEF Captures, Capture, Any, Error

LEMMA LaterAny ==
    ASSUME NEW b \in Captures, b.errors \in {{}, Error}, NEW c \in Captures,
           c.run = b.run, c.pid = b.pid,
           b.phase \in {"off", "sealed"} => c = b,
           Recording(b) => Recording(c)
    PROVE  Later(b, Any(c))
  BY Zenon, AnyFields DEF Later, Recording

LEMMA OpenFields ==
    ASSUME NEW b \in Captures, b.errors \in {{}, Error}, NEW pid
    PROVE  Later(b, Any(atr_open(b, pid)))
  <1> DEFINE c == atr_open(b, pid)
  <1>1. /\ c \in Captures /\ c.run = b.run /\ c.pid = b.pid
        /\ c.phase = b.phase
    BY Zenon DEF Captures, Capture, atr_open, Flag, If, Error
  <1>2. b.phase \in {"off", "sealed"} => c = b
    BY Zenon DEF Captures, Capture, atr_open, Flag, If, Recording
  <1> HIDE DEF c
  <1>3. Later(b, Any(c))
    BY Zenon, <1>1, <1>2, LaterAny DEF Recording
  <1> QED
    BY Zenon, <1>3 DEF c

LEMMA BindFields ==
    ASSUME NEW b \in Captures, NEW pid, NEW context \in Nat
    PROVE  LET c == atr_bind(b, pid, context, TRUE)
           IN  /\ c \in Captures /\ c.run = b.run /\ c.pid = b.pid
               /\ b.phase \in {"off", "sealed"} => c = b
               /\ Recording(b) => Recording(c)
  <1> DEFINE c == atr_bind(b, pid, context, TRUE)
  <1>1. CASE b.phase = "armed" /\ pid = b.pid
    <2>1. c = [b EXCEPT !.context = context, !.phase = "active"]
      BY Zenon, <1>1 DEF atr_bind
    <2> QED
      BY ZenonT(60), <1>1, <2>1 DEF Captures, Capture, Recording, Phase
  <1>2. CASE ~(b.phase = "armed" /\ pid = b.pid)
    <2>1. c = Flag(b, If(/\ Recording(b)
                         /\ context # b.context \/ b.phase = "drained",
                         "foreign"))
      BY ZenonT(60), <1>2 DEF atr_bind
    <2>2. /\ c \in Captures /\ c.run = b.run /\ c.pid = b.pid
          /\ c.phase = b.phase
      BY ZenonT(60), <2>1 DEF Captures, Capture, Flag, If, Error
    <2>3. ASSUME b.phase \in {"off", "sealed"} PROVE c = b
      <3>1. c = [b EXCEPT !.errors = b.errors \cup {}]
        BY ZenonT(60), <2>1, <2>3 DEF Flag, If, Recording
      <3> QED
        BY ZenonT(60), <3>1 DEF Captures, Capture
    <2> QED
      BY ZenonT(60), <2>2, <2>3 DEF Recording
  <1> QED
    BY ZenonT(60), <1>1, <1>2

LEMMA StartFields ==
    ASSUME NEW b \in Captures, NEW context
    PROVE  LET c == atr_start(b, context, TRUE)
           IN  /\ c \in Captures /\ c.run = b.run /\ c.pid = b.pid
               /\ c.phase = b.phase
               /\ b.phase \in {"off", "sealed"} => c = b
  <1>1. CASE ~atr_selected(b, context)
    BY Zenon, <1>1 DEF atr_start
  <1>2. CASE atr_selected(b, context)
    <2> DEFINE e == b.errors \cup If(b.pending # 0, "order")
                           \cup If(b.pictures + 1 > Pictures, "extent")
                           \cup If(~TRUE, "shape")
    <2>1. atr_start(b, context, TRUE) =
              [b EXCEPT !.pictures = b.pictures + 1, !.pending = b.pictures + 1,
                           !.errors = e]
      BY Zenon, <1>2 DEF atr_start
    <2>2. e \in SUBSET Error
      BY Zenon DEF If, Error, Captures, Capture
    <2> HIDE DEF e
    <2>3. b.pictures + 1 \in Nat /\ b.completions + 1 \in Nat
      BY DEF Captures, Capture
    <2>4. atr_start(b, context, TRUE) \in Captures
      BY ZenonT(60), <2>1, <2>2, <2>3 DEF Captures, Capture
    <2>5. /\ atr_start(b, context, TRUE).run = b.run
          /\ atr_start(b, context, TRUE).pid = b.pid
          /\ atr_start(b, context, TRUE).phase = b.phase
      BY ZenonT(60), <2>1 DEF Captures, Capture
    <2> QED
      BY ZenonT(60), <1>2, <2>4, <2>5 DEF atr_selected
  <1> QED
    BY ZenonT(60), <1>1, <1>2

LEMMA DoneFields ==
    ASSUME NEW b \in Captures, NEW context, NEW ok \in BOOLEAN
    PROVE  LET c == atr_done(b, context, ok)
           IN  /\ c \in Captures /\ c.run = b.run /\ c.pid = b.pid
               /\ c.phase = b.phase
               /\ b.phase \in {"off", "sealed"} => c = b
  <1>1. CASE ~atr_selected(b, context)
    BY Zenon, <1>1 DEF atr_done
  <1>2. CASE atr_selected(b, context)
    <2> DEFINE e == b.errors \cup If(b.pending = 0, "order")
                           \cup If(~ok, "failed")
    <2>1. atr_done(b, context, ok) =
              [b EXCEPT !.pending = 0, !.completions = b.completions + 1,
                           !.errors = e]
      BY Zenon, <1>2 DEF atr_done
    <2>2. e \in SUBSET Error
      BY Zenon DEF If, Error, Captures, Capture
    <2> HIDE DEF e
    <2> DEFINE zero == 0
               more == b.completions + 1
    <2>3. zero \in Nat /\ more \in Nat
      BY DEF Captures, Capture
    <2>6. atr_done(b, context, ok) =
              [b EXCEPT !.pending = zero, !.completions = more, !.errors = e]
      BY Zenon, <2>1
    <2> HIDE DEF zero, more
    <2>4. atr_done(b, context, ok) \in Captures
      BY ZenonT(60), <2>6, <2>2, <2>3 DEF Captures, Capture
    <2>5. /\ atr_done(b, context, ok).run = b.run
          /\ atr_done(b, context, ok).pid = b.pid
          /\ atr_done(b, context, ok).phase = b.phase
      BY Zenon, <2>1 DEF Captures, Capture
    <2> QED
      BY Zenon, <1>2, <2>4, <2>5 DEF atr_selected
  <1> QED
    BY Zenon, <1>1, <1>2

LEMMA CloseFields ==
    ASSUME NEW b \in Captures, NEW context
    PROVE  LET c == atr_close(b, context)
           IN  /\ c \in Captures /\ c.run = b.run /\ c.pid = b.pid
               /\ b.phase \in {"off", "sealed"} => c = b
               /\ Recording(b) => Recording(c)
  BY ZenonT(60) DEF Captures, Capture, atr_close, atr_selected, If, Error, Recording, Phase

LEMMA HookFields ==
    ASSUME NEW n \in Rec, rec[n] \in Captures, rec[n].errors \in {{}, Error},
           child \in Children, child.op \in InProgress
    PROVE  Later(rec[n], Any(Hook(n, child.op)))
  <1> DEFINE b == rec[n]
             c == Hook(n, child.op)
  <1>0. child.context \in Nat
    BY Zenon DEF Children
  <1>1. CASE child.op = "open"
    BY Zenon, <1>1, OpenFields DEF Hook
  <1>2. CASE child.op = "start"
    <2> DEFINE d == atr_bind(b, child.pid, child.context, TRUE)
    <2>1. c = atr_start(d, child.context, TRUE)
      BY Zenon, <1>2 DEF Hook
    <2>2. /\ d \in Captures /\ d.run = b.run /\ d.pid = b.pid
          /\ b.phase \in {"off", "sealed"} => d = b
          /\ Recording(b) => Recording(d)
      BY ZenonT(60), <1>0, BindFields
    <2> HIDE DEF c, d
    <2>3. /\ c \in Captures /\ c.run = d.run /\ c.pid = d.pid
          /\ c.phase = d.phase
          /\ d.phase \in {"off", "sealed"} => c = d
      BY ZenonT(60), <2>1, <2>2, StartFields
    <2>4. Later(b, Any(c))
      BY Zenon, <2>2, <2>3, LaterAny DEF Recording
    <2> QED
      BY Zenon, <2>4 DEF c
  <1>3. CASE child.op \in {"done", "fail"}
    <2>1. PICK ok \in BOOLEAN : c = atr_done(b, child.context, ok)
      BY ZenonT(60), <1>3 DEF Hook
    <2>2. /\ c \in Captures /\ c.run = b.run /\ c.pid = b.pid
          /\ c.phase = b.phase
          /\ b.phase \in {"off", "sealed"} => c = b
      BY <2>1, DoneFields
    <2> HIDE DEF c
    <2>3. Later(b, Any(c))
      BY Zenon, <2>2, LaterAny DEF Recording
    <2> QED
      BY Zenon, <2>3 DEF c
  <1>4. CASE child.op = "close"
    <2>1. c = atr_close(b, child.context)
      BY Zenon, <1>4 DEF Hook
    <2>2. /\ c \in Captures /\ c.run = b.run /\ c.pid = b.pid
          /\ b.phase \in {"off", "sealed"} => c = b
          /\ Recording(b) => Recording(c)
      BY <2>1, CloseFields
    <2> HIDE DEF c
    <2>3. Later(b, Any(c))
      BY Zenon, <2>2, LaterAny
    <2> QED
      BY Zenon, <2>3 DEF c
  <1> QED
    BY Zenon, <1>1, <1>2, <1>3, <1>4 DEF InProgress

-----------------------------------------------------------------------------
(* A step that is not the supervisor's: the captures develop, and the child  *)
(* stays what the place of the supervisor calls for.                         *)
WorldMoves ==
    /\ rec' \in [Rec -> Captures]
    /\ \A n \in Rec : Later(rec[n], rec'[n])
    /\ opens' \in [Rec -> Int]
    /\ child' \in Children
    /\ next_context' \in Nat
    /\ foreign' \subseteq Rec
    /\ child'.pid = child.pid
    /\ child'.state = "none" <=> child.state = "none"
    /\ child'.state \in {"none", "blocked", "dead"} => child'.op = "closed"
    /\ child.state = "dead" => child'.state = "dead"
    /\ child.state = "blocked" /\ child'.state # "blocked" =>
           sup.pc \notin Arming
    /\ Loose' => Loose
    /\ UNCHANGED <<last_run, sup, disk>>

LEMMA WorldKeepsInv ==
    ASSUME Inv, WorldMoves
    PROVE  Inv'
  <1>1. Typed'
    BY Zenon DEF Inv, WorldMoves, Typed, Active, At
  <1>2. \A n \in Rec : /\ rec[n] \in Captures /\ rec'[n] \in Captures
                       /\ rec[n].phase \in Phase
    BY Zenon DEF Inv, WorldMoves, Typed, Captures, Capture
  <1>3. \A n \in Rec : rec[n].phase # "off" => rec'[n].phase # "off"
    BY Zenon, <1>2 DEF WorldMoves, Later, Recording, Phase
  <1>4. Owned'
    BY Zenon, <1>2, <1>3 DEF Inv, WorldMoves, Owned, Later
  <1>5. Fits'
    BY Zenon DEF Inv, WorldMoves, Fits, Active, At
  <1>9. /\ \A n \in Rec : rec[n] = Off => rec'[n] = Off
        /\ \A n \in Rec, run \in Run : Recorded(n, run) => Recorded(n, run)'
    <2>1. Off.phase = "off"
      BY Zenon DEF Off
    <2> QED
      BY Zenon, <2>1 DEF WorldMoves, Later, Recorded
  <1>10. /\ Active => sup.run \in Run
         /\ Loose => child.pid \in Run
    BY Zenon DEF Inv, Typed, Supervisors, Children, Fits, Loose
  <1>6. Traced'
    BY Zenon, <1>9, <1>10 DEF Inv, WorldMoves, Traced, Active, At
  <1>7. Place'
    BY ZenonT(60), <1>9, <1>10 DEF Inv, WorldMoves, Place, Active, At, Arming, Rec
  <1>8. Durable'
    <2>1. \A n \in Rec : rec[n].phase = "sealed" => rec'[n] = rec[n]
      BY Zenon DEF WorldMoves, Later
    <2>2. \A n \in Rec : Stored(n) => Stored(n)' /\ rec'[n] = rec[n]
      BY Zenon, <2>1 DEF WorldMoves, Stored, Whole, Result
    <2>3. Evidence <=> Evidence'
      BY Zenon DEF WorldMoves, Evidence, Result
    <2>4. sup.i \in {1, 2}
      BY Zenon DEF Inv, Typed, Supervisors
    <2>5. sup' = sup /\ Result' = Result /\ Durable /\ 1 \in Rec /\ 2 \in Rec
      BY Zenon DEF Inv, WorldMoves, Result, Rec
    <2>6. sup.pc \in Clearing /\ sup.enabled =>
              \A n \in Rec : rec[n] = Result.snapshot[n] => rec'[n] = rec[n]
      BY <2>1, <2>5 DEF Durable, Evidence, Whole
    <2>7. ~sup.errors /\ sup.pc \in {"final", "judge"} /\ sup.enabled =>
              rec'[1] = rec[1] /\ rec'[2] = rec[2]
      BY Zenon, <2>2, <2>5 DEF Durable
    <2> QED
      BY <2>1, <2>2, <2>3, <2>4, <2>5, <2>6, <2>7 DEF Durable, At, Clearing
  <1> QED
    BY Zenon, <1>1, <1>4, <1>5, <1>6, <1>7, <1>8 DEF Inv

LEMMA SameCaptures ==
    ASSUME Inv, rec' = rec
    PROVE  rec' \in [Rec -> Captures] /\ \A n \in Rec : Later(rec[n], rec'[n])
  BY Zenon DEF Inv, Typed, Owned, Later

(* The child's own steps. *)
LEMMA ChildMoves ==
    ASSUME Inv, ChildStep \/ JobEnds \/ ChildCloses \/ ChildDies \/ ChildLoses
    PROVE  WorldMoves
  <1> USE DEF Loose, Becomes, Begins, kernelVars
  <1>0. /\ child \in Children /\ opens \in [Rec -> Int] /\ next_context \in Nat
        /\ foreign \subseteq Rec /\ Fits
        /\ rec' = rec => /\ rec' \in [Rec -> Captures]
                         /\ \A n \in Rec : Later(rec[n], rec'[n])
    BY Zenon, SameCaptures DEF Inv, Typed
  <1>1. CASE ChildOpens
    <2> DEFINE context == next_context + 1
    <2>1. /\ child' = [child EXCEPT !.op = "open", !.context = context]
          /\ context \in Nat /\ next_context' = context
          /\ child.state = "free" /\ UNCHANGED <<rec, opens, last_run>>
          /\ UNCHANGED <<foreign, sup, disk>>
      BY <1>0, <1>1 DEF ChildOpens
    <2> HIDE DEF context
    <2>2. /\ child' \in Children /\ child'.pid = child.pid
          /\ child'.state = child.state
      BY ZenonT(60), <1>0, <2>1 DEF Children, InProgress
    <2> QED
      BY Zenon, <1>0, <2>1, <2>2 DEF WorldMoves, Fits
  <1>2. CASE ChildDecodes
    BY Zenon, <1>0, <1>2 DEF ChildDecodes, WorldMoves, Fits, Children, InProgress
  <1>3. CASE ChildExits \/ ChildDies
    <2>1. PICK exit \in {0, 1} : Ends(exit)
      BY Zenon, <1>3 DEF ChildExits, ChildDies
    <2>2. /\ child' = [child EXCEPT !.state = "dead", !.exit = exit, !.context = 0]
          /\ child.op = "closed" /\ UNCHANGED <<rec, opens, last_run>>
          /\ UNCHANGED <<next_context, foreign, sup, disk>>
      BY Zenon, <2>1 DEF Ends
    <2> DEFINE none == 0
    <2>4. exit \in 0..NoExit /\ none \in Nat
      BY DEF NoExit
    <2>5. child' = [child EXCEPT !.state = "dead", !.exit = exit,
                                 !.context = none]
      BY Zenon, <2>2
    <2> HIDE DEF none
    <2>3. /\ child' \in Children /\ child'.pid = child.pid
          /\ child'.state = "dead" /\ child'.op = child.op
      <3> DEFINE c == [child EXCEPT !.state = "dead"]
                 d == [c EXCEPT !.exit = exit]
      <3>1. child' = [d EXCEPT !.context = none]
        BY Zenon, <2>5
      <3>2. /\ c \in Children /\ c.pid = child.pid /\ c.state = "dead"
            /\ c.op = child.op
        BY Zenon, <1>0 DEF Children
      <3> HIDE DEF c
      <3>3. d \in Children /\ d.pid = c.pid /\ d.state = c.state /\ d.op = c.op
        BY Zenon, <2>4, <3>2 DEF Children
      <3> HIDE DEF d
      <3> QED
        BY Zenon, <2>4, <3>1, <3>2, <3>3 DEF Children
    <2> QED
      BY Zenon, <1>0, <1>3, <2>2, <2>3 DEF ChildExits, ChildDies, WorldMoves, Fits
  <1>4. CASE ChildSticks
    BY Zenon, <1>0, <1>4 DEF ChildSticks, WorldMoves, Fits, Children
  <1>5. CASE ChildWakes
    BY Zenon, <1>0, <1>5 DEF ChildWakes, WorldMoves, Fits, Children
  <1>6. CASE JobEnds
    BY ZenonT(60), <1>0, <1>6 DEF JobEnds, WorldMoves, Fits, Children, InProgress
  <1>7. CASE ChildCloses
    BY Zenon, <1>0, <1>7 DEF ChildCloses, WorldMoves, Fits, Children, InProgress
  <1>8. CASE ChildLoses
    BY Zenon, <1>0, <1>8 DEF ChildLoses, WorldMoves, Fits, Children, Arming
  <1> QED
    BY Zenon, <1>1, <1>2, <1>3, <1>4, <1>5, <1>6, <1>7, <1>8 DEF ChildStep

LEMMA HookMoves ==
    ASSUME Inv, HookStep
    PROVE  WorldMoves
  <1> DEFINE op == child.op
             n == IF op = "close" THEN 3 - child.half ELSE child.half
  <1>0. /\ child \in Children /\ opens \in [Rec -> Int] /\ next_context \in Nat
        /\ foreign \subseteq Rec /\ Fits /\ rec \in [Rec -> Captures] /\ Owned
    BY Zenon DEF Inv, Typed
  <1>1. op \in InProgress /\ n \in Rec
    BY <1>0 DEF HookStep, Children, Rec
  <1>2. rec' = [rec EXCEPT ![n] = Any(Hook(n, op))]
    BY Zenon DEF HookStep
  <1>3. opens' \in [Rec -> Int]
    <2>1. opens' \in {[opens EXCEPT ![n] = opens[n] + 1],
                      [opens EXCEPT ![n] = opens[n] - 1], opens}
      BY Zenon, <1>1 DEF HookStep, InProgress
    <2> HIDE DEF n
    <2> QED
      BY <1>0, <1>1, <2>1
  <1>4. child' = IF child.half = 1 THEN [child EXCEPT !.half = 2]
                 ELSE [child EXCEPT !.half = 1, !.op = After(op)]
    BY Zenon DEF HookStep
  <1>5. UNCHANGED <<last_run, next_context, foreign, sup, disk>>
    BY Zenon DEF HookStep
  <1> HIDE DEF n
  <1>6. Later(rec[n], Any(Hook(n, op)))
    BY Zenon, <1>0, <1>1, HookFields DEF Owned
  <1>7. rec' \in [Rec -> Captures] /\ \A m \in Rec : Later(rec[m], rec'[m])
    BY Zenon, <1>0, <1>1, <1>2, <1>6 DEF Later, Owned
  <1>8. After(op) \in {"opened", "started", "closed"}
    BY Zenon, <1>1 DEF After, InProgress
  <1>9. /\ child' \in Children /\ child'.pid = child.pid
        /\ child'.state = child.state
    BY ZenonT(60), <1>0, <1>4, <1>8 DEF Children
  <1>10. op # "closed"
    BY Zenon, <1>1 DEF InProgress
  <1> QED
    BY Zenon, <1>0, <1>3, <1>5, <1>7, <1>9, <1>10 DEF WorldMoves, Fits, Loose

LEMMA ForeignMoves ==
    ASSUME Inv, NEW n \in Rec, ForeignOpens(n) \/ ForeignCloses(n)
    PROVE  WorldMoves
  <1>0. /\ child \in Children /\ opens \in [Rec -> Int] /\ next_context \in Nat
        /\ foreign \subseteq Rec /\ Fits /\ rec \in [Rec -> Captures] /\ Owned
    BY Zenon DEF Inv, Typed
  <1>1. rec' \in [Rec -> Captures] /\ \A m \in Rec : Later(rec[m], rec'[m])
    <2>1. CASE ForeignCloses(n)
      BY Zenon, <2>1, SameCaptures DEF ForeignCloses
    <2>2. CASE ForeignOpens(n)
      <3>1. rec' = [rec EXCEPT ![n] = Any(atr_open(rec[n], 0))]
        BY Zenon, <2>2 DEF ForeignOpens
      <3>2. Later(rec[n], Any(atr_open(rec[n], 0)))
        BY Zenon, <1>0, OpenFields DEF Owned
      <3> QED
        BY Zenon, <1>0, <3>1, <3>2 DEF Later, Owned
    <2> QED
      BY Zenon, <2>1, <2>2
  <1>2. opens' \in [Rec -> Int]
    BY <1>0 DEF ForeignOpens, ForeignCloses
  <1>3. /\ UNCHANGED <<last_run, child, next_context, sup, disk>>
        /\ foreign' \subseteq Rec
    BY Zenon, <1>0 DEF ForeignOpens, ForeignCloses, childVars
  <1> QED
    BY Zenon, <1>0, <1>1, <1>2, <1>3 DEF WorldMoves, Fits, Loose

-----------------------------------------------------------------------------
LEMMA RunsAreNumbers ==
    \A r \in Run : r \in Nat /\ r # 0
  BY SuperviseAssumption DEF Run

(* What the supervisor's steps leave alone. *)
KernelSame ==
    UNCHANGED <<rec, opens, last_run, child, next_context, foreign>>

(* A step of the supervisor that leaves recorders and child alone: it may    *)
(* wait for a dead child, and count an attempt while the child is blocked.   *)
SupervisorMoves ==
    /\ KernelSame
    /\ sup' \in Supervisors /\ sup'.pc # "idle"
    /\ sup'.run = sup.run /\ sup'.enabled = sup.enabled
    /\ sup'.forked = sup.forked
    /\ \/ sup'.reaped = sup.reaped
       \/ sup.forked /\ child.state = "dead"
    /\ \/ sup'.armed = sup.armed
       \/ sup.enabled /\ child.state = "blocked"
    /\ disk' \in [Run -> Results]
    /\ \A r \in Run : r # sup.run => disk'[r] = disk[r]
    /\ disk'[sup.run].attempted \in {disk[sup.run].attempted, sup'.armed}

(* Such a step needs a look at its place only. *)
LEMMA MoveKeepsInv ==
    ASSUME Inv, Active, SupervisorMoves, Place', Durable'
    PROVE  Inv'
  <1>0. /\ Typed /\ Owned /\ Fits /\ Traced
        /\ sup \in Supervisors /\ sup.run # 0 /\ sup.run \in Run
    BY Zenon DEF Inv, Typed, Supervisors
  <1>1. Typed'
    BY Zenon, <1>0 DEF Typed, SupervisorMoves, KernelSame, Active, At
  <1>2. Owned'
    BY Zenon, <1>0 DEF Owned, SupervisorMoves, KernelSame
  <1>3. Fits'
    BY Zenon, <1>0 DEF Fits, SupervisorMoves, KernelSame, Active, At
  <1>4. Traced'
    <2>1. Loose => child.pid \in Run /\ child.state # "blocked"
      BY Zenon, <1>0 DEF Typed, Children, Fits, Loose
    <2>2. \A r \in Run : r > sup.run => disk'[r].attempted = 0
      BY SMTT(60), <1>0, RunsAreNumbers DEF Traced, SupervisorMoves
    <2>3. ~sup.enabled => disk'[sup.run].attempted = 0 /\ sup'.armed = 0
      BY Zenon, <1>0 DEF Traced, SupervisorMoves
    <2>4. Loose => \/ \A n \in Rec : Recorded(n, child.pid)
                   \/ /\ disk'[child.pid].attempted = 0
                      /\ child.pid = sup.run => sup'.armed = 0
      BY Zenon, <1>0, <2>1 DEF Traced, SupervisorMoves
    <2> QED
      BY Zenon, <1>0, <2>2, <2>3, <2>4
         DEF Traced, SupervisorMoves, KernelSame, Active, At, Loose, Recorded
  <1> QED
    BY Zenon, <1>1, <1>2, <1>3, <1>4 DEF Inv

LEMMA PlainMove ==
    ASSUME Inv, Active, KernelSame, Moved(sup, sup'), sup'.pc # "idle",
           disk' = disk \/ Wrote(sup)
    PROVE  SupervisorMoves
  <1>1. disk \in [Run -> Results]
    BY Zenon DEF Inv, Typed
  <1>2. /\ disk' \in [Run -> Results]
        /\ \A r \in Run : r # sup.run => disk'[r] = disk[r]
        /\ disk'[sup.run].attempted \in {disk[sup.run].attempted, sup.armed}
    BY Zenon, <1>1 DEF Wrote, Rewritten
  <1> QED
    BY Zenon, <1>2 DEF SupervisorMoves, Moved

(* The evidence of a run stays when its result is written again. *)
LEMMA EvidenceStays ==
    ASSUME Evidence, sup.exit = 0, sup.reaped, Moved(sup, sup'),
           Rewritten(sup.run), disk' = disk \/ Wrote(sup)
    PROVE  Evidence' /\ Result'.snapshot = Result.snapshot
  BY ZenonT(60) DEF Evidence, Result, Rewritten, Wrote, Moved

(* A failure wherever the supervisor is. *)
LEMMA FailureKeepsInv ==
    ASSUME Inv, Active, Fails(sup), KernelSame
    PROVE  Inv'
  <1>0. /\ Place /\ Durable
        /\ sup \in Supervisors /\ sup.run # 0 /\ sup.run \in Run
        /\ disk \in [Run -> Results]
    BY Zenon DEF Inv, Typed, Supervisors
  <1>1. /\ Moved(sup, sup') /\ sup'.errors /\ sup'.seen = sup.seen
        /\ sup.pc \in Sealing =>
               \/ sup.i = 1 /\ sup.armed = 2 /\ sup'.pc = "seal_check" /\ sup'.i = 2
               \/ ~(sup.i < sup.armed) /\ sup'.pc = "final" /\ sup'.i = 1
        /\ sup.pc = "final" => sup'.pc = "judge"
        /\ sup.pc \in Clearing => \/ sup.i = 1 /\ sup'.pc = "clear" /\ sup'.i = 2
                                  \/ sup.i = 2 /\ sup'.pc = "complete"
        /\ sup.pc \notin Sealing \cup Clearing \cup {"final"} =>
               sup'.pc = "close"
    BY Zenon, <1>0, FailsFields
  <1>2. disk' = disk \/ Wrote(sup)
    BY Zenon, <1>0, FailsFields
  <1>3. Rewritten(sup.run)
    BY Zenon, <1>0, <1>2 DEF Wrote, Rewritten
  <1>4. sup'.pc \in {"close", "seal_check", "final", "judge", "clear", "complete"}
    BY Zenon, <1>1
  <1>5. sup'.pc \in {"seal_check", "final", "clear"} => sup.reaped
    BY Zenon, <1>0, <1>1 DEF Place, Sealing, Clearing
  <1>6. Place'
    BY Zenon, <1>0, <1>1, <1>4, <1>5 DEF Place, Moved, At,
       Arming, Watching, Sealing, Clearing, Cleaning
  <1>7. Durable'
    <2>1. CASE sup.pc \notin Clearing
      BY Zenon, <1>1, <1>4, <2>1 DEF Durable, Sealing, Clearing, At
    <2>2. CASE sup.pc \in Clearing
      <3>1. Evidence /\ sup.exit = 0 /\ sup.reaped
        BY Zenon, <1>0, <2>2 DEF Durable, Place
      <3>2. Evidence' /\ Result'.snapshot = Result.snapshot
        BY Zenon, <1>1, <1>2, <1>3, <3>1, EvidenceStays
      <3> QED
        BY SMTT(60), <1>0, <1>1, <1>4, <2>2, <3>1, <3>2
           DEF Durable, Clearing, Sealing, At, KernelSame, Moved, Rec
    <2> QED
      BY Zenon, <2>1, <2>2
  <1> QED
    BY Zenon, <1>1, <1>2, <1>4, <1>6, <1>7, PlainMove, MoveKeepsInv

LEMMA EventFields ==
    ASSUME NEW s \in Supervisors, s.run # 0, disk \in [Run -> Results],
           NEW pc \in Pc, NEW i \in {1, 2}, Event(s, pc, i), ~Fails(s)
    PROVE  /\ Moved(s, sup') /\ sup'.errors = s.errors /\ sup'.seen = s.seen
           /\ sup'.pc = pc /\ sup'.i = i
           /\ Wrote(s)
  <1>1. sup' = To(s, pc, i) /\ disk' = Written(s)
    BY Zenon DEF Event, To
  <1>2. Wrote(s)
    BY Zenon, <1>1, WrittenFields
  <1> QED
    BY ZenonT(60), <1>1, <1>2, ToFields

(* What every supervisor step may take for granted. *)
LEMMA Basics ==
    ASSUME Inv, Active
    PROVE  /\ Typed /\ Owned /\ Fits /\ Traced /\ Place /\ Durable
           /\ sup \in Supervisors /\ sup.run # 0 /\ sup.run \in Run
           /\ sup.i \in {1, 2} /\ sup.i \in Rec /\ 1 \in Rec /\ 2 \in Rec
           /\ disk \in [Run -> Results]
  BY Zenon DEF Inv, Typed, Supervisors, Rec

LEMMA PreflightKeepsInv ==
    ASSUME Inv, Preflight
    PROVE  Inv'
  <1>1. Active /\ KernelSame /\ At("preflight")
    BY Zenon DEF Preflight, Active, At, KernelSame, kernelAndWorld, kernelVars, childVars
  <1>2. CASE Fails(sup)
    BY Zenon, <1>1, <1>2, FailureKeepsInv
  <1>3. CASE ~Fails(sup)
    <2>1. /\ off_state(sup.i) /\ disk' = disk
          /\ sup' = IF sup.i = 1 THEN To(sup, "preflight", 2)
                                 ELSE To(sup, "fork", 1)
      BY Zenon, <1>3 DEF Preflight, Checked
    <2>2. rec[sup.i] = Off
      BY Zenon, <1>1, <2>1, Basics DEF Owned, off_state
    <2>3. /\ Moved(sup, sup') /\ sup'.errors = sup.errors
          /\ \/ sup.i = 1 /\ sup'.pc = "preflight" /\ sup'.i = 2
             \/ sup.i = 2 /\ sup'.pc = "fork" /\ sup'.i = 1
      BY SMTT(60), <1>1, <2>1, Basics, ToFields DEF Pc
    <2>4. Place'
      BY Zenon, <1>1, <2>2, <2>3, Basics DEF Place, At, Moved, KernelSame, Rec,
         Arming, Watching, Sealing, Clearing, Cleaning
    <2>5. Durable'
      BY Zenon, <2>3 DEF Durable, At, Watching, Sealing, Clearing
    <2> QED
      BY Zenon, <1>1, <2>1, <2>3, <2>4, <2>5, PlainMove, MoveKeepsInv
  <1> QED
    BY Zenon, <1>2, <1>3

LEMMA ArmedStatusKeepsInv ==
    ASSUME Inv, ArmedStatus
    PROVE  Inv'
  <1>1. Active /\ KernelSame /\ At("armed")
    BY Zenon DEF ArmedStatus, Active, At, KernelSame, kernelAndWorld, kernelVars, childVars
  <1>2. CASE Fails(sup)
    BY Zenon, <1>1, <1>2, FailureKeepsInv
  <1>3. CASE ~Fails(sup)
    <2>1. /\ check_state(sup.i, FALSE)
          /\ \/ sup.i = 1 /\ Event(sup, "attempt", 2)
             \/ sup.i = 2 /\ Event(sup, "release", 1)
      BY ZenonT(60), <1>3 DEF ArmedStatus
    <2>2. /\ Moved(sup, sup') /\ sup'.errors = sup.errors /\ Wrote(sup)
          /\ \/ sup.i = 1 /\ sup'.pc = "attempt" /\ sup'.i = 2
             \/ sup.i = 2 /\ sup'.pc = "release" /\ sup'.i = 1
      BY ZenonT(60), <1>1, <1>3, <2>1, Basics, EventFields DEF Pc
    <2>3. sup.enabled => Recorded(sup.i, sup.run)
      BY Zenon, <2>1 DEF check_state, live_state, Recorded
    <2>4. Place'
      BY <1>1, <2>2, <2>3, Basics DEF Place, At, Moved, KernelSame, Rec, Recorded,
         Arming, Watching, Sealing, Clearing, Cleaning
    <2>5. Durable'
      BY Zenon, <2>2 DEF Durable, At, Watching, Sealing, Clearing
    <2> QED
      BY Zenon, <1>1, <2>2, <2>4, <2>5, PlainMove, MoveKeepsInv
  <1> QED
    BY Zenon, <1>2, <1>3

LEMMA SeenFields ==
    ASSUME Inv, NEW pc \in Pc
    PROVE  /\ Moved(sup, Seen(pc)) /\ Seen(pc).errors = sup.errors
           /\ Seen(pc).pc = pc /\ Seen(pc).i = 2
           /\ Seen(pc).seen = rec[1].context
           /\ Moved(sup, Unseen(pc)) /\ Unseen(pc).errors = sup.errors
           /\ Unseen(pc).pc = pc /\ Unseen(pc).i = 1
  <1> DEFINE s == To(sup, pc, 2)
             t == To(sup, pc, 1)
             zero == 0
  <1>1. /\ sup \in Supervisors /\ rec[1].context \in Nat /\ zero \in Nat
        /\ 1 \in {1, 2} /\ 2 \in {1, 2}
    BY Zenon DEF Inv, Typed, Captures, Capture, Rec
  <1>2. /\ Moved(sup, s) /\ s.errors = sup.errors /\ s.pc = pc /\ s.i = 2
        /\ Moved(sup, t) /\ t.errors = sup.errors /\ t.pc = pc /\ t.i = 1
    BY Zenon, <1>1, ToFields
  <1>3. /\ Seen(pc) = [s EXCEPT !.seen = rec[1].context]
        /\ Unseen(pc) = [t EXCEPT !.seen = zero]
    BY Zenon DEF Seen, Unseen
  <1> HIDE DEF s, t, zero
  <1> QED
    BY <1>1, <1>2, <1>3 DEF Moved, Supervisors

LEMMA WatchKeepsInv ==
    ASSUME Inv, Watch
    PROVE  Inv'
  <1>1. Active /\ KernelSame /\ At("watch")
    BY Zenon DEF Watch, Active, At, KernelSame, kernelAndWorld, kernelVars, childVars
  <1>2. CASE Fails(sup)
    BY Zenon, <1>1, <1>2, FailureKeepsInv
  <1>3. CASE ~Fails(sup)
    <2>1. /\ disk' = disk
          /\ sup' = IF sup.i = 1 THEN Seen("watch") ELSE Unseen("poll")
      BY ZenonT(60), <1>3 DEF Watch, Checked
    <2>2. /\ Moved(sup, sup') /\ sup'.errors = sup.errors
          /\ sup'.pc \in {"watch", "poll"}
      BY <1>1, <2>1, SeenFields, Basics DEF Pc
    <2>3. Place'
      BY Zenon, <1>1, <2>2, Basics DEF Place, At, Moved, KernelSame, Rec,
         Arming, Watching, Sealing, Clearing, Cleaning
    <2>4. Durable'
      BY Zenon, <1>1, <2>2, Basics DEF Durable, At, Watching, Sealing, Clearing, Moved
    <2> QED
      BY Zenon, <1>1, <2>1, <2>2, <2>3, <2>4, PlainMove, MoveKeepsInv
  <1> QED
    BY Zenon, <1>2, <1>3

LEMMA CloseKeepsInv ==
    ASSUME Inv, Close
    PROVE  Inv'
  <1>1. Active /\ KernelSame /\ At("close") /\ disk' = disk
    BY Zenon DEF Close, Active, At, KernelSame, kernelAndWorld, kernelVars, childVars
  <1>2. /\ Moved(sup, sup') /\ sup'.errors = sup.errors
        /\ \/ sup.reaped /\ sup'.pc \in {"seal_check", "final"}
           \/ sup.forked /\ sup'.pc = "term"
           \/ sup'.pc = "judge"
    BY SMTT(60), <1>1, Basics, ToFields DEF Close, AfterWait, Pc
  <1>3. sup.errors
    BY Zenon, <1>1, Basics DEF Place, At, Cleaning
  <1>4. Place'
    BY Zenon, <1>1, <1>2, <1>3, Basics DEF Place, At, Moved, KernelSame, Rec,
       Arming, Watching, Sealing, Clearing, Cleaning
  <1>5. Durable'
    BY Zenon, <1>2, <1>3 DEF Durable, At, Clearing
  <1> QED
    BY Zenon, <1>1, <1>2, <1>4, <1>5, PlainMove, MoveKeepsInv

(* A capture on disk stays there when the result is written again. *)
LEMMA StoredStays ==
    ASSUME Inv, Active, KernelSame, Moved(sup, sup'), sup.reaped,
           disk' = disk \/ Wrote(sup)
    PROVE  /\ Result'.snapshot = Result.snapshot
           /\ \A n \in Rec : Stored(n) => Stored(n)'
           /\ Result.reaped /\ Result.exit = sup.exit =>
                  Result'.reaped /\ Result'.exit = sup.exit
  BY ZenonT(60), Basics DEF Stored, Result, Wrote, Rewritten, Moved, KernelSame

LEMMA SealCheckKeepsInv ==
    ASSUME Inv, SealCheck
    PROVE  Inv'
  <1>1. Active /\ KernelSame /\ At("seal_check")
    BY Zenon DEF SealCheck, Active, At, KernelSame, kernelAndWorld, kernelVars, childVars
  <1>2. CASE Fails(sup)
    BY Zenon, <1>1, <1>2, FailureKeepsInv
  <1>3. CASE ~Fails(sup)
    <2>1. disk' = disk /\ sup' = To(sup, "seal", sup.i)
      BY Zenon, <1>3 DEF SealCheck, Checked
    <2>2. /\ Moved(sup, sup') /\ sup'.errors = sup.errors
          /\ sup'.pc = "seal" /\ sup'.i = sup.i
      BY <1>1, <2>1, Basics, ToFields DEF Pc
    <2>3. Place'
      BY Zenon, <1>1, <2>2, Basics DEF Place, At, Moved, KernelSame, Rec,
         Arming, Watching, Sealing, Clearing, Cleaning
    <2>4. sup.reaped
      BY Zenon, <1>1, Basics DEF Place, At, Sealing
    <2>5. Durable'
      BY ZenonT(60), <1>1, <2>1, <2>2, <2>4, Basics, StoredStays
         DEF Durable, At, Watching, Sealing, Clearing, Moved
    <2> QED
      BY Zenon, <1>1, <2>1, <2>2, <2>3, <2>5, PlainMove, MoveKeepsInv
  <1> QED
    BY Zenon, <1>2, <1>3

LEMMA SnapshotStoredKeepsInv ==
    ASSUME Inv, SnapshotStored
    PROVE  Inv'
  <1>1. Active /\ KernelSame /\ At("stored") /\ Event(sup, "sealed", sup.i)
    BY Zenon DEF SnapshotStored, Active, At, KernelSame, kernelAndWorld, kernelVars,
       childVars
  <1>2. CASE Fails(sup)
    BY Zenon, <1>1, <1>2, FailureKeepsInv
  <1>3. CASE ~Fails(sup)
    <2>1. /\ Moved(sup, sup') /\ sup'.errors = sup.errors
          /\ sup'.pc = "sealed" /\ sup'.i = sup.i /\ Wrote(sup)
      BY Zenon, <1>1, <1>3, Basics, EventFields DEF Pc
    <2>2. Place'
      BY Zenon, <1>1, <2>1, Basics DEF Place, At, Moved, KernelSame, Rec,
         Arming, Watching, Sealing, Clearing, Cleaning
    <2>3. sup.reaped
      BY Zenon, <1>1, Basics DEF Place, At, Sealing
    <2>4. Durable'
      BY ZenonT(60), <1>1, <2>1, <2>3, Basics, StoredStays
         DEF Durable, At, Watching, Sealing, Clearing, Moved, KernelSame
    <2> QED
      BY Zenon, <1>1, <2>1, <2>2, <2>4, PlainMove, MoveKeepsInv
  <1> QED
    BY Zenon, <1>2, <1>3

LEMMA SealedStatusKeepsInv ==
    ASSUME Inv, SealedStatus
    PROVE  Inv'
  <1>1. Active /\ KernelSame /\ At("sealed")
    BY Zenon DEF SealedStatus, Active, At, KernelSame, kernelAndWorld, kernelVars,
       childVars
  <1>2. CASE Fails(sup)
    BY Zenon, <1>1, <1>2, FailureKeepsInv
  <1>3. CASE ~Fails(sup)
    <2>1. sealed_state(sup.i) /\ disk' = disk /\ sup' = Handled(sup)
      BY Zenon, <1>3 DEF SealedStatus, Checked
    <2>2. /\ Moved(sup, sup') /\ sup'.errors = sup.errors
          /\ \/ sup.i = 1 /\ sup.armed = 2 /\ sup'.pc = "seal_check" /\ sup'.i = 2
             \/ ~(sup.i < sup.armed) /\ sup'.pc = "final" /\ sup'.i = 1
      BY ZenonT(60), <1>1, <2>1, Basics, HandledFields DEF Sealing, At
    <2>3. sup.reaped
      BY Zenon, <1>1, Basics DEF Place, At, Sealing
    <2>4. Place'
      BY Zenon, <1>1, <2>2, <2>3, Basics DEF Place, At, Moved, KernelSame, Rec,
         Arming, Watching, Sealing, Clearing, Cleaning
    <2>5. Whole(rec[sup.i], sup.run)
      BY Zenon, <1>1, <2>1, Basics DEF sealed_state, Whole, Owned
    <2>6. ~sup.errors => /\ sup.enabled /\ sup.armed = 2
                         /\ \A n \in Rec : n <= sup.i => Stored(n)
      BY SMTT(60), <1>1, <2>5, Basics DEF Durable, At, Sealing, Stored, Rec
    <2>7. Durable'
      BY <1>1, <2>1, <2>2, <2>3, <2>6, Basics, StoredStays
         DEF Durable, At, Watching, Sealing, Clearing, Moved, Rec
    <2> QED
      BY Zenon, <1>1, <2>1, <2>2, <2>4, <2>7, PlainMove, MoveKeepsInv
  <1> QED
    BY Zenon, <1>2, <1>3

LEMMA FinalKeepsInv ==
    ASSUME Inv, Final
    PROVE  Inv'
  <1>1. Active /\ KernelSame /\ At("final")
    BY ZenonT(60) DEF Final, Active, At, KernelSame, kernelAndWorld, kernelVars, childVars
  <1>2. CASE Fails(sup)
    BY Zenon, <1>1, <1>2, FailureKeepsInv
  <1>3. CASE ~Fails(sup)
    <2>1. sup.reaped
      BY Zenon, <1>1, Basics DEF Place, At
    <2>2. disk' = disk
      BY ZenonT(60), <1>3 DEF Final, Checked
    <2>3. CASE sup.errors
      <3>1. sup' = To(sup, "judge", 1)
        BY Zenon, <1>3, <2>3 DEF Final
      <3>2. Moved(sup, sup') /\ sup'.errors = sup.errors /\ sup'.pc = "judge"
        BY <1>1, <3>1, Basics, ToFields DEF Pc
      <3>3. Place'
        BY Zenon, <1>1, <2>3, <3>2, Basics DEF Place, At, Moved, KernelSame, Rec,
           Arming, Watching, Sealing, Clearing, Cleaning
      <3>4. Durable'
        BY Zenon, <2>3, <3>2 DEF Durable, At, Clearing
      <3> QED
        BY Zenon, <1>1, <2>2, <3>2, <3>3, <3>4, PlainMove, MoveKeepsInv
    <2>4. CASE ~sup.errors
      <3>1. /\ sup' = IF sup.i = 1 THEN Seen("final") ELSE Unseen("judge")
            /\ sup.i = 2 /\ sup.enabled => sup.seen = rec[2].context
        BY ZenonT(60), <1>3, <2>4 DEF Final, Checked
      <3>2. /\ Moved(sup, sup') /\ sup'.errors = sup.errors
            /\ \/ /\ sup.i = 1 /\ sup'.pc = "final" /\ sup'.i = 2
                  /\ sup'.seen = rec[1].context
               \/ sup.i = 2 /\ sup'.pc = "judge"
        BY <1>1, <3>1, Basics, SeenFields DEF Pc
      <3>3. Place'
        BY Zenon, <1>1, <2>1, <3>2, Basics DEF Place, At, Moved, KernelSame, Rec,
           Arming, Watching, Sealing, Clearing, Cleaning
      <3>4. Durable'
        BY ZenonT(60), <1>1, <2>1, <2>2, <2>4, <3>1, <3>2, Basics, StoredStays
           DEF Durable, At, Watching, Sealing, Clearing, Moved, KernelSame
      <3> QED
        BY Zenon, <1>1, <2>2, <3>2, <3>3, <3>4, PlainMove, MoveKeepsInv
    <2> QED
      BY Zenon, <2>3, <2>4
  <1> QED
    BY Zenon, <1>2, <1>3

LEMMA NoteFields ==
    ASSUME NEW s \in Supervisors, s.run # 0, disk \in [Run -> Results], Note(s)
    PROVE  /\ Moved(s, sup') /\ sup'.pc = s.pc /\ sup'.i = s.i
           /\ s.errors => sup'.errors
           /\ disk' = disk \/ Wrote(s)
  <1>1. CASE sup' = s /\ disk' = Written(s)
    BY Zenon, <1>1, WrittenFields DEF Moved
  <1>2. CASE sup' = [s EXCEPT !.errors = TRUE] /\ UNCHANGED disk
    BY ZenonT(60), <1>2 DEF Moved, Supervisors
  <1> QED
    BY Zenon, <1>1, <1>2 DEF Note

LEMMA WithErrorFields ==
    ASSUME NEW s \in Supervisors
    PROVE  LET e == [s EXCEPT !.errors = TRUE]
           IN  e \in Supervisors /\ Moved(s, e) /\ e.errors
               /\ e.pc = s.pc /\ e.i = s.i
  BY ZenonT(60) DEF Supervisors, Moved

LEMMA JudgeKeepsInv ==
    ASSUME Inv, Judge
    PROVE  Inv'
  <1>1. Active /\ KernelSame /\ At("judge")
    BY Zenon DEF Judge, Active, At, KernelSame, kernelAndWorld, kernelVars, childVars
  <1>2. CASE Note(To([sup EXCEPT !.errors = TRUE], "complete", 1))
    <2> DEFINE e == [sup EXCEPT !.errors = TRUE]
               s == To(e, "complete", 1)
    <2>1. e \in Supervisors /\ Moved(sup, e) /\ e.errors
      BY Zenon, <1>1, Basics, WithErrorFields
    <2> HIDE DEF e
    <2>2. s \in Supervisors /\ Moved(e, s) /\ s.errors /\ s.pc = "complete"
      BY <2>1, ToFields DEF Pc, Moved
    <2>3. Note(s)
      BY Zenon, <1>2 DEF e
    <2> HIDE DEF s
    <2>4. s.run # 0 /\ Moved(sup, s)
      BY Zenon, <1>1, <2>1, <2>2, Basics DEF Moved
    <2>5. /\ Moved(sup, sup') /\ sup'.errors /\ sup'.pc = "complete"
          /\ disk' = disk \/ Wrote(sup)
      BY SMTT(60), <1>1, <2>2, <2>3, <2>4, Basics, NoteFields DEF Moved, Wrote
    <2>6. Place'
      BY Zenon, <1>1, <2>5, Basics DEF Place, At, Arming, Watching, Sealing, Clearing,
         Cleaning
    <2>7. Durable'
      BY Zenon, <2>5 DEF Durable, At, Clearing
    <2> QED
      BY Zenon, <1>1, <2>5, <2>6, <2>7, PlainMove, MoveKeepsInv
  <1>3. CASE /\ sup' = To(sup, IF sup.reaped /\ sup.exit = 0 /\ ~sup.errors
                               THEN "clear" ELSE "complete", 1)
             /\ UNCHANGED disk
    <2>1. /\ Moved(sup, sup') /\ sup'.errors = sup.errors /\ sup'.i = 1
          /\ \/ /\ sup.reaped /\ sup.exit = 0 /\ ~sup.errors
                /\ sup'.pc = "clear"
             \/ /\ ~(sup.reaped /\ sup.exit = 0 /\ ~sup.errors)
                /\ sup'.pc = "complete"
      BY SMTT(60), <1>1, <1>3, Basics, ToFields DEF Pc
    <2>2. Place'
      BY Zenon, <1>1, <2>1, Basics DEF Place, At, Moved, Arming, Watching, Sealing,
         Clearing, Cleaning
    <2>3. ~sup.errors => sup.reaped
      BY Zenon, <1>1, Basics DEF Place
    <2>4. sup'.pc = "clear" =>
              /\ Evidence /\ Evidence'
              /\ sup.enabled => \A n \in Rec : rec[n] = Result.snapshot[n]
      <3>1. SUFFICES ASSUME sup'.pc = "clear"
                     PROVE  /\ Evidence /\ Evidence'
                            /\ sup.enabled =>
                                   \A n \in Rec : rec[n] = Result.snapshot[n]
        BY Zenon
      <3>2. /\ Result.reaped /\ Result.exit = 0
            /\ sup.enabled => /\ \A n \in Rec : Stored(n)
                              /\ rec[1].context = rec[2].context
        BY Zenon, <1>1, <2>1, <3>1, Basics DEF Durable, At
      <3>3. Evidence
        BY Zenon, <3>2, <1>1, Basics DEF Evidence, Stored
      <3>4. Evidence'
        BY ZenonT(60), <1>3, <2>1, <3>3 DEF Evidence, Result, Moved
      <3> QED
        BY Zenon, <3>2, <3>3, <3>4 DEF Stored
    <2>5. Durable'
      BY ZenonT(60), <1>1, <1>3, <2>1, <2>3, <2>4
         DEF Durable, At, Watching, Sealing, Clearing, Result, Moved, KernelSame
    <2> QED
      BY Zenon, <1>1, <1>3, <2>1, <2>2, <2>5, PlainMove, MoveKeepsInv
  <1> QED
    BY Zenon, <1>2, <1>3 DEF Judge

LEMMA ClearedKeepsInv ==
    ASSUME Inv, Cleared
    PROVE  Inv'
  <1>1. Active /\ KernelSame /\ At("cleared")
    BY Zenon DEF Cleared, Active, At, KernelSame, kernelAndWorld, kernelVars, childVars
  <1>2. CASE Fails(sup)
    BY Zenon, <1>1, <1>2, FailureKeepsInv
  <1>3. CASE ~Fails(sup)
    <2> DEFINE next == Handled(sup)
    <2>1. Event(sup, next.pc, next.i)
      BY Zenon, <1>3 DEF Cleared
    <2>2. /\ next.pc \in Pc /\ next.i \in {1, 2}
          /\ \/ sup.i = 1 /\ next.pc = "clear" /\ next.i = 2
             \/ sup.i = 2 /\ next.pc = "complete"
      BY Zenon, <1>1, Basics, HandledFields DEF Clearing, At, Moved, Supervisors
    <2> HIDE DEF next
    <2>3. /\ Moved(sup, sup') /\ sup'.errors = sup.errors
          /\ sup'.pc = next.pc /\ sup'.i = next.i /\ Wrote(sup)
      BY Zenon, <1>1, <1>3, <2>1, <2>2, Basics, EventFields
    <2>4. sup.reaped /\ sup.exit = 0 /\ Evidence
      BY ZenonT(60), <1>1, Basics DEF Place, Durable, At, Clearing
    <2>5. Evidence' /\ Result'.snapshot = Result.snapshot
      BY Zenon, <2>3, <2>4, EvidenceStays DEF Wrote
    <2>6. Place'
      BY Zenon, <1>1, <2>2, <2>3, <2>4, Basics DEF Place, At, Moved, Arming, Watching,
         Sealing, Clearing, Cleaning
    <2>7. Durable'
      BY SMTT(60), <1>1, <2>2, <2>3, <2>4, <2>5, Basics
         DEF Durable, At, Watching, Sealing, Clearing, Moved, KernelSame, Rec
    <2> QED
      BY Zenon, <1>1, <2>2, <2>3, <2>6, <2>7, PlainMove, MoveKeepsInv
  <1> QED
    BY Zenon, <1>2, <1>3

(* The finally clause has no claim on disk, and none on the recorders. *)
LEMMA ClosingIsEasy ==
    ASSUME sup'.errors, sup'.pc = "close"
    PROVE  Place' /\ Durable'
  BY Zenon DEF Place, Durable, At, Arming, Watching, Sealing, Clearing, Cleaning

LEMMA ArmAttemptKeepsInv ==
    ASSUME Inv, ArmAttempt
    PROVE  Inv'
  <1>1. Active /\ KernelSame /\ At("attempt")
    BY Zenon DEF ArmAttempt, Active, At, KernelSame, kernelAndWorld, kernelVars, childVars
  <1>2. CASE Fails(sup)
    BY Zenon, <1>1, <1>2, FailureKeepsInv
  <1>3. CASE ~sup.enabled /\ sup' = To(sup, "arm", sup.i) /\ UNCHANGED disk
    <2>1. /\ Moved(sup, sup') /\ sup'.errors = sup.errors
          /\ sup'.pc = "arm" /\ sup'.i = sup.i
      BY SMTT(60), <1>1, <1>3, Basics, ToFields DEF Pc
    <2>2. Place'
      BY Zenon, <1>1, <1>3, <2>1, Basics DEF Place, At, Moved, KernelSame, Rec, Recorded,
         Arming, Watching, Sealing, Clearing, Cleaning
    <2>3. Durable'
      BY Zenon, <2>1 DEF Durable, At, Watching, Sealing, Clearing
    <2> QED
      BY Zenon, <1>1, <1>3, <2>1, <2>2, <2>3, PlainMove, MoveKeepsInv
  <1>4. CASE sup.enabled /\ Event([sup EXCEPT !.armed = sup.i], "arm", sup.i)
    <2> DEFINE s == [sup EXCEPT !.armed = sup.i]
    <2>1. /\ s \in Supervisors /\ s.run = sup.run /\ s.enabled = sup.enabled
          /\ s.forked = sup.forked /\ s.reaped = sup.reaped /\ s.pc = sup.pc
          /\ s.i = sup.i /\ s.armed = sup.i /\ s.errors = sup.errors
      BY <1>1, Basics DEF Supervisors
    <2>2. Event(s, "arm", sup.i)
      BY Zenon, <1>4
    <2> HIDE DEF s
    <2>3. child.state = "blocked" /\ sup.forked
      BY Zenon, <1>1, Basics DEF Place, At, Arming
    <2>4. CASE Fails(s)
      <3>1. /\ Moved(s, sup') /\ sup'.errors /\ sup'.pc = "close"
            /\ disk' = disk \/ Wrote(s)
        BY Zenon, <1>1, <2>1, <2>4, Basics, FailsFields DEF At, Sealing, Clearing
      <3>2. SupervisorMoves
        BY ZenonT(60), <1>1, <1>4, <2>1, <2>3, <3>1, Basics
           DEF SupervisorMoves, Moved, Wrote, Rewritten
      <3> QED
        BY Zenon, <1>1, <3>1, <3>2, ClosingIsEasy, MoveKeepsInv
    <2>5. CASE ~Fails(s)
      <3>1. /\ Moved(s, sup') /\ sup'.errors = s.errors
            /\ sup'.pc = "arm" /\ sup'.i = sup.i /\ Wrote(s)
        BY ZenonT(60), <1>1, <2>1, <2>2, <2>5, Basics, EventFields DEF Pc
      <3>2. SupervisorMoves
        BY ZenonT(60), <1>1, <1>4, <2>1, <2>3, <3>1, Basics
           DEF SupervisorMoves, Moved, Wrote, Rewritten
      <3>3. Place'
        BY Zenon, <1>1, <1>4, <2>1, <2>3, <3>1, Basics DEF Place, At, Moved, KernelSame,
           Recorded, Arming, Watching, Sealing, Clearing, Cleaning
      <3>4. Durable'
        BY Zenon, <3>1 DEF Durable, At, Watching, Sealing, Clearing
      <3> QED
        BY Zenon, <1>1, <3>2, <3>3, <3>4, MoveKeepsInv
    <2> QED
      BY Zenon, <2>4, <2>5
  <1> QED
    BY Zenon, <1>2, <1>3, <1>4 DEF ArmAttempt

LEMMA ReapedFields ==
    ASSUME Inv, Active
    PROVE  LET s == Reaped(sup)
           IN  /\ s \in Supervisors /\ s.run = sup.run /\ s.enabled = sup.enabled
               /\ s.forked = sup.forked /\ s.reaped /\ s.pc = sup.pc
               /\ s.i = sup.i /\ s.armed = sup.armed /\ s.errors = sup.errors
  <1>1. sup \in Supervisors /\ child.exit \in 0..NoExit
    BY Zenon, Basics DEF Typed, Children
  <1> QED
    BY ZenonT(60), <1>1 DEF Supervisors, Reaped

LEMMA PollKeepsInv ==
    ASSUME Inv, Poll
    PROVE  Inv'
  <1>1. Active /\ KernelSame /\ At("poll") /\ sup.forked
    <2>1. Active /\ KernelSame /\ At("poll")
      BY Zenon DEF Poll, Active, At, KernelSame, kernelAndWorld, kernelVars, childVars
    <2> QED
      BY Zenon, <2>1, Basics DEF Place, At, Watching
  <1>2. CASE sup' = To(sup, "watch", 1) /\ UNCHANGED disk
    <2>1. /\ Moved(sup, sup') /\ sup'.errors = sup.errors /\ sup'.pc = "watch"
      BY <1>1, <1>2, Basics, ToFields DEF Pc
    <2>2. Place'
      BY Zenon, <1>1, <2>1, Basics DEF Place, At, Moved, Arming, Watching, Sealing,
         Clearing, Cleaning
    <2>3. Durable'
      BY Zenon, <1>1, <2>1, Basics DEF Durable, At, Moved, Watching, Sealing, Clearing
    <2> QED
      BY Zenon, <1>1, <1>2, <2>1, <2>2, <2>3, PlainMove, MoveKeepsInv
  <1>3. CASE child.state = "dead" /\ Event(Reaped(sup), AfterWait(sup), 1)
    <2> DEFINE s == Reaped(sup)
               pc == AfterWait(sup)
    <2>1. /\ s \in Supervisors /\ s.run = sup.run /\ s.enabled = sup.enabled
          /\ s.forked = sup.forked /\ s.reaped /\ s.pc = sup.pc
          /\ s.i = sup.i /\ s.armed = sup.armed /\ s.errors = sup.errors
      BY ZenonT(60), <1>1, ReapedFields
    <2>2. Event(s, pc, 1)
      BY Zenon, <1>3
    <2>3. /\ pc \in Pc /\ pc \in {"seal_check", "final"}
          /\ pc = "seal_check" <=> sup.armed > 0
      BY Zenon DEF AfterWait, Pc
    <2> HIDE DEF s, pc
    <2>4. CASE Fails(s)
      <3>1. /\ Moved(s, sup') /\ sup'.errors /\ sup'.pc = "close"
            /\ disk' = disk \/ Wrote(s)
        BY Zenon, <1>1, <2>1, <2>4, Basics, FailsFields DEF At, Sealing, Clearing
      <3>2. SupervisorMoves
        BY ZenonT(60), <1>1, <1>3, <2>1, <3>1, Basics
           DEF SupervisorMoves, Moved, Wrote, Rewritten
      <3> QED
        BY Zenon, <1>1, <3>1, <3>2, ClosingIsEasy, MoveKeepsInv
    <2>5. CASE ~Fails(s)
      <3>1. /\ Moved(s, sup') /\ sup'.errors = s.errors
            /\ sup'.pc = pc /\ sup'.i = 1 /\ Wrote(s)
        BY Zenon, <1>1, <2>1, <2>2, <2>3, <2>5, Basics, EventFields
      <3>2. SupervisorMoves
        BY ZenonT(60), <1>1, <1>3, <2>1, <2>3, <3>1, Basics
           DEF SupervisorMoves, Moved, Wrote, Rewritten
      <3>3. Place'
        BY ZenonT(60), <1>1, <2>1, <2>3, <3>1, Basics DEF Place, At, Moved,
           Arming, Watching, Sealing, Clearing, Cleaning
      <3>4. Result'.reaped /\ Result'.exit = sup'.exit
        BY Zenon, <2>1, <3>1 DEF Result, Wrote, Moved
      <3>5. ~sup.errors => sup.armed = IF sup.enabled THEN 2 ELSE 0
        BY Zenon, <1>1, Basics DEF Durable, At, Watching
      <3>6. Durable'
        BY <1>1, <2>1, <2>3, <3>1, <3>4, <3>5, Basics
           DEF Durable, At, Moved, Watching, Sealing, Clearing, Rec
      <3> QED
        BY Zenon, <1>1, <3>2, <3>3, <3>6, MoveKeepsInv
    <2> QED
      BY Zenon, <2>4, <2>5
  <1> QED
    BY Zenon, <1>2, <1>3 DEF Poll

LEMMA AwaitChildKeepsInv ==
    ASSUME Inv, AwaitChild
    PROVE  Inv'
  <1>1. Active /\ KernelSame /\ sup.pc \in {"termwait", "killwait"}
    BY Zenon DEF AwaitChild, Active, At, KernelSame, kernelAndWorld, kernelVars, childVars
  <1>2. sup.errors /\ sup.forked
    BY Zenon, <1>1, Basics DEF Place, Cleaning
  <1>3. SUFFICES /\ SupervisorMoves /\ sup'.errors
                 /\ \/ sup'.reaped /\ sup'.pc \in {"seal_check", "final"}
                    \/ sup'.pc \in {"kill", "judge"}
    <2>1. Place'
      BY Zenon, <1>2, <1>3 DEF SupervisorMoves, Place, At, Arming, Watching, Sealing,
         Clearing, Cleaning
    <2>2. Durable'
      BY Zenon, <1>3 DEF Durable, At, Clearing
    <2> QED
      BY Zenon, <1>1, <1>3, <2>1, <2>2, MoveKeepsInv
  <1>4. CASE child.state = "dead" /\ Note(To(Reaped(sup), AfterWait(sup), 1))
    <2> DEFINE r == Reaped(sup)
               s == To(r, AfterWait(sup), 1)
    <2>1. /\ r \in Supervisors /\ r.run = sup.run /\ r.enabled = sup.enabled
          /\ r.forked = sup.forked /\ r.reaped /\ r.armed = sup.armed
          /\ r.errors = sup.errors
      BY Zenon, <1>1, ReapedFields
    <2>2. AfterWait(sup) \in Pc /\ AfterWait(sup) \in {"seal_check", "final"}
      BY Zenon DEF AfterWait, Pc
    <2>3. Note(s)
      BY Zenon, <1>4
    <2> HIDE DEF r
    <2>4. /\ s \in Supervisors /\ Moved(r, s) /\ s.errors = r.errors
          /\ s.pc \in {"seal_check", "final"}
      BY ZenonT(60), <2>1, <2>2, ToFields DEF Moved
    <2> HIDE DEF s
    <2>5. s.run # 0
      BY Zenon, <1>1, <2>1, <2>4, Basics DEF Moved
    <2>6. /\ Moved(s, sup') /\ sup'.pc = s.pc
          /\ s.errors => sup'.errors
          /\ disk' = disk \/ Wrote(s)
      BY Zenon, <1>1, <2>3, <2>4, <2>5, Basics, NoteFields
    <2> QED
      BY ZenonT(60), <1>1, <1>2, <1>4, <2>1, <2>4, <2>6, Basics
         DEF SupervisorMoves, Moved, Wrote, Rewritten
  <1>5. CASE sup' = To(sup, "kill", 1) /\ UNCHANGED disk
    <2>1. Moved(sup, sup') /\ sup'.errors = sup.errors /\ sup'.pc = "kill"
      BY <1>1, <1>5, Basics, ToFields DEF Pc
    <2> QED
      BY ZenonT(60), <1>1, <1>2, <1>5, <2>1, PlainMove
  <1>6. CASE Note(To([sup EXCEPT !.errors = TRUE], "judge", 1))
    <2> DEFINE e == [sup EXCEPT !.errors = TRUE]
               s == To(e, "judge", 1)
    <2>1. e \in Supervisors /\ Moved(sup, e) /\ e.errors
      BY Zenon, <1>1, Basics, WithErrorFields
    <2> HIDE DEF e
    <2>2. s \in Supervisors /\ Moved(e, s) /\ s.errors /\ s.pc = "judge"
      BY SMTT(60), <2>1, ToFields DEF Pc, Moved
    <2>3. Note(s)
      BY Zenon, <1>6 DEF e
    <2> HIDE DEF s
    <2>4. s.run # 0 /\ Moved(sup, s)
      BY Zenon, <1>1, <2>1, <2>2, Basics DEF Moved
    <2>5. /\ Moved(sup, sup') /\ sup'.errors /\ sup'.pc = "judge"
          /\ disk' = disk \/ Wrote(sup)
      BY SMTT(60), <1>1, <2>2, <2>3, <2>4, Basics, NoteFields DEF Moved, Wrote
    <2> QED
      BY Zenon, <1>1, <2>5, PlainMove
  <1> QED
    BY Zenon, <1>4, <1>5, <1>6 DEF AwaitChild

LEMMA SnapshotKeepsInv ==
    ASSUME Inv, Snapshot
    PROVE  Inv'
  <1>1. Active /\ KernelSame /\ At("snapshot") /\ sup.reaped
    <2>1. Active /\ KernelSame /\ At("snapshot")
      BY Zenon DEF Snapshot, Active, At, KernelSame, kernelAndWorld, kernelVars, childVars
    <2> QED
      BY Zenon, <2>1, Basics DEF Place, At, Sealing
  <1>2. CASE Fails(sup)
    BY Zenon, <1>1, <1>2, FailureKeepsInv
  <1>3. CASE ~Fails(sup)
    <2> DEFINE d == [Result EXCEPT !.snapshot[sup.i] = rec[sup.i]]
    <2>1. /\ rec[sup.i].phase = "sealed"
          /\ disk' = [disk EXCEPT ![sup.run] = d]
          /\ sup' = To(sup, "stored", sup.i)
      BY Zenon, <1>3 DEF Snapshot, Result
    <2>2. /\ Moved(sup, sup') /\ sup'.errors = sup.errors
          /\ sup'.pc = "stored" /\ sup'.i = sup.i
      BY SMTT(60), <1>1, <2>1, Basics, ToFields DEF Pc
    <2>3. Result \in Results /\ rec[sup.i] \in Captures /\ sup.i \in Rec
      BY Zenon, <1>1, Basics DEF Result, Typed
    <2>4. /\ d \in Results /\ d.attempted = Result.attempted
          /\ d.reaped = Result.reaped /\ d.exit = Result.exit
          /\ d.snapshot[sup.i] = rec[sup.i]
          /\ \A n \in Rec : n # sup.i => d.snapshot[n] = Result.snapshot[n]
      BY Zenon, <2>3 DEF Results
    <2> HIDE DEF d
    <2>5. /\ Result' = d /\ disk' \in [Run -> Results]
          /\ \A r \in Run : r # sup.run => disk'[r] = disk[r]
      BY Zenon, <1>1, <2>1, <2>2, <2>4, Basics DEF Result, Moved
    <2>6. SupervisorMoves
      BY ZenonT(60), <1>1, <2>1, <2>2, <2>4, <2>5, Basics DEF SupervisorMoves, Moved, Result
    <2>7. Place'
      BY Zenon, <1>1, <2>2, Basics DEF Place, At, Moved, Arming, Watching, Sealing,
         Clearing, Cleaning
    <2>8. \A n \in Rec : n < sup.i /\ Stored(n) => Stored(n)'
      BY Zenon, <1>1, <2>2, <2>4, <2>5, Basics DEF Stored, Moved, KernelSame, Rec
    <2>9. Durable'
      BY ZenonT(60), <1>1, <2>1, <2>2, <2>4, <2>5, <2>8, Basics
         DEF Durable, At, Moved, KernelSame, Watching, Sealing, Clearing
    <2> QED
      BY Zenon, <1>1, <2>6, <2>7, <2>9, MoveKeepsInv
  <1> QED
    BY Zenon, <1>2, <1>3

LEMMA SignalKeepsInv ==
    ASSUME Inv, Signal
    PROVE  Inv'
  <1> DEFINE killed == IF child.state \in {"blocked", "free"}
                       THEN [child EXCEPT !.state = "dying"] ELSE child
  <1>1. /\ Active /\ sup.pc \in {"term", "kill"}
        /\ UNCHANGED <<rec, opens, last_run, next_context, foreign, disk>>
        /\ child' \in {child, killed}
        /\ \/ sup' = To(sup, "termwait", 1)
           \/ sup' = To(sup, "killwait", 1)
    BY Zenon DEF Signal, Active, At, kernelVars
  <1>2. child \in Children
    BY Zenon, <1>1, Basics DEF Typed
  <1>3. /\ child' \in Children /\ child'.pid = child.pid /\ child'.op = child.op
        /\ \/ child'.state = child.state
           \/ child.state \in {"blocked", "free"} /\ child'.state = "dying"
    BY ZenonT(60), <1>1, <1>2 DEF Children
  <1> HIDE DEF killed
  <1>4. sup.errors /\ sup.forked
    BY Zenon, <1>1, Basics DEF Place, Cleaning
  <1>5. /\ Moved(sup, sup') /\ sup'.errors
        /\ sup'.pc \in {"termwait", "killwait"}
    BY <1>1, <1>4, Basics, ToFields DEF Pc
  <1>6. Typed'
    BY Zenon, <1>1, <1>3, <1>5, Basics DEF Typed, Moved, Active, At
  <1>7. Owned'
    BY Zenon, <1>1, Basics DEF Owned
  <1>8. Fits'
    BY Zenon, <1>1, <1>3, <1>5, Basics DEF Fits, Moved, Active, At
  <1>9. Traced'
    BY ZenonT(60), <1>1, <1>3, <1>5, Basics DEF Traced, Moved, Active, At, Loose, Recorded
  <1>10. Place'
    BY Zenon, <1>4, <1>5 DEF Place, Moved, At, Arming, Watching, Sealing, Clearing, Cleaning
  <1>11. Durable'
    BY Zenon, <1>5 DEF Durable, At, Clearing
  <1> QED
    BY Zenon, <1>6, <1>7, <1>8, <1>9, <1>10, <1>11 DEF Inv

LEMMA ForkKeepsInv ==
    ASSUME Inv, Fork
    PROVE  Inv'
  <1>1. /\ Active /\ At("fork")
        /\ UNCHANGED <<rec, opens, last_run, next_context, foreign>>
    BY Zenon DEF Fork, Active, At, kernelVars
  <1>2. CASE Fails(sup) /\ UNCHANGED child
    BY Zenon, <1>1, <1>2, FailureKeepsInv DEF KernelSame
  <1>3. CASE /\ child' = [NoChild EXCEPT !.state = "blocked", !.pid = sup.run]
             /\ Event([sup EXCEPT !.forked = TRUE], "attempt", 1)
    <2> DEFINE s == [sup EXCEPT !.forked = TRUE]
    <2>1. /\ s \in Supervisors /\ s.run = sup.run /\ s.enabled = sup.enabled
          /\ s.forked /\ s.reaped = sup.reaped /\ s.armed = sup.armed
          /\ s.errors = sup.errors /\ s.pc = sup.pc
      BY ZenonT(60), <1>1, Basics DEF Supervisors
    <2>2. Event(s, "attempt", 1)
      BY Zenon, <1>3
    <2> HIDE DEF s
    <2>3. /\ Moved(s, sup')
          /\ disk' = disk \/ Wrote(s)
          /\ \/ sup'.errors /\ sup'.pc = "close"
             \/ sup'.pc = "attempt" /\ sup'.i = 1
      <3>1. CASE Fails(s)
        BY Zenon, <1>1, <2>1, <3>1, Basics, FailsFields DEF At, Sealing, Clearing
      <3>2. CASE ~Fails(s)
        BY Zenon, <1>1, <2>1, <2>2, <3>2, Basics, EventFields DEF Pc
      <3> QED
        BY Zenon, <3>1, <3>2
    <2>4. /\ ~sup.forked /\ sup.armed = 0 /\ ~sup.reaped
          /\ \A n \in Rec : rec[n] = Off
      BY Zenon, <1>1, Basics DEF Place, Fits, At
    <2>5. /\ child' \in Children /\ child'.pid = sup.run
          /\ child'.state = "blocked" /\ child'.op = "closed"
      <3>1. child' = [state |-> "blocked", pid |-> sup.run, exit |-> NoExit,
                      context |-> 0, op |-> "closed", half |-> 1]
        BY ZenonT(60), <1>3 DEF NoChild
      <3> QED
        BY <1>1, <3>1, Basics DEF Children, NoExit
    <2>6. /\ disk' \in [Run -> Results]
          /\ \A r \in Run : r # sup.run => disk'[r] = disk[r]
          /\ disk'[sup.run].attempted \in {disk[sup.run].attempted, 0}
      BY ZenonT(60), <1>1, <2>1, <2>3, <2>4, Basics DEF Wrote, Rewritten
    <2>7. Typed'
      BY Zenon, <1>1, <2>1, <2>3, <2>5, <2>6, Basics DEF Typed, Moved, Active, At
    <2>8. Owned'
      BY Zenon, <1>1, Basics DEF Owned
    <2>9. Fits'
      <3>1. sup.run \in Nat
        BY Zenon, <1>1, Basics, RunsAreNumbers
      <3> QED
        BY SMTT(60), <1>1, <2>1, <2>3, <2>4, <2>5, <3>1, Basics
           DEF Fits, Moved, Active, At
    <2>10. Traced'
      BY SMTT(60), <1>1, <2>1, <2>3, <2>4, <2>5, <2>6, Basics, RunsAreNumbers
         DEF Traced, Moved, Active, At, Loose
    <2>11. Place'
      BY <2>1, <2>3, <2>4, <2>5 DEF Place, Moved, At, Rec, Arming, Watching,
         Sealing, Clearing, Cleaning
    <2>12. Durable'
      BY Zenon, <2>3 DEF Durable, At, Watching, Sealing, Clearing
    <2> QED
      BY Zenon, <2>7, <2>8, <2>9, <2>10, <2>11, <2>12 DEF Inv
  <1> QED
    BY Zenon, <1>2, <1>3 DEF Fork

LEMMA ReleaseKeepsInv ==
    ASSUME Inv, Release
    PROVE  Inv'
  <1>1. /\ Active /\ At("release")
        /\ UNCHANGED <<rec, opens, last_run, next_context, foreign>>
    BY Zenon DEF Release, Active, At, kernelVars
  <1>2. CASE Fails(sup) /\ UNCHANGED child
    BY Zenon, <1>1, <1>2, FailureKeepsInv DEF KernelSame
  <1>3. CASE /\ child' = [child EXCEPT !.state = "free"]
             /\ Event(sup, "poll", 1)
    <2>1. /\ Moved(sup, sup')
          /\ disk' = disk \/ Wrote(sup)
          /\ \/ sup'.errors /\ sup'.pc = "close"
             \/ sup'.pc = "poll" /\ sup'.errors = sup.errors
      <3>1. CASE Fails(sup)
        BY Zenon, <1>1, <3>1, Basics, FailsFields DEF At, Sealing, Clearing
      <3>2. CASE ~Fails(sup)
        BY Zenon, <1>1, <1>3, <3>2, Basics, EventFields DEF Pc
      <3> QED
        BY Zenon, <3>1, <3>2
    <2>2. /\ sup.forked /\ child.state = "blocked" /\ child.pid = sup.run
          /\ ~sup.reaped
      BY Zenon, <1>1, Basics DEF Place, Fits, At, Arming
    <2>3. /\ child' \in Children /\ child'.pid = sup.run
          /\ child'.state = "free" /\ child'.op = child.op
      BY Zenon, <1>1, <1>3, <2>2, Basics DEF Typed, Children
    <2>4. /\ disk' \in [Run -> Results]
          /\ \A r \in Run : r # sup.run => disk'[r] = disk[r]
          /\ disk'[sup.run].attempted \in {disk[sup.run].attempted, sup.armed}
      BY Zenon, <1>1, <2>1, Basics DEF Wrote, Rewritten
    <2>5. IF sup.enabled THEN sup.armed = 2 /\ \A n \in Rec : Recorded(n, sup.run)
          ELSE sup.armed = 0 /\ disk'[sup.run].attempted = 0
      BY ZenonT(60), <1>1, <2>4, Basics DEF Place, Traced
    <2>6. Typed'
      BY Zenon, <1>1, <2>1, <2>3, <2>4, Basics DEF Typed, Moved, Active, At
    <2>7. Owned'
      BY Zenon, <1>1, Basics DEF Owned
    <2>8. Fits'
      BY Zenon, <1>1, <2>1, <2>2, <2>3, Basics DEF Fits, Moved, Active, At
    <2>9. Traced'
      <3>1. \A r \in Run : r > sup.run => disk'[r].attempted = 0
        <4>1. \A r \in Run : r > sup.run => r # sup.run
          BY SMTT(60), <1>1, Basics, RunsAreNumbers
        <4> QED
          BY Zenon, <1>1, <2>4, <4>1, Basics DEF Traced
      <3>2. (\A n \in Rec : Recorded(n, sup.run)) =>
                \A n \in Rec : Recorded(n, child.pid)'
        BY Zenon, <1>1, <2>2, <2>3 DEF Recorded
      <3> QED
        BY ZenonT(60), <1>1, <2>1, <2>2, <2>3, <2>5, <3>1, <3>2, Basics
           DEF Traced, Moved, Active, At
    <2>10. Place'
      BY Zenon, <2>1, <2>2 DEF Place, Moved, At, Arming, Watching, Sealing, Clearing,
         Cleaning
    <2>11. Durable'
      BY Zenon, <2>1, <2>5 DEF Durable, Moved, At, Watching, Sealing, Clearing
    <2> QED
      BY Zenon, <2>6, <2>7, <2>8, <2>9, <2>10, <2>11 DEF Inv
  <1> QED
    BY Zenon, <1>2, <1>3 DEF Release

-----------------------------------------------------------------------------
(* A control write: capture n becomes c while no child can use the device. *)
LEMMA WriteKeepsInv ==
    ASSUME Inv, Active, NEW n \in Rec, NEW c \in Captures,
           rec' = [rec EXCEPT ![n] = c],
           c.errors \in {{}, Error},
           c.phase = "off" => c = Off,
           c.phase # "off" => c.run # 0 /\ c.pid = c.run,
           ~sup.enabled => c = Off,
           ~Loose, sup.forked,
           last_run' \in [Rec -> Run \cup {0}],
           UNCHANGED <<opens, child, next_context, foreign>>,
           Moved(sup, sup'), sup'.pc # "idle",
           disk' = disk \/ Wrote(sup),
           Place', Durable'
    PROVE  Inv'
  <1>1. rec' \in [Rec -> Captures]
    BY Zenon, Basics DEF Typed
  <1>2. /\ rec'[n] = c
        /\ \A m \in Rec : m # n => rec'[m] = rec[m]
    BY Zenon, Basics DEF Typed
  <1>3. /\ disk' \in [Run -> Results]
        /\ \A r \in Run : r # sup.run => disk'[r] = disk[r]
        /\ disk'[sup.run].attempted \in {disk[sup.run].attempted, sup.armed}
    BY Zenon, Basics DEF Wrote, Rewritten
  <1>4. Typed'
    BY Zenon, <1>1, <1>3, Basics DEF Typed, Moved, Active, At
  <1>5. Owned'
    BY SMTT(60), <1>2, Basics DEF Owned
  <1>6. Fits'
    BY Zenon, Basics DEF Fits, Moved, Active, At
  <1>7. Traced'
    <2>1. \A r \in Run : r > sup.run => r # sup.run
      BY Basics, RunsAreNumbers
    <2> QED
      BY <1>2, <1>3, <2>1, Basics DEF Traced, Moved, Active, At, Loose
  <1> QED
    BY Zenon, <1>4, <1>5, <1>6, <1>7 DEF Inv

LEMMA ControlArmKeepsInv ==
    ASSUME Inv, ControlArm
    PROVE  Inv'
  <1> DEFINE text == IF sup.enabled THEN "arm" ELSE "off"
             c == Applied(sup.i, text)
             ok == sup' = To(sup, "armed", sup.i) /\ UNCHANGED disk
  <1>1. /\ Active /\ At("arm") /\ control(sup.i, text, ok)
        /\ UNCHANGED <<opens, child, next_context, foreign>>
    BY Zenon DEF ControlArm, Active, At, childVars
  <1>2. CASE UNCHANGED <<rec, last_run>> /\ Fails(sup)
    BY Zenon, <1>1, <1>2, FailureKeepsInv DEF KernelSame
  <1>3. CASE /\ Accepts(sup.i, text)
             /\ rec' = [rec EXCEPT ![sup.i] = c]
             /\ last_run' = IF text = "arm"
                            THEN [last_run EXCEPT ![sup.i] = sup.run]
                            ELSE last_run
             /\ ok \/ Fails(sup)
    <2>1. /\ Moved(sup, sup')
          /\ disk' = disk \/ Wrote(sup)
          /\ \/ sup'.errors /\ sup'.pc = "close"
             \/ sup'.pc = "armed" /\ sup'.i = sup.i
      <3>1. CASE Fails(sup)
        BY ZenonT(60), <1>1, <3>1, Basics, FailsFields DEF At, Sealing, Clearing
      <3>2. CASE ok
        BY <1>1, <3>2, Basics, ToFields DEF Pc
      <3> QED
        BY ZenonT(60), <1>3, <3>1, <3>2
    <2>2. /\ sup.forked /\ child.state = "blocked" /\ child.pid = sup.run
          /\ ~Loose
      BY Zenon, <1>1, Basics DEF Place, Fits, At, Arming, Loose
    <2>3. /\ c \in Captures /\ c.errors \in {{}, Error}
          /\ c.phase = "off" => c = Off
          /\ c.phase # "off" => c.run # 0 /\ c.pid = c.run
          /\ ~sup.enabled => c = Off
      <3>1. CASE ~sup.enabled
        <4>1. c = Off
          BY Zenon, <3>1 DEF Applied
        <4> QED
          BY <4>1 DEF Off, Captures, Capture, Phase
      <3>2. CASE sup.enabled
        <4>1. c = [run |-> sup.run, pid |-> child.pid, context |-> 0,
                   phase |-> "armed", errors |-> {}, pictures |-> 0,
                   completions |-> 0, pending |-> 0]
          BY ZenonT(60), <3>2 DEF Applied, Armed, Off
        <4> QED
          BY <1>1, <2>2, <3>2, <4>1, Basics DEF Captures, Capture, Phase
      <3> QED
        BY Zenon, <3>1, <3>2
    <2>4. last_run' \in [Rec -> Run \cup {0}]
      BY Zenon, <1>1, <1>3, Basics DEF Typed
    <2> HIDE DEF c, text, ok
    <2>5. \A n \in Rec : n # sup.i => rec'[n] = rec[n]
      BY Zenon, <1>1, <1>3, Basics DEF Typed
    <2>6. Place'
      BY <1>1, <2>1, <2>2, <2>5, Basics DEF Place, Moved, At, Rec, Recorded,
         Arming, Watching, Sealing, Clearing, Cleaning
    <2>7. Durable'
      BY ZenonT(60), <2>1 DEF Durable, At, Watching, Sealing, Clearing
    <2>8. sup'.pc # "idle" /\ sup.i \in Rec
      BY Zenon, <1>1, <2>1, Basics
    <2> QED
      BY ZenonT(60), <1>1, <1>3, <2>1, <2>2, <2>3, <2>4, <2>6, <2>7, <2>8, WriteKeepsInv
  <1> QED
    BY Zenon, <1>1, <1>2, <1>3 DEF control

LEMMA SealFields ==
    ASSUME NEW b \in Captures
    PROVE  LET c == Any(atr_seal(b))
           IN  /\ c \in Captures /\ c.errors \in {{}, Error}
               /\ c.phase = "sealed" /\ c.run = b.run /\ c.pid = b.pid
  <1> DEFINE s == atr_seal(b)
             e == b.errors \cup If(b.phase = "armed", "extent")
  <1>1. e \in SUBSET Error
    BY Zenon DEF Captures, Capture, If, Error
  <1>2. s = [b EXCEPT !.phase = "sealed", !.errors = e]
    BY Zenon DEF atr_seal
  <1> HIDE DEF e
  <1>3. s \in Captures /\ s.phase = "sealed" /\ s.run = b.run /\ s.pid = b.pid
    BY ZenonT(60), <1>1, <1>2 DEF Captures, Capture, Phase
  <1> HIDE DEF s
  <1>4. LET c == Any(s)
        IN  /\ c \in Captures /\ c.errors \in {{}, Error}
            /\ c.phase = "sealed" /\ c.run = b.run /\ c.pid = b.pid
    BY Zenon, <1>3, AnyFields
  <1> QED
    BY Zenon, <1>4 DEF s

LEMMA ControlSealKeepsInv ==
    ASSUME Inv, ControlSeal
    PROVE  Inv'
  <1> DEFINE c == Applied(sup.i, "seal")
             ok == Event(sup, "snapshot", sup.i)
  <1>1. /\ Active /\ At("seal") /\ control(sup.i, "seal", ok)
        /\ UNCHANGED <<opens, child, next_context, foreign>>
    BY Zenon DEF ControlSeal, Active, At, childVars
  <1>2. CASE UNCHANGED <<rec, last_run>> /\ Fails(sup)
    BY Zenon, <1>1, <1>2, FailureKeepsInv DEF KernelSame
  <1>3. CASE /\ Accepts(sup.i, "seal")
             /\ rec' = [rec EXCEPT ![sup.i] = c]
             /\ last_run' = last_run
             /\ ok \/ Fails(sup)
    <2>1. /\ Moved(sup, sup')
          /\ disk' = disk \/ Wrote(sup)
          /\ \/ sup'.errors /\ sup'.pc \in {"seal_check", "final"}
             \/ /\ sup'.pc = "snapshot" /\ sup'.i = sup.i
                /\ sup'.errors = sup.errors
      <3>1. CASE Fails(sup)
        BY ZenonT(60), <1>1, <3>1, Basics, FailsFields DEF At, Sealing
      <3>2. CASE ~Fails(sup)
        BY ZenonT(60), <1>1, <1>3, <3>2, Basics, EventFields DEF Pc
      <3> QED
        BY Zenon, <3>1, <3>2
    <2>2. sup.reaped /\ sup.forked /\ ~Loose
      BY Zenon, <1>1, Basics DEF Place, Fits, At, Sealing, Loose
    <2>3. /\ rec[sup.i] \in Captures /\ CanSeal(rec[sup.i])
          /\ rec[sup.i].run = sup.run
      BY Zenon, <1>1, <1>3, Basics DEF Typed, Accepts
    <2>4. rec[sup.i].phase # "off" /\ sup.enabled
      BY SMTT(60), <1>1, <2>2, <2>3, Basics DEF CanSeal, Traced, Off
    <2>5. /\ c \in Captures /\ c.errors \in {{}, Error} /\ c.phase = "sealed"
          /\ c.run # 0 /\ c.pid = c.run
      <3>1. c = Any(atr_seal(rec[sup.i]))
        BY Zenon DEF Applied
      <3>2. rec[sup.i].pid = rec[sup.i].run
        BY Zenon, <1>1, <2>4, Basics DEF Owned
      <3> QED
        BY ZenonT(60), <1>1, <2>3, <3>1, <3>2, Basics, SealFields
    <2> HIDE DEF c, ok
    <2>6. \A n \in Rec : n # sup.i => rec'[n] = rec[n]
      BY Zenon, <1>1, <1>3, Basics DEF Typed
    <2>7. Place'
      BY ZenonT(60), <1>1, <2>1, <2>2, Basics DEF Place, Moved, At,
         Arming, Watching, Sealing, Clearing, Cleaning
    <2>8. Result'.snapshot = Result.snapshot
      BY Zenon, <2>1 DEF Result, Wrote, Rewritten, Moved
    <2>9. Result.reaped /\ Result.exit = sup.exit =>
              Result'.reaped /\ Result'.exit = sup.exit
      BY ZenonT(60), <2>1, <2>2 DEF Result, Wrote, Moved
    <2>10. \A n \in Rec : n < sup.i /\ Stored(n) => Stored(n)'
      BY <1>1, <2>1, <2>6, <2>8, Basics DEF Stored, Moved, Rec
    <2>11. Durable'
      BY ZenonT(60), <1>1, <2>1, <2>9, <2>10, Basics
         DEF Durable, Moved, At, Watching, Sealing, Clearing
    <2>12. sup'.pc # "idle" /\ sup.i \in Rec /\ last_run' \in [Rec -> Run \cup {0}]
      BY ZenonT(60), <1>1, <1>3, <2>1, Basics DEF Typed
    <2> QED
      BY ZenonT(60), <1>1, <1>3, <2>1, <2>2, <2>4, <2>5, <2>7, <2>11, <2>12, WriteKeepsInv
  <1> QED
    BY Zenon, <1>1, <1>2, <1>3 DEF control

LEMMA ControlOffKeepsInv ==
    ASSUME Inv, ControlOff
    PROVE  Inv'
  <1> DEFINE ok == sup' = To(sup, "cleared", sup.i) /\ UNCHANGED disk
  <1>1. /\ Active /\ At("clear") /\ control(sup.i, "off", ok)
        /\ UNCHANGED <<opens, child, next_context, foreign>>
    BY Zenon DEF ControlOff, Active, At, childVars
  <1>2. CASE UNCHANGED <<rec, last_run>> /\ Fails(sup)
    BY Zenon, <1>1, <1>2, FailureKeepsInv DEF KernelSame
  <1>3. CASE /\ rec' = [rec EXCEPT ![sup.i] = Off]
             /\ last_run' = last_run
             /\ ok \/ Fails(sup)
    <2>1. /\ Moved(sup, sup')
          /\ disk' = disk \/ Wrote(sup)
          /\ \/ sup.i = 1 /\ sup'.pc = "clear" /\ sup'.i = 2
             \/ sup'.pc = "complete" /\ sup'.errors
             \/ sup'.pc = "cleared" /\ sup'.i = sup.i
      <3>1. CASE Fails(sup)
        BY Zenon, <1>1, <3>1, Basics, FailsFields DEF At, Clearing
      <3>2. CASE ok
        BY SMTT(60), <1>1, <3>2, Basics, ToFields DEF Pc
      <3> QED
        BY Zenon, <1>3, <3>1, <3>2
    <2>2. sup.reaped /\ sup.forked /\ ~Loose
      BY Zenon, <1>1, Basics DEF Place, Fits, At, Clearing, Loose
    <2>3. Off \in Captures /\ Off.errors = {} /\ Off.phase = "off"
      BY Zenon DEF Off, Captures, Capture, Phase
    <2>4. \A n \in Rec : n # sup.i => rec'[n] = rec[n]
      BY Zenon, <1>1, <1>3, Basics DEF Typed
    <2>5. Evidence /\ sup.exit = 0
      BY ZenonT(60), <1>1, Basics DEF Durable, At, Clearing
    <2>6. Rewritten(sup.run)
      BY Zenon, <1>1, <2>1, Basics DEF Wrote, Rewritten
    <2>7. Evidence' /\ Result'.snapshot = Result.snapshot
      BY Zenon, <2>1, <2>2, <2>5, <2>6, EvidenceStays
    <2>8. Place'
      BY ZenonT(60), <1>1, <2>1, <2>2, Basics DEF Place, Moved, At,
         Arming, Watching, Sealing, Clearing, Cleaning
    <2>9. Durable'
      BY <1>1, <2>1, <2>4, <2>5, <2>7, Basics
         DEF Durable, Moved, At, Rec, Watching, Sealing, Clearing
    <2>10. sup'.pc # "idle" /\ sup.i \in Rec /\ last_run' \in [Rec -> Run \cup {0}]
      BY Zenon, <1>1, <1>3, <2>1, Basics DEF Typed
    <2> HIDE DEF ok
    <2> QED
      BY ZenonT(60), <1>1, <1>3, <2>1, <2>2, <2>3, <2>8, <2>9, <2>10, WriteKeepsInv
  <1> QED
    BY Zenon, <1>1, <1>2, <1>3 DEF control, Applied

-----------------------------------------------------------------------------
LEMMA IdleFields ==
    /\ Idle \in Supervisors /\ Idle.pc = "idle" /\ ~Idle.forked
    /\ ~Idle.reaped /\ Idle.armed = 0 /\ Idle.run = 0 /\ Idle.exit = NoExit
  BY DEF Idle, Supervisors, Pc, NoExit

LEMMA BeginKeepsInv ==
    ASSUME Inv, NEW enabled \in BOOLEAN, Begin(enabled)
    PROVE  Inv'
  <1> DEFINE run == sup.run + 1
             s == [Idle EXCEPT !.run = run, !.enabled = enabled,
                               !.pc = "preflight"]
  <1>0. /\ Typed /\ Owned /\ Fits /\ Traced
        /\ sup \in Supervisors /\ disk \in [Run -> Results]
    BY Zenon DEF Inv, Typed
  <1>1. /\ At("idle") /\ sup.run < MaxRun /\ Event(s, "preflight", 1)
        /\ UNCHANGED <<rec, opens, last_run, child, next_context, foreign>>
    BY Zenon DEF Begin, kernelVars, childVars
  <1>2. /\ sup.run \in Nat /\ run \in Run /\ run \in Nat /\ sup.run < run
        /\ run # 0
    BY <1>0, <1>1, SuperviseAssumption DEF Supervisors, Run
  <1> HIDE DEF run
  <1>3. /\ s \in Supervisors /\ s.run = run /\ s.enabled = enabled
        /\ ~s.forked /\ ~s.reaped /\ s.armed = 0 /\ s.pc = "preflight"
    <2> DEFINE a == [Idle EXCEPT !.run = run]
               b == [a EXCEPT !.enabled = enabled]
    <2>1. /\ a \in Supervisors /\ a.run = run /\ ~a.forked /\ ~a.reaped
          /\ a.armed = 0
      BY Zenon, <1>2, IdleFields DEF Supervisors
    <2>2. s = [b EXCEPT !.pc = "preflight"]
      BY Zenon
    <2> HIDE DEF a
    <2>3. /\ b \in Supervisors /\ b.run = run /\ b.enabled = enabled
          /\ ~b.forked /\ ~b.reaped /\ b.armed = 0
      BY ZenonT(60), <2>1 DEF Supervisors
    <2> HIDE DEF b, s
    <2> QED
      BY <2>2, <2>3 DEF Supervisors, Pc
  <1> HIDE DEF s
  <1>4. /\ Moved(s, sup')
        /\ disk' = disk \/ Wrote(s)
        /\ \/ sup'.errors /\ sup'.pc = "close"
           \/ sup'.pc = "preflight" /\ sup'.i = 1
    <2>1. CASE Fails(s)
      BY Zenon, <1>0, <1>2, <1>3, <2>1, FailsFields DEF Sealing, Clearing
    <2>2. CASE ~Fails(s)
      BY ZenonT(60), <1>0, <1>1, <1>2, <1>3, <2>2, EventFields DEF Pc
    <2> QED
      BY Zenon, <2>1, <2>2
  <1>5. /\ disk' \in [Run -> Results]
        /\ \A r \in Run : r # run => disk'[r] = disk[r]
        /\ disk'[run].attempted \in {disk[run].attempted, 0}
    BY Zenon, <1>0, <1>3, <1>4 DEF Wrote, Rewritten
  <1>6. Typed'
    BY Zenon, <1>0, <1>1, <1>2, <1>3, <1>4, <1>5 DEF Typed, Moved, Active, At
  <1>7. Owned'
    BY Zenon, <1>0, <1>1 DEF Owned
  <1>8. child.pid \in Nat /\ child.pid <= sup.run /\ child.pid < run
    <2>1. child.pid \in Nat
      BY SMTT(60), <1>0, RunsAreNumbers DEF Typed, Children
    <2> QED
      BY SMTT(60), <1>0, <1>2, <2>1 DEF Fits
  <1>9. Fits'
    BY SMTT(60), <1>0, <1>1, <1>2, <1>3, <1>4, <1>8 DEF Fits, Moved, Active, At
  <1>10. Traced'
    <2>1. \A r \in Run : r > run => r # run /\ r > sup.run
      BY SMTT(60), <1>2, RunsAreNumbers
    <2>2. \A r \in Run : r > run => disk'[r].attempted = 0
      BY ZenonT(60), <1>0, <1>5, <2>1 DEF Traced
    <2>3. disk'[run].attempted = 0
      BY Zenon, <1>0, <1>2, <1>5 DEF Traced
    <2>4. Loose => child.pid \in Run /\ child.pid # run
      BY SMTT(60), <1>0, <1>2, <1>8 DEF Typed, Children, Fits, Loose
    <2>5. Loose => \/ \A n \in Rec : Recorded(n, child.pid)
                   \/ disk'[child.pid].attempted = 0
      BY Zenon, <1>0, <1>5, <2>4 DEF Traced
    <2> QED
      BY ZenonT(60), <1>1, <1>3, <1>4, <2>2, <2>3, <2>4, <2>5
         DEF Traced, Moved, Active, At, Loose, Recorded
  <1>11. Place'
    BY SMTT(60), <1>3, <1>4 DEF Place, Moved, At, Arming, Watching, Sealing, Clearing,
       Cleaning
  <1>12. Durable'
    BY Zenon, <1>4 DEF Durable, At, Watching, Sealing, Clearing
  <1> QED
    BY Zenon, <1>6, <1>7, <1>9, <1>10, <1>11, <1>12 DEF Inv

LEMMA EndedFields ==
    ASSUME NEW s \in Supervisors
    PROVE  LET t == Ended(s)
           IN  /\ t \in Supervisors /\ t.pc = "idle" /\ t.run = s.run
               /\ t.enabled = s.enabled /\ t.errors = s.errors
               /\ t.exit = s.exit
  <1> DEFINE a == [Idle EXCEPT !.run = s.run]
             b == [a EXCEPT !.enabled = s.enabled]
             c == [b EXCEPT !.errors = s.errors]
  <1>1. a \in Supervisors /\ a.run = s.run /\ a.pc = "idle"
    BY Zenon, IdleFields DEF Supervisors
  <1>2. Ended(s) = [c EXCEPT !.exit = s.exit]
    BY Zenon DEF Ended
  <1> HIDE DEF a
  <1>3. /\ b \in Supervisors /\ b.run = s.run /\ b.pc = "idle"
        /\ b.enabled = s.enabled
    BY Zenon, <1>1 DEF Supervisors
  <1> HIDE DEF b
  <1>4. /\ c \in Supervisors /\ c.run = s.run /\ c.pc = "idle"
        /\ c.enabled = s.enabled /\ c.errors = s.errors
    BY Zenon, <1>3 DEF Supervisors
  <1> HIDE DEF c
  <1> QED
    BY Zenon, <1>2, <1>4 DEF Supervisors

(* The end of supervise(), or of the supervisor. *)
LEMMA EndKeepsInv ==
    ASSUME Inv, Complete \/ SupervisorDies
    PROVE  Inv'
  <1>1. Active /\ KernelSame
    BY Zenon DEF Complete, SupervisorDies, Active, At, KernelSame, kernelAndWorld,
       kernelVars, childVars
  <1>2. /\ sup' \in Supervisors /\ sup'.pc = "idle" /\ sup'.run = sup.run
        /\ sup'.enabled = sup.enabled /\ sup'.exit = sup.exit
        /\ \/ sup'.errors /\ disk' = disk
           \/ /\ At("complete") /\ sup'.errors = sup.errors
              /\ Wrote(sup)
    <2> DEFINE e == [sup EXCEPT !.errors = TRUE]
    <2>1. e \in Supervisors /\ Moved(sup, e) /\ e.errors
      BY Zenon, <1>1, Basics, WithErrorFields
    <2>2. \/ sup' = Ended(e) /\ disk' = disk
          \/ At("complete") /\ sup' = Ended(sup) /\ disk' = Written(sup)
      BY Zenon DEF Complete, SupervisorDies
    <2> HIDE DEF e
    <2>3. CASE sup' = Ended(e) /\ disk' = disk
      BY Zenon, <2>1, <2>3, EndedFields DEF Moved
    <2>4. CASE At("complete") /\ sup' = Ended(sup) /\ disk' = Written(sup)
      BY Zenon, <1>1, <2>4, Basics, EndedFields, WrittenFields
    <2> QED
      BY Zenon, <2>2, <2>3, <2>4
  <1>3. /\ disk' \in [Run -> Results]
        /\ \A r \in Run : r # sup.run => disk'[r] = disk[r]
        /\ disk'[sup.run].attempted \in {disk[sup.run].attempted, sup.armed}
    BY Zenon, <1>1, <1>2, Basics DEF Wrote, Rewritten
  <1>4. Typed'
    BY Zenon, <1>1, <1>2, <1>3, Basics DEF Typed, KernelSame, Active, At
  <1>5. Owned'
    BY Zenon, <1>1, Basics DEF Owned, KernelSame
  <1>6. Fits'
    BY Zenon, <1>1, <1>2, Basics DEF Fits, KernelSame, Active, At
  <1>7. Traced'
    <2>1. Loose => child.pid \in Run
      BY Zenon, <1>1, Basics DEF Typed, Children, Fits, Loose
    <2>2. \A r \in Run : r > sup.run => r # sup.run
      BY SMTT(60), <1>1, Basics, RunsAreNumbers
    <2>3. \A r \in Run : r > sup.run => disk'[r].attempted = 0
      BY Zenon, <1>1, <1>3, <2>2, Basics DEF Traced
    <2>4. Loose => \/ \A n \in Rec : Recorded(n, child.pid)
                   \/ disk'[child.pid].attempted = 0
      BY Zenon, <1>1, <1>3, <2>1, Basics DEF Traced
    <2> QED
      BY Zenon, <1>1, <1>2, <2>3, <2>4 DEF Traced, KernelSame, Active, At, Loose, Recorded
  <1>8. Place'
    BY Zenon, <1>2 DEF Place, At, Arming, Watching, Sealing, Clearing, Cleaning
  <1>9. Durable'
    <2>1. ASSUME ~sup'.errors, sup'.exit = 0
          PROVE  Evidence'
      <3>1. At("complete") /\ ~sup.errors /\ sup.exit = 0 /\ Wrote(sup)
        BY Zenon, <1>2, <2>1
      <3>2. Evidence /\ sup.reaped
        BY ZenonT(60), <1>1, <3>1, Basics DEF Durable, Place, At
      <3> QED
        BY Zenon, <1>2, <3>1, <3>2 DEF Evidence, Result, Wrote, Rewritten
    <2> QED
      BY Zenon, <1>2, <2>1 DEF Durable, At, Watching, Sealing, Clearing
  <1> QED
    BY Zenon, <1>4, <1>5, <1>6, <1>7, <1>8, <1>9 DEF Inv

LEMMA PollLateKeepsInv ==
    ASSUME Inv, PollLate
    PROVE  Inv'
  BY Zenon, FailureKeepsInv DEF PollLate, Active, At, KernelSame, kernelAndWorld,
     kernelVars, childVars

-----------------------------------------------------------------------------
LEMMA InitInv ==
    ASSUME Init
    PROVE  Inv
  <1>1. NoChild \in Children /\ Off \in Captures
    BY SMTT(60) DEF NoChild, Children, Off, Captures, Capture, Phase, NoExit
  <1>2. NoResult \in Results /\ NoResult.attempted = 0
    BY <1>1 DEF NoResult, Results, NoSnapshot, NoExit
  <1>3. /\ Idle \in Supervisors /\ Idle.pc = "idle" /\ Idle.run = 0
        /\ Idle.exit = NoExit
    BY Zenon, IdleFields
  <1>4. NoChild.state = "none" /\ NoChild.op = "closed" /\ NoChild.pid = 0
    BY Zenon DEF NoChild
  <1>5. Off.phase = "off" /\ Off.errors = {}
    BY Zenon DEF Off
  <1>6. Typed
    BY SMTT(60), <1>1, <1>2, <1>3 DEF Init, Typed, Active, At
  <1>7. Owned
    BY Zenon, <1>5 DEF Init, Owned
  <1>8. Fits
    BY SMTT(60), <1>3, <1>4 DEF Init, Fits, Active, At
  <1>9. Traced
    BY Zenon, <1>2, <1>3, <1>4 DEF Init, Traced, Active, At, Loose
  <1>10. Place
    BY Zenon, <1>3 DEF Init, Place, At, Arming, Watching, Sealing, Clearing, Cleaning
  <1>11. Durable
    BY SMTT(60), <1>3 DEF Init, Durable, At, Watching, Sealing, Clearing, NoExit
  <1> QED
    BY Zenon, <1>6, <1>7, <1>8, <1>9, <1>10, <1>11 DEF Inv

LEMMA NextInv ==
    ASSUME Inv, [Next]_vars
    PROVE  Inv'
  <1>1. CASE \E enabled \in BOOLEAN : Begin(enabled)
    BY Zenon, <1>1, BeginKeepsInv
  <1>2. CASE SupervisorStep
    BY ZenonT(60), <1>2, PreflightKeepsInv, ForkKeepsInv, ArmAttemptKeepsInv,
       ControlArmKeepsInv, ArmedStatusKeepsInv, ReleaseKeepsInv, PollKeepsInv,
       PollLateKeepsInv, WatchKeepsInv, CloseKeepsInv, SignalKeepsInv,
       AwaitChildKeepsInv, SealCheckKeepsInv, ControlSealKeepsInv,
       SnapshotKeepsInv, SnapshotStoredKeepsInv, SealedStatusKeepsInv,
       FinalKeepsInv, JudgeKeepsInv, ControlOffKeepsInv, ClearedKeepsInv,
       EndKeepsInv DEF SupervisorStep
  <1>3. CASE SupervisorDies
    BY Zenon, <1>3, EndKeepsInv
  <1>4. CASE ChildStep \/ KernelStep
    BY Zenon, <1>4, ChildMoves, HookMoves, WorldKeepsInv DEF KernelStep
  <1>5. CASE \E n \in Rec : ForeignOpens(n) \/ ForeignCloses(n)
    BY Zenon, <1>5, ForeignMoves, WorldKeepsInv
  <1>6. CASE UNCHANGED vars
    <2>1. WorldMoves
      BY Zenon, <1>6, SameCaptures DEF vars, kernelVars, childVars, WorldMoves, Inv,
         Typed, Fits, Loose
    <2> QED
      BY Zenon, <2>1, WorldKeepsInv
  <1> QED
    BY Zenon, <1>1, <1>2, <1>3, <1>4, <1>5, <1>6 DEF Next

LEMMA Invariance ==
    Spec => []Inv
  BY InitInv, NextInv, PTL DEF Spec

(***************************************************************************)
(* A run that supervise() accepts has both captures on disk, whole and of  *)
(* one context, and the waited status of its child, whatever failed or     *)
(* died before it.                                                         *)
(***************************************************************************)
THEOREM AcceptedRunsAreComplete ==
    Spec => []AcceptedIsComplete
  <1>1. Inv => AcceptedIsComplete
    BY ZenonT(60) DEF Inv, Durable, AcceptedIsComplete, Evidence, Result, At
  <1> QED
    BY <1>1, Invariance, PTL

(***************************************************************************)
(* A traced child that has the device open is recorded, under its run, by  *)
(* both recorders.                                                         *)
(***************************************************************************)
THEOREM ChildrenAreRecorded ==
    Spec => []DecodesUnderCapture
  <1>1. Inv => DecodesUnderCapture
    BY Zenon DEF Inv, Traced, Owned, DecodesUnderCapture, Loose, Recorded, Recording
  <1> QED
    BY <1>1, Invariance, PTL

(* Captures go off in the clearing of a traced run only. *)
LEMMA OnlyTheOff ==
    ASSUME Inv, Next, NEW n \in Rec, rec[n].phase # "off",
           rec'[n].phase = "off"
    PROVE  At("clear") /\ n = sup.i /\ sup.enabled
  <1>1. rec[n] \in Captures /\ rec \in [Rec -> Captures] /\ rec' # rec
    BY Zenon DEF Inv, Typed
  <1>2. ~WorldMoves
    BY Zenon, <1>1 DEF WorldMoves, Later, Recording, Captures, Capture, Phase
  <1>3. ControlArm \/ ControlSeal \/ ControlOff
    <2>1. CASE \E enabled \in BOOLEAN : Begin(enabled)
      BY Zenon, <2>1, <1>1 DEF Begin, kernelVars
    <2>2. CASE SupervisorStep
      BY ZenonT(60), <2>2, <1>1 DEF SupervisorStep, Preflight, Fork, ArmAttempt, ArmedStatus,
         Release, Poll, PollLate, Watch, Close, Signal, AwaitChild, SealCheck,
         Snapshot, SnapshotStored, SealedStatus, Final, Judge, Cleared, Complete,
         kernelAndWorld, kernelVars
    <2>3. CASE SupervisorDies
      BY Zenon, <2>3, <1>1 DEF SupervisorDies, kernelAndWorld, kernelVars
    <2>4. CASE ChildStep \/ KernelStep
      BY Zenon, <2>4, <1>2, ChildMoves, HookMoves DEF KernelStep
    <2>5. CASE \E m \in Rec : ForeignOpens(m) \/ ForeignCloses(m)
      BY Zenon, <2>5, <1>2, ForeignMoves
    <2> QED
      BY Zenon, <2>1, <2>2, <2>3, <2>4, <2>5 DEF Next
  <1>4. Active /\ sup.i \in Rec
    BY ZenonT(60), <1>3, Basics DEF ControlArm, ControlSeal, ControlOff, Active, At, Inv,
       Typed, Supervisors, Rec
  <1>5. PICK text \in {"arm", "seal", "off"} :
            /\ rec' = [rec EXCEPT ![sup.i] = Applied(sup.i, text)]
            /\ Accepts(sup.i, text)
            /\ text = "off" => At("clear") \/ (At("arm") /\ ~sup.enabled)
    BY ZenonT(60), <1>1, <1>3 DEF ControlArm, ControlSeal, ControlOff, control
  <1>6. n = sup.i /\ rec'[n] = Applied(n, text)
    BY Zenon, <1>1, <1>4, <1>5
  <1>7. text = "off"
    <2>1. text # "arm"
      BY <1>5, <1>6 DEF Applied, Armed, Off
    <2>2. text # "seal"
      BY Zenon, <1>1, <1>5, <1>6, SealFields DEF Applied
    <2> QED
      BY Zenon, <1>5, <2>1, <2>2
  <1>8. sup.enabled \/ rec[n] = Off
    <2>1. sup.forked
      BY Zenon, <1>4, <1>5, <1>7, Basics DEF Place, Fits, At, Arming, Clearing
    <2> QED
      BY Zenon, <1>4, <2>1, Basics DEF Traced
  <1> QED
    BY SMTT(60), <1>5, <1>6, <1>7, <1>8 DEF Off

(***************************************************************************)
(* No step takes a capture away that is not on disk, whole, with its       *)
(* child's successful status.                                              *)
(***************************************************************************)
THEOREM CapturesAreClearedLast ==
    Spec => ClearedOnlyDurable
  <1>1. ASSUME Inv, [Next]_vars, NEW n \in Rec, rec[n].phase # "off",
               rec'[n].phase = "off"
        PROVE  LET d == disk[rec[n].run]
               IN  /\ d.snapshot[n] = rec[n]
                   /\ Whole(rec[n], rec[n].run)
                   /\ d.reaped
                   /\ d.exit = 0
    <2>1. Next
      BY ZenonT(60), <1>1 DEF vars, kernelVars
    <2>2. At("clear") /\ n = sup.i /\ sup.enabled
      BY Zenon, <1>1, <2>1, OnlyTheOff
    <2>3. Durable /\ sup.i \in Nat
      BY SMTT(60), <1>1 DEF Inv, Typed, Supervisors
    <2>4. /\ rec[n] = Result.snapshot[n] /\ Whole(rec[n], sup.run)
          /\ Result.reaped /\ Result.exit = 0
      BY <2>2, <2>3 DEF Durable, Evidence, At, Clearing
    <2> QED
      BY ZenonT(60), <2>4 DEF Result, Whole
  <1>2. Inv /\ [Next]_vars =>
            [\A n \in Rec :
                rec[n].phase # "off" /\ rec'[n].phase = "off" =>
                    LET d == disk[rec[n].run]
                    IN  /\ d.snapshot[n] = rec[n]
                        /\ Whole(rec[n], rec[n].run)
                        /\ d.reaped
                        /\ d.exit = 0]_vars
    BY Zenon, <1>1
  <1> QED
    BY <1>2, Invariance, PTL DEF Spec, ClearedOnlyDurable

=============================================================================
