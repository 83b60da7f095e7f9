-------------------------- MODULE ModuleSwapProofs --------------------------
(***************************************************************************)
(* That what the reports of the two module exchanges accept is what        *)
(* happened, and that neither program forces a module.                     *)
(*                                                                         *)
(* A report reads the log, which is judged long after; AcceptedIsTrue is   *)
(* about the story, which no program reads.  What ties the two is where    *)
(* the program is: OnTrack says of a process without a failure what story  *)
(* there is and what is loaded at each operation of its script, Told that  *)
(* only such a process ends its log with the completion marker, and        *)
(* Marked that no other process gets past the marker of the first.  The    *)
(* other three parts are for NeverForced: OneLoad is why the candidate is  *)
(* not loaded twice, Known why what is unloaded was identified, Stopped    *)
(* why a process that met a fault changes nothing any more.                *)
(*                                                                         *)
(* The scripts are functions of the number of jobs, so the first half is   *)
(* what stands at each place of a script and of the story.  A lemma with   *)
(* one use is a named step of the proof that uses it.                      *)
(***************************************************************************)
EXTENDS ModuleSwap, TLAPS

-----------------------------------------------------------------------------
(* What the variables hold. *)
Progs == {"probe", "capture", "qualify"}

Modules == {"original", "candidate", "other", "none"}

Names == {"baseline", "candidate", "restored"}

Outs == {"none", "right", "wrong"}

Argvs == {"rmmod", "insmod", "modprobe"}

(* What an operation, an event of the log and a line of the story can be.  *)
Checks ==
  [op : {"identity"}, which : Modules] \cup [op : {"healthy"}, present : BOOLEAN]
    \cup [op : {"decode", "judge"}, stage : Names, job : Range(Jobs)]
    \cup [op : {"mark", "preflight", "loaded", "restored", "terminal", "complete"}]

Operations ==
  Checks \cup [op : {"transition"}, argv : Argvs]

Event ==
  [event : {"failed", "restore-incomplete", "restored-stage-failed",
            "unhealthy", "preflight", "restored", "complete"}]
    \cup [event : {"attempt"}, argv : Argvs]
    \cup [event : {"result"}, argv : Argvs, rc : {0, 1}]
    \cup [event : {"accepted"}, stage : Names, job : Range(Jobs)]
    \cup [event : {"terminal"}, restored : BOOLEAN, well : BOOLEAN]

Scene ==
  {<<m>> : m \in Modules \cup Outs} \cup (Names \X Range(Jobs) \X Modules)

Parts == {"before", "try", "restore", "terminal", "after"}

Process ==
  [prog : Progs, part : Parts \cup {"off", "ended", "killed"}, pc : Nat,
   changed : BOOLEAN, restored : BOOLEAN, failed : BOOLEAN, out : Outs,
   saw : BOOLEAN]

SwapTyped ==
  /\ module \in Modules
  /\ proc \in Process
  /\ log \in Seq(Event)
  /\ story \in Seq(Scene)
  /\ Running => proc.pc \in 1..Len(Ops(proc))

(* The operations of the try before the exchange. *)
Ahead(prog) ==
  IF prog = "qualify" THEN 4 * Len(Jobs) + 2 ELSE 0

(* One process at most gets past the marker. *)
Marked ==
  /\ proc.part = "before" /\ proc.pc > 1 => attempted
  /\ proc.part \in {"try", "restore", "terminal", "after"} => attempted
  /\ ~attempted => story = <<>>

(* It loads the candidate once. *)
OneLoad ==
  <<"candidate">> \in Range(story) =>
    /\ attempted
    /\ proc.part = "before" => proc.pc = 1
    /\ proc.part = "try" => proc.pc > Ahead(proc.prog) + 3

(* What it unloads it has identified, *)
Known ==
  /\ proc.part = "before" /\ proc.pc = 3 => module = "original"
  /\ proc.part = "try" /\ proc.pc <= Ahead(proc.prog) + 1 => module = "original"
  /\ proc.part = "restore" /\ proc.pc = 3 => module = "candidate"

(* and after a fault it gets no further than to look. *)
Stopped ==
  proc.saw => /\ faulted /\ proc.failed
              /\ proc.part \in {"restore", "terminal", "ended", "killed"}
              /\ proc.part = "restore" => proc.pc = 1

(* The story so far: after told, the first n lines of lines.               *)
Tell(told, lines, n) ==
  told \o SubSeq(lines, 1, n)

(* Around the decode of the job after the first d. *)
Decoding(told, lines, d) ==
  story = Tell(told, lines, IF "decoder" \in holders THEN 2 * d + 1 ELSE 2 * d)

Shown(told, lines, d) ==
  story = Append(Tell(told, lines, 2 * d + 1), <<proc.out>>)

(* A stage of qualify.py, after the first o operations.                    *)
InStage(at, o, told, lines) ==
  \E d \in 0..Len(Jobs) :
    \/ at = o + 4 * d + 1 /\ story = Tell(told, lines, 2 * d)
    \/ /\ d < Len(Jobs)
       /\ \/ at = o + 4 * d + 2 /\ Decoding(told, lines, d)
          \/ at = o + 4 * d + 3 /\ Shown(told, lines, d)
          \/ at = o + 4 * d + 4 /\ Shown(told, lines, d)

(* The workloads of campaign.py.                                           *)
InWorkloads(at, o, told, lines) ==
  \E d \in 0..Len(Jobs) :
    \/ at = o + 5 * d + 1 /\ story = Tell(told, lines, 2 * d)
    \/ /\ d < Len(Jobs)
       /\ \/ at = o + 5 * d + 2 /\ story = Tell(told, lines, 2 * d)
          \/ at = o + 5 * d + 3 /\ Decoding(told, lines, d)
          \/ at = o + 5 * d + 4 /\ Shown(told, lines, d)
          \/ at = o + 5 * d + 5 /\ story = Tell(told, lines, 2 * d + 2)

(* The exchange, after the first o operations of the try,                  *)
Loading(at, o, told) ==
  \/ at = o + 1 /\ story = told /\ module = "original"
  \/ /\ at \in {o + 2, o + 3}
     /\ story = Append(told, <<"none">>) /\ module = "none"
  \/ at = o + 4 /\ story = Append(Append(told, <<"none">>), <<module>>)
  \/ at = o + 5 /\ story = told \o There /\ module = "candidate"

(* and the way back. *)
Returning(at, told) ==
  \/ at \in 1..3 /\ story = told /\ module = "candidate"
  \/ /\ at \in {4, 5}
     /\ story = Append(told, <<"none">>) /\ module = "none"
  \/ at = 6 /\ story = Append(Append(told, <<"none">>), <<module>>)
  \/ at \in 7..9 /\ story = told \o Back /\ module = "original"

Baseline == Decoded("baseline", "original")

Candidate == Decoded("candidate", "candidate")

Again == Decoded("restored", "original")

Outward(prog) ==
  CASE prog = "probe" -> There
    [] prog = "capture" -> There \o Candidate
    [] prog = "qualify" -> Baseline \o There \o Candidate

ProbeTry(at) ==
  \/ Loading(at, 0, <<>>)
  \/ at \in {6, 7} /\ story = There /\ module = "candidate"

CaptureTry(at) ==
  \/ Loading(at, 0, <<>>)
  \/ /\ module = "candidate"
     /\ \/ at = 6 /\ story = There
        \/ InWorkloads(at, 6, There, Candidate)

QualifyTry(at) ==
  \/ /\ module = "original"
     /\ \/ at = 1 /\ story = <<>>
        \/ InStage(at, 1, <<>>, Baseline)
  \/ Loading(at, 4 * Len(Jobs) + 2, Baseline)
  \/ /\ module = "candidate"
     /\ \/ at = 4 * Len(Jobs) + 8 /\ story = Baseline \o There
        \/ InStage(at, 4 * Len(Jobs) + 8, Baseline \o There, Candidate)

InTry(at) ==
  /\ proc.prog = "probe" => ProbeTry(at)
  /\ proc.prog = "capture" => CaptureTry(at)
  /\ proc.prog = "qualify" => QualifyTry(at)

InAfter(at) ==
  IF proc.prog = "qualify"
  THEN /\ module = "original"
       /\ \/ at = 1 /\ story = Outward("qualify") \o Back
          \/ InStage(at, 1, Outward("qualify") \o Back, Again)
          \/ at = 4 * Len(Jobs) + 3 /\ story = TheStory
  ELSE story = TheStory

(* Where the story has got to at an operation of a part. *)
Path(part, at) ==
  /\ part = "before" /\ at > 1 => story = <<>>
  /\ part = "try" => InTry(at)
  /\ part = "restore" => Returning(at, Outward(proc.prog))
  /\ part = "terminal" /\ proc.restored =>
       story = Outward(proc.prog) \o Back /\ module = "original"
  /\ part = "after" => InAfter(at)

(* A process without a failure is on the path. *)
OnTrack ==
  /\ proc.part = "after" => ~proc.failed
  /\ ~proc.failed => /\ proc.part \in {"before", "try"} => ~proc.restored
                     /\ Path(proc.part, proc.pc)

(* The log ends with the completion marker when all is told.               *)
Told ==
  Ends("complete") =>
    /\ attempted /\ story = TheStory
    /\ \/ proc.part \in {"ended", "killed"}
       \/ proc.part = "before" /\ proc.pc = 1

SwapInv ==
  SwapTyped /\ Marked /\ OneLoad /\ Known /\ Stopped /\ OnTrack /\ Told

-----------------------------------------------------------------------------
(* Sequences.  Where the entries of a concatenation are. *)
LEMMA Joined ==
  ASSUME NEW S, NEW s \in Seq(S), NEW t \in Seq(S)
  PROVE  /\ s \o t \in Seq(S) /\ Len(s \o t) = Len(s) + Len(t)
         /\ \A i \in 1..Len(s) : (s \o t)[i] = s[i]
         /\ \A i \in 1..Len(t) : (s \o t)[Len(s) + i] = t[i]
OBVIOUS

(* Sequences with the same length and the same entries are equal. *)
LEMMA SameSeq ==
  ASSUME NEW S, NEW s \in Seq(S), NEW t \in Seq(S), Len(s) = Len(t),
         \A i \in 1..Len(s) : s[i] = t[i]
  PROVE  s = t
OBVIOUS

(* The story grows by the next line. *)
LEMMA TellMore ==
  ASSUME NEW S, NEW told \in Seq(S), NEW lines \in Seq(S), NEW n \in Nat,
         n < Len(lines)
  PROVE  Append(Tell(told, lines, n), lines[n + 1]) = Tell(told, lines, n + 1)
<1>1. /\ SubSeq(lines, 1, n) \in Seq(S) /\ Len(SubSeq(lines, 1, n)) = n
      /\ SubSeq(lines, 1, n + 1) \in Seq(S) /\ Len(SubSeq(lines, 1, n + 1)) = n + 1
      /\ \A i \in 1..n : SubSeq(lines, 1, n)[i] = lines[i]
      /\ \A i \in 1..(n + 1) : SubSeq(lines, 1, n + 1)[i] = lines[i]
  OBVIOUS
<1>2. lines[n + 1] \in S
  OBVIOUS
<1> DEFINE u == SubSeq(lines, 1, n)
           v == SubSeq(lines, 1, n + 1)
           a == told \o u
           b == told \o v
<1>3. /\ a \in Seq(S) /\ Len(a) = Len(told) + n
      /\ b \in Seq(S) /\ Len(b) = Len(told) + (n + 1)
      /\ \A i \in 1..Len(told) : a[i] = told[i] /\ b[i] = told[i]
      /\ \A i \in 1..n : a[Len(told) + i] = u[i]
      /\ \A i \in 1..(n + 1) : b[Len(told) + i] = v[i]
  BY <1>1, Joined
<1> HIDE DEF u, v, a, b
<1>4. Len(told) \in Nat
  OBVIOUS
<1>5. Append(a, lines[n + 1]) \in Seq(S) /\ Len(Append(a, lines[n + 1])) = Len(b)
  BY <1>2, <1>3, <1>4
<1>6. ASSUME NEW i \in 1..Len(b)
      PROVE  Append(a, lines[n + 1])[i] = b[i]
  <2>1. CASE i \in 1..Len(told)
    BY <1>2, <1>3, <1>4, <2>1
  <2>2. CASE i \notin 1..Len(told)
    <3> DEFINE k == i - Len(told)
    <3>1. k \in 1..(n + 1) /\ i = Len(told) + k
      BY <1>3, <1>4, <2>2
    <3> HIDE DEF k
    <3>2. b[i] = lines[k]
      BY <1>1, <1>3, <3>1 DEF v
    <3>3. CASE k = n + 1
      BY <1>2, <1>3, <1>4, <3>1, <3>2, <3>3
    <3>4. CASE k # n + 1
      <4>1. k \in 1..n
        BY <3>1, <3>4
      <4>2. a[i] = lines[k]
        BY <1>1, <1>3, <3>1, <4>1 DEF u
      <4>. QED  BY <1>2, <1>3, <1>4, <3>1, <3>2, <4>1, <4>2
    <3>. QED  BY Zenon, <3>3, <3>4
  <2>. QED  BY Zenon, <2>1, <2>2
<1>7. Append(a, lines[n + 1]) = b
  BY <1>3, <1>5, <1>6, SameSeq
<1>. QED  BY Zenon, <1>7 DEF Tell, a, b, u, v

(* Two lines appended are a pair of lines concatenated. *)
LEMMA TwoMore ==
  ASSUME NEW S, NEW told \in Seq(S), NEW x \in S, NEW y \in S
  PROVE  Append(Append(told, x), y) = told \o <<x, y>>
OBVIOUS

(* A position among the operations of all jobs is a job and a position     *)
(* within its operations; of these a job has four, five or two.            *)
LEMMA Places ==
  ASSUME NEW n \in Nat
  PROVE  /\ \A k \in 1..(4 * n) : /\ (k - 1) \div 4 \in 0..(n - 1)
                                  /\ (k - 1) % 4 \in 0..3
                                  /\ k = 4 * ((k - 1) \div 4) + ((k - 1) % 4) + 1
         /\ \A k \in 1..(5 * n) : /\ (k - 1) \div 5 \in 0..(n - 1)
                                  /\ (k - 1) % 5 \in 0..4
                                  /\ k = 5 * ((k - 1) \div 5) + ((k - 1) % 5) + 1
         /\ \A k \in 1..(2 * n) : /\ (k - 1) \div 2 \in 0..(n - 1)
                                  /\ (k - 1) % 2 \in 0..1
                                  /\ k = 2 * ((k - 1) \div 2) + ((k - 1) % 2) + 1
OBVIOUS

(* u is s followed by t. *)
IsJoin(S, s, t, u) ==
  /\ u \in Seq(S) /\ Len(u) = Len(s) + Len(t)
  /\ \A i \in 1..Len(s) : u[i] = s[i]
  /\ \A i \in 1..Len(t) : u[Len(s) + i] = t[i]

(* Joined, with its conclusion under one name. *)
LEMMA Joins ==
  ASSUME NEW S, NEW s \in Seq(S), NEW t \in Seq(S)
  PROVE  IsJoin(S, s, t, s \o t)
BY Joined DEF IsJoin

(* The entries of a tuple. *)
LEMMA Tuples ==
  ASSUME NEW S, NEW a \in S, NEW b \in S, NEW c \in S, NEW d \in S, NEW e \in S
  PROVE  /\ <<a>> \in Seq(S) /\ Len(<<a>>) = 1 /\ <<a>>[1] = a
         /\ <<a, b>> \in Seq(S) /\ Len(<<a, b>>) = 2
         /\ <<a, b>>[1] = a /\ <<a, b>>[2] = b
         /\ <<a, b, c>> \in Seq(S) /\ Len(<<a, b, c>>) = 3
         /\ <<a, b, c>>[1] = a /\ <<a, b, c>>[2] = b /\ <<a, b, c>>[3] = c
         /\ <<a, b, c, d, e>> \in Seq(S) /\ Len(<<a, b, c, d, e>>) = 5
         /\ <<a, b, c, d, e>>[1] = a /\ <<a, b, c, d, e>>[2] = b
         /\ <<a, b, c, d, e>>[3] = c /\ <<a, b, c, d, e>>[4] = d
         /\ <<a, b, c, d, e>>[5] = e
<1>1. <<a>> \in Seq(S) /\ Len(<<a>>) = 1 /\ <<a>>[1] = a
  OBVIOUS
<1>2. /\ <<a, b>> \in Seq(S) /\ Len(<<a, b>>) = 2
      /\ <<a, b>>[1] = a /\ <<a, b>>[2] = b
  OBVIOUS
<1>3. /\ <<a, b, c>> \in Seq(S) /\ Len(<<a, b, c>>) = 3
      /\ <<a, b, c>>[1] = a /\ <<a, b, c>>[2] = b /\ <<a, b, c>>[3] = c
  OBVIOUS
<1>4. <<a, b, c, d, e>> \in Seq(S) /\ Len(<<a, b, c, d, e>>) = 5
  OBVIOUS
<1>5. /\ <<a, b, c, d, e>>[1] = a /\ <<a, b, c, d, e>>[2] = b
      /\ <<a, b, c, d, e>>[3] = c /\ <<a, b, c, d, e>>[4] = d
      /\ <<a, b, c, d, e>>[5] = e
  OBVIOUS
<1>. QED  BY Zenon, <1>1, <1>2, <1>3, <1>4, <1>5

(* The jobs are a sequence. *)
LEMMA JobAt ==
  /\ Len(Jobs) \in Nat
  /\ \A d \in Nat : d < Len(Jobs) => Jobs[d + 1] \in Range(Jobs)
<1>1. Jobs \in Seq(Range(Jobs))
  BY Zenon, ModuleSwapAssumption DEF ModuleSwapAssumption
<1> DEFINE R == Range(Jobs)
<1> HIDE DEF R
<1>2. Jobs \in Seq(R)
  BY Zenon, <1>1 DEF R
<1>3. Len(Jobs) \in Nat /\ \A d \in Nat : d < Len(Jobs) => Jobs[d + 1] \in R
  BY <1>2
<1>. QED  BY Zenon, <1>3 DEF R

StageOps(name) ==
  ForEach(4, LAMBDA j : <<H(TRUE), Decode(name, j), H(TRUE), Judge(name, j)>>)

(* The lines of a stage. *)
LEMMA Lines ==
  ASSUME NEW stage \in Names, NEW on \in Modules
  PROVE  /\ Decoded(stage, on) \in Seq(Scene)
         /\ Len(Decoded(stage, on)) = 2 * Len(Jobs)
         /\ \A d \in Nat : d < Len(Jobs) =>
              /\ Decoded(stage, on)[2 * d + 1] = <<stage, Jobs[d + 1], on>>
              /\ Decoded(stage, on)[2 * d + 2] = <<"right">>
<1> DEFINE n == Len(Jobs)
           J(d) == Jobs[d + 1]
           f == Decoded(stage, on)
           Two(d) == <<<<stage, J(d), on>>, <<"right">>>>
<1>1. f = [k \in 1..(2 * n) |-> Two((k - 1) \div 2)[((k - 1) % 2) + 1]]
  BY Zenon DEF Decoded, ForEach
<1>2. n \in Nat /\ \A d \in Nat : d < n => J(d) \in Range(Jobs)
  BY Zenon, JobAt
<1>3. <<"right">> \in Scene
  BY Zenon DEF Scene, Outs
<1>4. \A d \in Nat : d < n => <<stage, J(d), on>> \in Scene
  BY Zenon, <1>2 DEF Scene
<1> DEFINE A(d) == <<stage, J(d), on>>
           b == <<"right">>
<1> HIDE DEF f, n, J, A, b
<1>5. \A d : Two(d)[1] = A(d) /\ Two(d)[2] = b
  BY DEF A, b
<1> HIDE DEF Two
<1>6. ASSUME NEW k \in 1..(2 * n)
      PROVE  f[k] \in Scene
  <2> DEFINE d == (k - 1) \div 2
             r == (k - 1) % 2
  <2>1. d \in Nat /\ d < n /\ r \in {0, 1}
    BY <1>2, Places
  <2>2. f[k] = Two(d)[r + 1]
    BY Zenon, <1>1
  <2> HIDE DEF d, r
  <2>3. r + 1 = 1 \/ r + 1 = 2
    BY <2>1
  <2>. QED  BY Zenon, <1>3, <1>4, <1>5, <2>1, <2>2, <2>3 DEF A, b
<1>7. f \in Seq(Scene) /\ Len(f) = 2 * n
  <2>1. 2 * n \in Nat
    BY <1>2
  <2>2. f \in [1..(2 * n) -> Scene]
    BY Zenon, <1>1, <1>6
  <2>. QED  BY <2>1, <2>2
<1>8. ASSUME NEW d \in Nat, d < n
      PROVE  f[2 * d + 1] = A(d) /\ f[2 * d + 2] = b
  <2>1. ASSUME NEW r \in 1..2, NEW k, k = 2 * d + r
        PROVE  f[k] = Two(d)[r]
    <3>1. /\ k \in 1..(2 * n)
          /\ (k - 1) \div 2 = d /\ ((k - 1) % 2) + 1 = r
      BY <1>2, <1>8, <2>1
    <3>2. f[k] = Two((k - 1) \div 2)[((k - 1) % 2) + 1]
      BY Zenon, <1>1, <3>1
    <3>. QED  BY Zenon, <3>1, <3>2
  <2>2. 1 \in 1..2 /\ 2 \in 1..2
    OBVIOUS
  <2>. QED  BY Zenon, <1>5, <2>1, <2>2
<1>. QED  BY Zenon, <1>7, <1>8 DEF f, n, J, A, b

(* The operations of a stage, *)
LEMMA StageAt ==
  ASSUME NEW name \in Names
  PROVE  /\ StageOps(name) \in Seq(Checks)
         /\ Len(StageOps(name)) = 4 * Len(Jobs)
         /\ \A d \in Nat : d < Len(Jobs) =>
              /\ StageOps(name)[4 * d + 1] = H(TRUE)
              /\ StageOps(name)[4 * d + 2] = Decode(name, Jobs[d + 1])
              /\ StageOps(name)[4 * d + 3] = H(TRUE)
              /\ StageOps(name)[4 * d + 4] = Judge(name, Jobs[d + 1])
<1> DEFINE n == Len(Jobs)
           J(d) == Jobs[d + 1]
           f == StageOps(name)
           a == H(TRUE)
           D(d) == Decode(name, J(d))
           U(d) == Judge(name, J(d))
           Four(d) == <<a, D(d), a, U(d)>>
<1>1. f = [k \in 1..(4 * n) |-> Four((k - 1) \div 4)[((k - 1) % 4) + 1]]
  BY Zenon DEF StageOps, ForEach
<1>2. n \in Nat /\ \A d \in Nat : d < n => J(d) \in Range(Jobs)
  BY Zenon, JobAt
<1>3. a \in Checks
  BY Zenon DEF Checks, H
<1>4. \A d \in Nat : d < n => D(d) \in Checks /\ U(d) \in Checks
  BY Zenon, <1>2 DEF Checks, Decode, Judge
<1> HIDE DEF f, n, J, a, D, U
<1>5. \A d : /\ Four(d)[1] = a /\ Four(d)[2] = D(d)
             /\ Four(d)[3] = a /\ Four(d)[4] = U(d)
  OBVIOUS
<1> HIDE DEF Four
<1>6. ASSUME NEW k \in 1..(4 * n)
      PROVE  f[k] \in Checks
  <2> DEFINE d == (k - 1) \div 4
             r == (k - 1) % 4
  <2>1. d \in Nat /\ d < n /\ r \in 0..3
    BY <1>2, Places
  <2>2. f[k] = Four(d)[r + 1]
    BY Zenon, <1>1
  <2> HIDE DEF d, r
  <2>3. r + 1 = 1 \/ r + 1 = 2 \/ r + 1 = 3 \/ r + 1 = 4
    BY <2>1
  <2>. QED  BY Zenon, <1>3, <1>4, <1>5, <2>1, <2>2, <2>3
<1>7. f \in Seq(Checks) /\ Len(f) = 4 * n
  <2>1. 4 * n \in Nat
    BY <1>2
  <2>2. f \in [1..(4 * n) -> Checks]
    BY Zenon, <1>1, <1>6
  <2>. QED  BY <2>1, <2>2
<1>8. ASSUME NEW d \in Nat, d < n
      PROVE  /\ f[4 * d + 1] = a /\ f[4 * d + 2] = D(d)
             /\ f[4 * d + 3] = a /\ f[4 * d + 4] = U(d)
  <2>1. ASSUME NEW r \in 1..4, NEW k, k = 4 * d + r
        PROVE  f[k] = Four(d)[r]
    <3>1. /\ k \in 1..(4 * n)
          /\ (k - 1) \div 4 = d /\ ((k - 1) % 4) + 1 = r
      BY <1>2, <1>8, <2>1
    <3>2. f[k] = Four((k - 1) \div 4)[((k - 1) % 4) + 1]
      BY Zenon, <1>1, <3>1
    <3>. QED  BY Zenon, <3>1, <3>2
  <2>2. 1 \in 1..4 /\ 2 \in 1..4 /\ 3 \in 1..4 /\ 4 \in 1..4
    OBVIOUS
  <2>. QED  BY Zenon, <1>5, <2>1, <2>2
<1>. QED  BY Zenon, <1>7, <1>8 DEF f, n, J, a, D, U

(* and of the workloads. *)
LEMMA WorkloadAt ==
  /\ Workloads \in Seq(Checks)
  /\ Len(Workloads) = 5 * Len(Jobs)
  /\ \A d \in Nat : d < Len(Jobs) =>
       /\ Workloads[5 * d + 1] = I("candidate")
       /\ Workloads[5 * d + 2] = H(TRUE)
       /\ Workloads[5 * d + 3] = Decode("candidate", Jobs[d + 1])
       /\ Workloads[5 * d + 4] = Judge("candidate", Jobs[d + 1])
       /\ Workloads[5 * d + 5] = H(TRUE)
<1> DEFINE n == Len(Jobs)
           J(d) == Jobs[d + 1]
           f == Workloads
           i == I("candidate")
           a == H(TRUE)
           D(d) == Decode("candidate", J(d))
           U(d) == Judge("candidate", J(d))
           Five(d) == <<i, a, D(d), U(d), a>>
<1>1. f = [k \in 1..(5 * n) |-> Five((k - 1) \div 5)[((k - 1) % 5) + 1]]
  BY Zenon DEF Workloads, ForEach
<1>2. n \in Nat /\ \A d \in Nat : d < n => J(d) \in Range(Jobs)
  BY Zenon, JobAt
<1>3. a \in Checks /\ i \in Checks
  BY Zenon DEF Checks, H, I, Modules
<1>4. \A d \in Nat : d < n => D(d) \in Checks /\ U(d) \in Checks
  BY Zenon, <1>2 DEF Checks, Decode, Judge, Names
<1> HIDE DEF f, n, J, i, a, D, U
<1>5. \A d : /\ Five(d)[1] = i /\ Five(d)[2] = a /\ Five(d)[3] = D(d)
             /\ Five(d)[4] = U(d) /\ Five(d)[5] = a
  OBVIOUS
<1> HIDE DEF Five
<1>6. ASSUME NEW k \in 1..(5 * n)
      PROVE  f[k] \in Checks
  <2> DEFINE d == (k - 1) \div 5
             r == (k - 1) % 5
  <2>1. d \in Nat /\ d < n /\ r \in 0..4
    BY <1>2, Places
  <2>2. f[k] = Five(d)[r + 1]
    BY Zenon, <1>1
  <2> HIDE DEF d, r
  <2>3. r + 1 = 1 \/ r + 1 = 2 \/ r + 1 = 3 \/ r + 1 = 4 \/ r + 1 = 5
    BY <2>1
  <2>. QED  BY Zenon, <1>3, <1>4, <1>5, <2>1, <2>2, <2>3
<1>7. f \in Seq(Checks) /\ Len(f) = 5 * n
  <2>1. 5 * n \in Nat
    BY <1>2
  <2>2. f \in [1..(5 * n) -> Checks]
    BY Zenon, <1>1, <1>6
  <2>. QED  BY <2>1, <2>2
<1>8. ASSUME NEW d \in Nat, d < n
      PROVE  /\ f[5 * d + 1] = i /\ f[5 * d + 2] = a /\ f[5 * d + 3] = D(d)
             /\ f[5 * d + 4] = U(d) /\ f[5 * d + 5] = a
  <2>1. ASSUME NEW r \in 1..5, NEW k, k = 5 * d + r
        PROVE  f[k] = Five(d)[r]
    <3>1. /\ k \in 1..(5 * n)
          /\ (k - 1) \div 5 = d /\ ((k - 1) % 5) + 1 = r
      BY <1>2, <1>8, <2>1
    <3>2. f[k] = Five((k - 1) \div 5)[((k - 1) % 5) + 1]
      BY Zenon, <1>1, <3>1
    <3>. QED  BY Zenon, <3>1, <3>2
  <2>2. 1 \in 1..5 /\ 2 \in 1..5 /\ 3 \in 1..5 /\ 4 \in 1..5 /\ 5 \in 1..5
    OBVIOUS
  <2>. QED  BY ZenonT(60), <1>5, <2>1, <2>2
<1>. QED  BY Zenon, <1>7, <1>8 DEF f, n, J, i, a, D, U

-----------------------------------------------------------------------------
(* The scripts. *)
LEMMA StageIs ==
  ASSUME NEW name \in Names, NEW which \in Modules
  PROVE  /\ Stage(name, which) \in Seq(Checks)
         /\ Len(Stage(name, which)) = 4 * Len(Jobs) + 1
         /\ Stage(name, which)[1] = I(which)
         /\ \A i \in 1..(4 * Len(Jobs)) :
              Stage(name, which)[1 + i] = StageOps(name)[i]
<1> DEFINE n == Len(Jobs)
           a == I(which)
           s == StageOps(name)
<1>1. Stage(name, which) = <<a>> \o s
  BY Zenon DEF Stage, StageOps
<1>2. a \in Checks
  BY Zenon DEF Checks, I
<1>3. s \in Seq(Checks) /\ Len(s) = 4 * n /\ n \in Nat
  BY Zenon, StageAt, JobAt
<1> HIDE DEF a, s, n
<1> DEFINE u == <<a>>
<1>4. u \in Seq(Checks) /\ Len(u) = 1 /\ u[1] = a
  BY Zenon, <1>2, Tuples
<1> HIDE DEF u
<1>5. IsJoin(Checks, u, s, u \o s)
  BY Zenon, <1>3, <1>4, Joins
<1>6. 1 + 4 * n = 4 * n + 1 /\ 1 \in 1..1
  BY <1>3
<1>. QED  BY Zenon, <1>1, <1>3, <1>4, <1>5, <1>6 DEF IsJoin, u, a, s, n

(* The exchange, operation by operation, *)
LEMMA LoadIs ==
  /\ Load \in Seq(Operations) /\ Len(Load) = 5
  /\ Load[1] = T("rmmod") /\ Load[2] = H(FALSE) /\ Load[3] = T("insmod")
  /\ Load[4] = I("candidate") /\ Load[5] = H(TRUE)
<1>1. /\ T("rmmod") \in Operations /\ T("insmod") \in Operations
      /\ H(FALSE) \in Operations /\ H(TRUE) \in Operations
      /\ I("candidate") \in Operations
  BY Zenon DEF Operations, Checks, T, H, I, Argvs, Modules
<1>. QED  BY Zenon, <1>1, Tuples DEF Load

(* and the restoration. *)
LEMMA RestoreIs ==
  /\ Restore \in Seq(Operations) /\ Len(Restore) = 8
  /\ Restore[1] = Do("loaded") /\ Restore[2] = I("candidate")
  /\ Restore[3] = T("rmmod") /\ Restore[4] = H(FALSE)
  /\ Restore[5] = T("modprobe") /\ Restore[6] = I("original")
  /\ Restore[7] = H(TRUE) /\ Restore[8] = Do("restored")
<1>EightTuple. ASSUME NEW S, NEW a \in S, NEW b \in S, NEW c \in S, NEW d \in S,
                      NEW e \in S, NEW f \in S, NEW g \in S, NEW h \in S
               PROVE  LET t == <<a, b, c, d, e, f, g, h>>
                      IN  /\ t \in Seq(S) /\ Len(t) = 8
                          /\ t[1] = a /\ t[2] = b /\ t[3] = c /\ t[4] = d
                          /\ t[5] = e /\ t[6] = f /\ t[7] = g /\ t[8] = h
  <2>. USE <1>EightTuple
  <2> DEFINE t == <<a, b, c, d, e, f, g, h>>
  <2>1. t \in Seq(S) /\ Len(t) = 8
    OBVIOUS
  <2>2. t[1] = a /\ t[2] = b /\ t[3] = c /\ t[4] = d
    OBVIOUS
  <2>3. t[5] = e /\ t[6] = f /\ t[7] = g /\ t[8] = h
    OBVIOUS
  <2>. QED  BY Zenon, <2>1, <2>2, <2>3
<1>1. /\ T("rmmod") \in Operations /\ T("modprobe") \in Operations
      /\ H(FALSE) \in Operations /\ H(TRUE) \in Operations
      /\ I("candidate") \in Operations /\ I("original") \in Operations
      /\ Do("loaded") \in Operations /\ Do("restored") \in Operations
  BY Zenon DEF Operations, Checks, T, H, I, Do, Argvs, Modules
<1>. QED  BY Zenon, <1>1, <1>EightTuple DEF Restore

(* A sequence of checks is one of operations. *)
LEMMA ChecksAreOperations ==
  ASSUME NEW s \in Seq(Checks)
  PROVE  s \in Seq(Operations)
<1>1. Checks \subseteq Operations
  BY Zenon DEF Operations
<1> HIDE DEF Checks, Operations
<1>. QED  BY <1>1

(* The try of the probe and of the capture, *)
ShortTry(rest) ==
  Load \o <<Do("preflight")>> \o rest

(* The try of campaign.py: the exchange, the preflight, the workloads. *)
LEMMA ShortTryAt ==
  ASSUME NEW rest \in Seq(Checks)
  PROVE  /\ ShortTry(rest) \in Seq(Operations)
         /\ Len(ShortTry(rest)) = 6 + Len(rest)
         /\ \A i \in 1..5 : ShortTry(rest)[i] = Load[i]
         /\ ShortTry(rest)[6] = Do("preflight")
         /\ \A i \in 1..Len(rest) : ShortTry(rest)[6 + i] = rest[i]
<1> DEFINE a == Load
           b == <<Do("preflight")>>
           c == rest
<1>1. Do("preflight") \in Operations
  BY Zenon DEF Operations, Checks, Do
<1>2. b \in Seq(Operations) /\ Len(b) = 1 /\ b[1] = Do("preflight")
  BY Zenon, <1>1, Tuples
<1>3. a \in Seq(Operations) /\ Len(a) = 5 /\ c \in Seq(Operations)
  BY Zenon, LoadIs, ChecksAreOperations
<1>4. ShortTry(rest) = (a \o b) \o c
  BY Zenon DEF ShortTry
<1> HIDE DEF a, b, c
<1> DEFINE u == a \o b
<1>5. IsJoin(Operations, a, b, u)
  BY Zenon, <1>2, <1>3, Joins
<1> HIDE DEF u
<1>6. IsJoin(Operations, u, c, u \o c)
  <2>1. u \in Seq(Operations)
    BY Zenon, <1>5 DEF IsJoin
  <2>. QED  BY Zenon, <1>3, <2>1, Joins
<1>7. Len(u) = 6 /\ 1 \in 1..1 /\ 5 + 1 = 6 /\ 6 \in 1..6
  BY <1>2, <1>3, <1>5 DEF IsJoin
<1>8. \A i \in 1..5 : i \in 1..6
  OBVIOUS
<1>9. \A i \in 1..5 : (u \o c)[i] = a[i]
  BY Zenon, <1>3, <1>5, <1>6, <1>7, <1>8 DEF IsJoin
<1>10. (u \o c)[6] = Do("preflight")
  <2>1. u[5 + 1] = b[1]
    BY Zenon, <1>2, <1>3, <1>5, <1>7 DEF IsJoin
  <2>. QED  BY Zenon, <1>2, <1>6, <1>7, <2>1 DEF IsJoin
<1>11. /\ u \o c \in Seq(Operations) /\ Len(u \o c) = 6 + Len(c)
       /\ \A i \in 1..Len(c) : (u \o c)[6 + i] = c[i]
  BY Zenon, <1>6, <1>7 DEF IsJoin
<1>. QED  BY Zenon, <1>4, <1>9, <1>10, <1>11 DEF u, a, c

(* and that of the qualification. *)
LongTry ==
  Stage("baseline", "original") \o <<H(TRUE)>> \o Load
    \o Stage("candidate", "candidate")

(* The try of qualify.py: a stage, the exchange, a stage. *)
LEMMA LongTryAt ==
  LET n == Len(Jobs)
  IN  /\ LongTry \in Seq(Operations)
      /\ Len(LongTry) = 8 * n + 8
      /\ LongTry[1] = I("original")
      /\ \A i \in 1..(4 * n) : LongTry[1 + i] = StageOps("baseline")[i]
      /\ LongTry[4 * n + 2] = H(TRUE)
      /\ \A i \in 1..5 : LongTry[4 * n + 2 + i] = Load[i]
      /\ LongTry[4 * n + 8] = I("candidate")
      /\ \A i \in 1..(4 * n) : LongTry[4 * n + 8 + i] = StageOps("candidate")[i]
<1> DEFINE n == Len(Jobs)
           a == Stage("baseline", "original")
           b == <<H(TRUE)>>
           c == Load
           e == Stage("candidate", "candidate")
           sb == StageOps("baseline")
           sc == StageOps("candidate")
<1>1. H(TRUE) \in Operations /\ n \in Nat
  BY Zenon, JobAt DEF Operations, Checks, H
<1>2. b \in Seq(Operations) /\ Len(b) = 1 /\ b[1] = H(TRUE)
  BY Zenon, <1>1, Tuples
<1>3. /\ a \in Seq(Operations) /\ Len(a) = 4 * n + 1 /\ a[1] = I("original")
      /\ \A i \in 1..(4 * n) : a[1 + i] = sb[i]
      /\ e \in Seq(Operations) /\ Len(e) = 4 * n + 1 /\ e[1] = I("candidate")
      /\ \A i \in 1..(4 * n) : e[1 + i] = sc[i]
      /\ c \in Seq(Operations) /\ Len(c) = 5
  BY Zenon, StageIs, LoadIs, ChecksAreOperations DEF Names, Modules
<1>4. LongTry = ((a \o b) \o c) \o e
  BY Zenon DEF LongTry
<1> HIDE DEF a, b, c, e, n, sb, sc
<1> DEFINE u == a \o b
           v == u \o c
           w == v \o e
<1>5. IsJoin(Operations, a, b, u)
  BY Zenon, <1>2, <1>3, Joins
<1> HIDE DEF u
<1>6. IsJoin(Operations, u, c, v)
  <2>1. u \in Seq(Operations)
    BY Zenon, <1>5 DEF IsJoin
  <2>. QED  BY Zenon, <1>3, <2>1, Joins
<1> HIDE DEF v
<1>7. IsJoin(Operations, v, e, w)
  <2>1. v \in Seq(Operations)
    BY Zenon, <1>6 DEF IsJoin
  <2>. QED  BY Zenon, <1>3, <2>1, Joins
<1> HIDE DEF w
<1>8. Len(u) = 4 * n + 2 /\ Len(v) = 4 * n + 7 /\ Len(w) = 8 * n + 8
  BY <1>1, <1>2, <1>3, <1>5, <1>6, <1>7 DEF IsJoin
<1>9. \A i \in 1..(4 * n + 1) : w[i] = a[i]
  <2>1. \A i \in 1..(4 * n + 1) : i \in 1..(4 * n + 2) /\ i \in 1..(4 * n + 7)
    BY <1>1
  <2>. QED  BY Zenon, <1>3, <1>5, <1>6, <1>7, <1>8, <2>1 DEF IsJoin
<1>10. w[4 * n + 2] = H(TRUE)
  <2>1. /\ 4 * n + 2 \in 1..(4 * n + 2) /\ 4 * n + 2 \in 1..(4 * n + 7)
        /\ Len(a) + 1 = 4 * n + 2 /\ 1 \in 1..1
    BY <1>1, <1>3
  <2>2. u[Len(a) + 1] = b[1]
    BY Zenon, <1>2, <1>5, <2>1 DEF IsJoin
  <2>3. u[4 * n + 2] = H(TRUE)
    BY Zenon, <1>2, <2>1, <2>2
  <2>. QED  BY Zenon, <1>6, <1>7, <1>8, <2>1, <2>3 DEF IsJoin
<1>11. \A i \in 1..5 : w[4 * n + 2 + i] = c[i]
  <2> SUFFICES ASSUME NEW i \in 1..5
               PROVE  w[4 * n + 2 + i] = c[i]
    BY Zenon
  <2> DEFINE k == 4 * n + 2 + i
  <2>1. k \in 1..(4 * n + 7) /\ k = Len(u) + i
    BY <1>1, <1>8
  <2>2. v[Len(u) + i] = c[i]
    BY Zenon, <1>3, <1>6 DEF IsJoin
  <2> HIDE DEF k
  <2>3. w[k] = v[k]
    BY Zenon, <1>7, <1>8, <2>1 DEF IsJoin
  <2>. QED  BY Zenon, <2>1, <2>2, <2>3 DEF k
<1>12. /\ w[4 * n + 8] = I("candidate")
       /\ \A i \in 1..(4 * n) : w[4 * n + 8 + i] = sc[i]
  <2>1. \A i \in 1..(4 * n + 1) : w[4 * n + 7 + i] = e[i]
    BY Zenon, <1>3, <1>7, <1>8 DEF IsJoin
  <2>2. /\ 1 \in 1..(4 * n + 1) /\ 4 * n + 7 + 1 = 4 * n + 8
        /\ \A i \in 1..(4 * n) : /\ 1 + i \in 1..(4 * n + 1)
                                 /\ 4 * n + 7 + (1 + i) = 4 * n + 8 + i
    BY <1>1
  <2>. QED  BY ZenonT(60), <1>3, <2>1, <2>2
<1>13. /\ w[1] = I("original")
       /\ \A i \in 1..(4 * n) : w[1 + i] = sb[i]
  <2>1. /\ 1 \in 1..(4 * n + 1)
        /\ \A i \in 1..(4 * n) : 1 + i \in 1..(4 * n + 1)
    BY <1>1
  <2>. QED  BY Zenon, <1>3, <1>9, <2>1
<1>. QED  BY Zenon, <1>4, <1>7, <1>8, <1>10, <1>11, <1>12, <1>13
          DEF IsJoin, w, v, u, n, c, sb, sc

(* What follows the restoration in the qualification. *)
LongAfter ==
  Stage("restored", "original") \o <<H(TRUE), Do("complete")>>

(* What qualify.py does after the restoration: a stage, and the marker. *)
LEMMA LongAfterAt ==
  LET n == Len(Jobs)
  IN  /\ LongAfter \in Seq(Checks)
      /\ Len(LongAfter) = 4 * n + 3
      /\ LongAfter[1] = I("original")
      /\ \A i \in 1..(4 * n) : LongAfter[1 + i] = StageOps("restored")[i]
      /\ LongAfter[4 * n + 2] = H(TRUE)
      /\ LongAfter[4 * n + 3] = Do("complete")
<1> DEFINE n == Len(Jobs)
           a == Stage("restored", "original")
           b == <<H(TRUE), Do("complete")>>
           s == StageOps("restored")
<1>1. H(TRUE) \in Checks /\ Do("complete") \in Checks /\ n \in Nat
  BY Zenon, JobAt DEF Checks, H, Do
<1>2. /\ b \in Seq(Checks) /\ Len(b) = 2 /\ b[1] = H(TRUE)
      /\ b[2] = Do("complete")
  BY Zenon, <1>1, Tuples
<1>3. /\ a \in Seq(Checks) /\ Len(a) = 4 * n + 1 /\ a[1] = I("original")
      /\ \A i \in 1..(4 * n) : a[1 + i] = s[i]
  BY Zenon, StageIs DEF Names, Modules
<1>4. LongAfter = a \o b
  BY Zenon DEF LongAfter
<1> HIDE DEF a, b, n, s
<1> DEFINE u == a \o b
<1>5. IsJoin(Checks, a, b, u)
  BY Zenon, <1>2, <1>3, Joins
<1> HIDE DEF u
<1>6. /\ Len(u) = 4 * n + 3 /\ Len(a) + 1 = 4 * n + 2
      /\ Len(a) + 2 = 4 * n + 3 /\ 1 \in 1..(4 * n + 1)
      /\ \A i \in 1..(4 * n) : 1 + i \in 1..(4 * n + 1)
      /\ 1 \in 1..2 /\ 2 \in 1..2
  BY <1>1, <1>2, <1>3, <1>5 DEF IsJoin
<1>7. u[Len(a) + 1] = b[1] /\ u[Len(a) + 2] = b[2]
  BY Zenon, <1>2, <1>5, <1>6 DEF IsJoin
<1>8. u[4 * n + 2] = H(TRUE) /\ u[4 * n + 3] = Do("complete")
  BY Zenon, <1>2, <1>6, <1>7
<1>9. /\ u[1] = I("original")
      /\ \A i \in 1..(4 * n) : u[1 + i] = s[i]
  BY Zenon, <1>3, <1>5, <1>6 DEF IsJoin
<1>. QED  BY Zenon, <1>4, <1>5, <1>6, <1>8, <1>9 DEF IsJoin, u, n, s

(* The entry of a tuple of one. *)
LEMMA OneTuple ==
  ASSUME NEW S, NEW a \in S
  PROVE  <<a>> \in Seq(S) /\ Len(<<a>>) = 1 /\ <<a>>[1] = a
OBVIOUS

Before ==
  <<Do("mark"), I("original"), H(TRUE)>>

(* What precedes the try. *)
LEMMA BeforeIs ==
  /\ Before \in Seq(Operations) /\ Len(Before) = 3
  /\ Before[1] = Do("mark") /\ Before[2] = I("original") /\ Before[3] = H(TRUE)
<1> DEFINE a == Do("mark")
           b == I("original")
           c == H(TRUE)
<1>1. a \in Operations /\ b \in Operations /\ c \in Operations
  BY Zenon DEF Operations, Checks, Do, I, H, Modules
<1>2. Before = <<a, b, c>>
  BY Zenon DEF Before
<1> HIDE DEF a, b, c
<1>3. Before \in Seq(Operations) /\ Len(Before) = 3
      /\ Before[1] = a /\ Before[2] = b /\ Before[3] = c
  BY <1>1, <1>2
<1>. QED  BY Zenon, <1>3 DEF a, b, c

(* The parts of the scripts, *)
LEMMA ScriptIs ==
  /\ \A prog :
       /\ Script(prog)["before"] = Before
       /\ Script(prog)["restore"] = Restore
       /\ Script(prog)["terminal"] = <<Do("terminal")>>
       /\ prog # "qualify" => Script(prog)["after"] = <<Do("complete")>>
  /\ Script("qualify")["after"] = LongAfter
  /\ Script("probe")["try"] = ShortTry(<<>>)
  /\ Script("capture")["try"] = ShortTry(Workloads)
  /\ Script("qualify")["try"] = LongTry
<1>1. \A prog :
        /\ Script(prog)["before"] = Before
        /\ Script(prog)["restore"] = Restore
        /\ Script(prog)["terminal"] = <<Do("terminal")>>
        /\ prog # "qualify" => Script(prog)["after"] = <<Do("complete")>>
  BY Zenon DEF Script, Before
<1>2. Script("qualify")["after"] = LongAfter
  BY Zenon DEF Script, LongAfter
<1>3. Script("capture")["try"] = ShortTry(Workloads)
  BY Zenon DEF Script, ShortTry
<1>4. Script("qualify")["try"] = LongTry
  BY Zenon DEF Script, LongTry
<1>5. Script("probe")["try"] = ShortTry(<<>>)
  <2> DEFINE a == Load
             b == <<Do("preflight")>>
  <2>1. Script("probe")["try"] = a \o b
    BY Zenon DEF Script
  <2>2. Do("preflight") \in Operations
    BY Zenon DEF Operations, Checks, Do
  <2>3. a \in Seq(Operations) /\ b \in Seq(Operations)
    BY Zenon, <2>2, LoadIs, Tuples
  <2> HIDE DEF a, b
  <2>4. (a \o b) \o <<>> = a \o b
    BY <2>3
  <2>. QED  BY Zenon, <2>1, <2>4 DEF ShortTry, a, b
<1>. QED  BY Zenon, <1>1, <1>2, <1>3, <1>4, <1>5

(* Every part of a script is a sequence of operations, and not empty. *)
Length(prog, part) ==
  [before |-> 3,
   try |-> IF prog = "probe" THEN 6
           ELSE IF prog = "capture" THEN 6 + 5 * Len(Jobs)
           ELSE 8 * Len(Jobs) + 8,
   after |-> IF prog = "qualify" THEN 4 * Len(Jobs) + 3 ELSE 1,
   restore |-> 8,
   terminal |-> 1][part]

(* their lengths, *)
LEMMA LengthIs ==
  /\ \A prog : /\ Length(prog, "before") = 3 /\ Length(prog, "restore") = 8
               /\ Length(prog, "terminal") = 1
               /\ prog # "qualify" => Length(prog, "after") = 1
  /\ Length("qualify", "after") = 4 * Len(Jobs) + 3
  /\ Length("probe", "try") = 6
  /\ Length("capture", "try") = 6 + 5 * Len(Jobs)
  /\ Length("qualify", "try") = 8 * Len(Jobs) + 8
BY Zenon DEF Length

(* and that they are sequences of operations, none of them empty. *)
LEMMA PartsAre ==
  ASSUME NEW prog \in Progs, NEW part \in Parts
  PROVE  /\ Script(prog)[part] \in Seq(Operations)
         /\ Len(Script(prog)[part]) = Length(prog, part)
         /\ Length(prog, part) \in Nat \ {0}
<1> DEFINE n == Len(Jobs)
<1>1. n \in Nat
  BY Zenon, JobAt
<1>2. 5 * n = Len(Workloads) /\ <<>> \in Seq(Checks) /\ Len(<<>>) = 0
  BY JobAt, WorkloadAt
<1>3. part = "before" \/ part = "try" \/ part = "restore" \/ part = "terminal"
      \/ part = "after"
  BY Zenon DEF Parts
<1>n. 1 \in Nat \ {0} /\ 3 \in Nat \ {0} /\ 6 \in Nat \ {0} /\ 8 \in Nat \ {0}
  OBVIOUS
<1>4. /\ Do("mark") \in Operations /\ I("original") \in Operations
      /\ H(TRUE) \in Operations /\ Do("terminal") \in Operations
      /\ Do("complete") \in Operations
  BY Zenon DEF Operations, Checks, Do, I, H, Modules
<1>5. CASE part = "before"
  <2>s. Script(prog)[part] = Before
    BY Zenon, <1>5, ScriptIs
  <2>1. Length(prog, part) = 3
    BY Zenon, <1>5, LengthIs
  <2>. QED  BY Zenon, <1>n, <2>1, <2>s, BeforeIs
<1>6. CASE part = "restore"
  <2>1. Length(prog, part) = 8
    BY Zenon, <1>6, LengthIs
  <2>. QED  BY Zenon, <1>6, <1>n, <2>1, ScriptIs, RestoreIs
<1>7. CASE part = "terminal"
  <2>s. Script(prog)[part] = <<Do("terminal")>>
    BY Zenon, <1>7, ScriptIs
  <2>1. Length(prog, part) = 1
    BY Zenon, <1>7, LengthIs
  <2>. QED  BY Zenon, <1>4, <1>n, <2>1, <2>s, OneTuple
<1>8. CASE part = "after"
  <2>1. CASE prog = "qualify"
    <3>1. Length(prog, part) = 4 * n + 3
      BY Zenon, <1>8, <2>1, LengthIs
    <3>2. 4 * n + 3 \in Nat \ {0}
      BY <1>1
    <3>. QED  BY Zenon, <1>8, <2>1, <3>1, <3>2, ScriptIs, LongAfterAt,
              ChecksAreOperations
  <2>2. CASE prog # "qualify"
    <3>s. Script(prog)[part] = <<Do("complete")>>
      BY Zenon, <1>8, <2>2, ScriptIs
    <3>1. Length(prog, part) = 1
      BY Zenon, <1>8, <2>2, LengthIs
    <3>. QED  BY Zenon, <1>4, <1>n, <3>1, <3>s, OneTuple
  <2>. QED  BY Zenon, <2>1, <2>2
<1>9. CASE part = "try"
  <2>1. CASE prog = "probe"
    <3>1. Length(prog, part) = 6
      BY Zenon, <1>9, <2>1, LengthIs
    <3> DEFINE none == <<>>
    <3>2. none \in Seq(Checks) /\ 6 + Len(none) = 6
      OBVIOUS
    <3>3. Script(prog)[part] = ShortTry(none)
      BY Zenon, <1>9, <2>1, ScriptIs
    <3> HIDE DEF none
    <3>. QED  BY Zenon, <1>n, <3>1, <3>2, <3>3, ShortTryAt
  <2>2. CASE prog = "capture"
    <3>1. Length(prog, part) = 6 + 5 * n
      BY Zenon, <1>9, <2>2, LengthIs
    <3>2. 6 + 5 * n \in Nat \ {0}
      BY <1>1
    <3>. QED  BY Zenon, <1>2, <1>9, <2>2, <3>1, <3>2, ScriptIs, ShortTryAt,
              WorkloadAt
  <2>3. CASE prog = "qualify"
    <3>1. Length(prog, part) = 8 * n + 8
      BY Zenon, <1>9, <2>3, LengthIs
    <3>2. 8 * n + 8 \in Nat \ {0}
      BY <1>1
    <3>. QED  BY Zenon, <1>9, <2>3, <3>1, <3>2, ScriptIs, LongTryAt
  <2>. QED  BY Zenon, <2>1, <2>2, <2>3 DEF Progs
<1>. QED  BY Zenon, <1>3, <1>5, <1>6, <1>7, <1>8, <1>9

(* The transitions of the scripts. *)
LEMMA ChecksTransitNothing ==
  ASSUME NEW s \in Seq(Checks), NEW i \in 1..Len(s)
  PROVE  s[i].op # "transition"
<1>1. s[i] \in Checks
  <2> HIDE DEF Checks
  <2>. QED  OBVIOUS
<1>. QED  BY Zenon, <1>1 DEF Checks

(* A script unloads and loads at two places of the try and at two of the   *)
(* restoration, and nowhere else.                                          *)
LEMMA TransitionPlaces ==
  ASSUME NEW prog \in Progs, NEW part \in Parts,
         NEW pc \in 1..Length(prog, part),
         Script(prog)[part][pc].op = "transition"
  PROVE  \/ part = "restore" /\ pc = 3 /\ Script(prog)[part][pc].argv = "rmmod"
         \/ part = "restore" /\ pc = 5 /\ Script(prog)[part][pc].argv = "modprobe"
         \/ /\ part = "try" /\ pc = Ahead(prog) + 1
            /\ Script(prog)[part][pc].argv = "rmmod"
         \/ /\ part = "try" /\ pc = Ahead(prog) + 3
            /\ Script(prog)[part][pc].argv = "insmod"
<1> DEFINE n == Len(Jobs)
           t == "transition"
<1>1. n \in Nat
  BY Zenon, JobAt
<1>2. /\ T("rmmod").argv = "rmmod" /\ T("insmod").argv = "insmod"
      /\ T("modprobe").argv = "modprobe"
      /\ \A x : H(x).op # t /\ I(x).op # t
      /\ Do("mark").op # t /\ Do("terminal").op # t /\ Do("complete").op # t
      /\ Do("loaded").op # t /\ Do("restored").op # t /\ Do("preflight").op # t
  BY Zenon DEF T, H, I, Do
<1>3. part \in Parts \ {"restore", "try"} \/ part = "restore" \/ part = "try"
  BY Zenon
<1>4. CASE part = "restore"
  <2>1. pc \in 1..8
    BY Zenon, <1>4, LengthIs
  <2>2. pc = 1 \/ pc = 2 \/ pc = 3 \/ pc = 4 \/ pc = 5 \/ pc = 6 \/ pc = 7 \/ pc = 8
    BY <2>1
  <2>3. Restore[pc].op = t /\ Script(prog)[part] = Restore
    BY Zenon, <1>4, ScriptIs
  <2>. QED  BY ZenonT(60), <1>2, <1>4, <2>2, <2>3, RestoreIs
<1>5. CASE part \in Parts \ {"restore", "try"}
  <2>1. CASE part = "before"
    <3>1. pc \in 1..3
      BY Zenon, <2>1, LengthIs
    <3>2. pc = 1 \/ pc = 2 \/ pc = 3
      BY <3>1
    <3>s. Script(prog)[part] = Before
      BY Zenon, <2>1, ScriptIs
    <3>4. \/ Script(prog)[part][pc] = Do("mark")
          \/ Script(prog)[part][pc] = I("original")
          \/ Script(prog)[part][pc] = H(TRUE)
      BY Zenon, <3>2, <3>s, BeforeIs
    <3>. QED  BY Zenon, <1>2, <3>4
  <2>2. CASE part = "terminal" \/ (part = "after" /\ prog # "qualify")
    <3>1. pc \in 1..1
      BY Zenon, <2>2, LengthIs
    <3>2. pc = 1
      BY <3>1
    <3>3. Do("terminal") \in Checks /\ Do("complete") \in Checks
      BY Zenon DEF Checks, Do
    <3>s. \/ Script(prog)[part] = <<Do("terminal")>>
          \/ Script(prog)[part] = <<Do("complete")>>
      BY Zenon, <2>2, ScriptIs
    <3>4. \/ Script(prog)[part][pc] = Do("terminal")
          \/ Script(prog)[part][pc] = Do("complete")
      BY Zenon, <3>2, <3>3, <3>s, OneTuple
    <3>. QED  BY Zenon, <1>2, <3>4
  <2>3. CASE part = "after" /\ prog = "qualify"
    <3>1. pc \in 1..(4 * n + 3)
      BY Zenon, <2>3, LengthIs
    <3>. QED  BY Zenon, <2>3, <3>1, ScriptIs, LongAfterAt, ChecksTransitNothing
  <2>. QED  BY Zenon, <1>5, <2>1, <2>2, <2>3 DEF Parts
<1>6. CASE part = "try" /\ prog # "qualify"
  <2> DEFINE rest == IF prog = "probe" THEN <<>> ELSE Workloads
             s == ShortTry(rest)
  <2>1. rest \in Seq(Checks)
    <3>1. <<>> \in Seq(Checks)
      OBVIOUS
    <3>. QED  BY Zenon, <3>1, WorkloadAt
  <2>2. Script(prog)[part] = s
    BY Zenon, <1>6, ScriptIs DEF Progs
  <2>3. pc \in 1..Len(s)
    BY Zenon, <2>2, PartsAre
  <2> HIDE DEF rest, s
  <2>4. /\ Len(s) = 6 + Len(rest) /\ \A i \in 1..5 : s[i] = Load[i]
        /\ s[6] = Do("preflight")
        /\ \A i \in 1..Len(rest) : s[6 + i] = rest[i]
    BY Zenon, <2>1, ShortTryAt DEF s
  <2>5. CASE pc \in 1..5
    <3>1. pc = 1 \/ pc = 2 \/ pc = 3 \/ pc = 4 \/ pc = 5
      BY <2>5
    <3>2. Ahead(prog) = 0 /\ 0 + 1 = 1 /\ 0 + 3 = 3
      BY <1>6 DEF Ahead
    <3>3. s[pc] = Load[pc]
      BY Zenon, <2>4, <2>5
    <3>. QED  BY ZenonT(60), <1>2, <1>6, <2>2, <3>1, <3>2, <3>3, LoadIs
  <2>6. CASE pc = 6
    BY Zenon, <1>2, <2>2, <2>4, <2>6
  <2>7. CASE pc > 6
    <3> DEFINE i == pc - 6
    <3>1. i \in 1..Len(rest) /\ pc = 6 + i
      BY <2>1, <2>3, <2>4, <2>7
    <3> HIDE DEF i
    <3>. QED  BY Zenon, <2>1, <2>2, <2>4, <3>1, ChecksTransitNothing
  <2>8. pc \in 1..5 \/ pc = 6 \/ pc > 6
    BY <2>1, <2>3, <2>4
  <2>. QED  BY Zenon, <2>5, <2>6, <2>7, <2>8
<1>7. CASE part = "try" /\ prog = "qualify"
  <2> DEFINE s == LongTry
             sb == StageOps("baseline")
             sc == StageOps("candidate")
  <2>1. Script(prog)[part] = s /\ pc \in 1..(8 * n + 8)
    BY Zenon, <1>7, ScriptIs, LengthIs
  <2>2. /\ s[1] = I("original") /\ \A i \in 1..(4 * n) : s[1 + i] = sb[i]
        /\ s[4 * n + 2] = H(TRUE)
        /\ \A i \in 1..5 : s[4 * n + 2 + i] = Load[i]
        /\ s[4 * n + 8] = I("candidate")
        /\ \A i \in 1..(4 * n) : s[4 * n + 8 + i] = sc[i]
    BY Zenon, LongTryAt
  <2>3. /\ sb \in Seq(Checks) /\ Len(sb) = 4 * n
        /\ sc \in Seq(Checks) /\ Len(sc) = 4 * n
    BY Zenon, StageAt DEF Names
  <2>4. Ahead(prog) = 4 * n + 2
    BY Zenon, <1>7 DEF Ahead
  <2> HIDE DEF s, sb, sc, n
  <2>5. CASE pc = 1 \/ pc = 4 * n + 2 \/ pc = 4 * n + 8
    <3>1. Script(prog)[part][pc] = I("original") \/ Script(prog)[part][pc] = H(TRUE)
          \/ Script(prog)[part][pc] = I("candidate")
      BY Zenon, <2>1, <2>2, <2>5
    <3>. QED  BY Zenon, <1>2, <3>1
  <2>6. CASE pc > 1 /\ pc < 4 * n + 2
    <3> DEFINE i == pc - 1
    <3>1. i \in 1..(4 * n) /\ pc = 1 + i
      BY <1>1, <2>1, <2>6
    <3> HIDE DEF i
    <3>2. sb[i].op # t
      BY Zenon, <2>3, <3>1, ChecksTransitNothing
    <3>. QED  BY Zenon, <2>1, <2>2, <3>1, <3>2
  <2>7. CASE pc > 4 * n + 8
    <3> DEFINE i == pc - (4 * n + 8)
    <3>1. i \in 1..(4 * n) /\ pc = 4 * n + 8 + i
      BY <1>1, <2>1, <2>7
    <3> HIDE DEF i
    <3>2. sc[i].op # t
      BY Zenon, <2>3, <3>1, ChecksTransitNothing
    <3>. QED  BY Zenon, <2>1, <2>2, <3>1, <3>2
  <2>8. CASE pc > 4 * n + 2 /\ pc < 4 * n + 8
    <3> DEFINE i == pc - (4 * n + 2)
    <3>1. /\ i = 1 \/ i = 2 \/ i = 3 \/ i = 4 \/ i = 5
          /\ i \in 1..5 /\ pc = 4 * n + 2 + i
      BY <1>1, <2>1, <2>8
    <3> HIDE DEF i
    <3>2. s[pc] = Load[i]
      BY Zenon, <2>2, <3>1
    <3>. QED  BY ZenonT(60), <1>2, <1>7, <2>1, <2>4, <3>1, <3>2, LoadIs
  <2>9. \/ pc = 1 \/ pc = 4 * n + 2 \/ pc = 4 * n + 8
        \/ pc > 1 /\ pc < 4 * n + 2
        \/ pc > 4 * n + 8
        \/ pc > 4 * n + 2 /\ pc < 4 * n + 8
    BY <1>1, <2>1
  <2>. QED  BY Zenon, <2>5, <2>6, <2>7, <2>8, <2>9
<1>. QED  BY Zenon, <1>3, <1>4, <1>5, <1>6, <1>7

-----------------------------------------------------------------------------
(* How a process moves. *)
Alike(p, q) ==
  /\ q.prog = p.prog /\ q.changed = p.changed /\ q.restored = p.restored
  /\ q.failed = p.failed /\ q.out = p.out /\ q.saw = p.saw

(* What part follows a part. *)
LEMMA FollowingIs ==
  ASSUME NEW p
  PROVE  /\ p.part = "before" => Following(p) = "try"
         /\ p.part = "try" /\ p.changed => Following(p) = "restore"
         /\ p.part = "try" /\ ~p.changed => Following(p) = "terminal"
         /\ p.part = "restore" => Following(p) = "terminal"
         /\ p.part = "terminal" /\ (p.failed \/ ~p.restored) =>
              Following(p) = "ended"
         /\ p.part = "terminal" /\ ~(p.failed \/ ~p.restored) =>
              Following(p) = "after"
         /\ p.part = "after" => Following(p) = "ended"
<1>1. p.part = "before" => Following(p) = "try"
  BY Zenon DEF Following
<1>2. p.part = "try" => Following(p) = IF p.changed THEN "restore" ELSE "terminal"
  BY Zenon DEF Following
<1>3. p.part = "restore" => Following(p) = "terminal"
  BY Zenon DEF Following
<1>4. p.part = "terminal" =>
        Following(p) = IF p.failed \/ ~p.restored THEN "ended" ELSE "after"
  BY Zenon DEF Following
<1>5. p.part = "after" => Following(p) = "ended"
  BY Zenon DEF Following
<1>. QED  BY Zenon, <1>1, <1>2, <1>3, <1>4, <1>5

(* The end of a part keeps all else of the process, *)
LEMMA LeaveIs ==
  ASSUME NEW p \in Process, p.part \in Parts
  PROVE  /\ Leave(p) \in Process /\ Alike(p, Leave(p))
         /\ Leave(p).part = Following(p) /\ Leave(p).pc = 1
<1>1. Following(p) \in Parts \cup {"off", "ended", "killed"}
  <2>1. \/ Following(p) = "try" \/ Following(p) = "restore"
        \/ Following(p) = "terminal" \/ Following(p) = "ended"
        \/ Following(p) = "after"
    BY Zenon, FollowingIs DEF Parts
  <2>. QED  BY Zenon, <2>1 DEF Parts
<1>2. 1 \in Nat
  OBVIOUS
<1>. QED  BY Zenon, <1>1, <1>2 DEF Leave, Process, Alike

(* and so does a step, which ends a part at its last operation only. *)
LEMMA StepIs ==
  ASSUME NEW p \in Process, p.part \in Parts,
         p.pc \in 1..Length(p.prog, p.part)
  PROVE  /\ Step(p, 1) \in Process /\ Alike(p, Step(p, 1))
         /\ \/ /\ p.pc < Length(p.prog, p.part)
               /\ Step(p, 1).part = p.part /\ Step(p, 1).pc = p.pc + 1
            \/ /\ p.pc = Length(p.prog, p.part)
               /\ Step(p, 1).part = Following(p) /\ Step(p, 1).pc = 1
<1> DEFINE l == Length(p.prog, p.part)
<1>1. p.prog \in Progs /\ p.pc \in Nat
  BY Zenon DEF Process
<1>2. Len(Ops(p)) = l /\ l \in Nat
  BY Zenon, <1>1, PartsAre DEF Ops
<1>3. p.pc \in 1..l
  BY Zenon
<1> HIDE DEF l
<1>4. CASE p.pc + 1 > l
  <2>1. p.pc = l
    BY <1>2, <1>3, <1>4
  <2>2. Step(p, 1) = Leave(p)
    BY Zenon, <1>2, <1>4 DEF Step
  <2>. QED  BY Zenon, <2>1, <2>2, LeaveIs DEF l
<1>5. CASE ~(p.pc + 1 > l)
  <2>1. p.pc < l /\ p.pc + 1 \in Nat
    BY <1>2, <1>3, <1>5
  <2>2. Step(p, 1) = [p EXCEPT !.pc = @ + 1]
    BY Zenon, <1>2, <1>5 DEF Step
  <2>3. Step(p, 1) \in Process /\ Alike(p, Step(p, 1))
        /\ Step(p, 1).part = p.part /\ Step(p, 1).pc = p.pc + 1
    BY Zenon, <2>1, <2>2 DEF Process, Alike
  <2>. QED  BY Zenon, <2>1, <2>3 DEF l
<1>. QED  BY Zenon, <1>4, <1>5

(* A process that runs is at an operation of its script. *)
LEMMA Runs ==
  ASSUME SwapTyped, Running
  PROVE  /\ proc \in Process /\ proc.part \in Parts /\ proc.prog \in Progs
         /\ proc.pc \in 1..Length(proc.prog, proc.part)
         /\ Ops(proc) = Script(proc.prog)[proc.part]
         /\ Op = Script(proc.prog)[proc.part][proc.pc]
         /\ Op \in Operations
<1>1. /\ proc \in Process /\ proc.part \in Parts /\ proc.prog \in Progs
      /\ proc.pc \in 1..Len(Ops(proc))
  BY Zenon DEF SwapTyped, Running, Process
<1>2. /\ Ops(proc) = Script(proc.prog)[proc.part]
      /\ Op = Script(proc.prog)[proc.part][proc.pc]
  BY Zenon DEF Ops, Op
<1>3. /\ Ops(proc) \in Seq(Operations)
      /\ Len(Ops(proc)) = Length(proc.prog, proc.part)
  BY Zenon, <1>1, <1>2, PartsAre
<1>4. Ops(proc)[proc.pc] \in Operations
  <2> HIDE DEF Operations
  <2>. QED  BY <1>1, <1>3
<1>. QED  BY Zenon, <1>1, <1>2, <1>3, <1>4

(* What a failure leaves. *)
NotDone == {e \in Event : e.event # "complete"}

(* A log that is given no completion marker does not end with one, unless  *)
(* it is given nothing.                                                    *)
LEMMA LastEvent ==
  ASSUME NEW s \in Seq(Event), NEW x \in Seq(NotDone), NEW y \in Seq(NotDone)
  PROVE  LET t == s \o x \o y
         IN  /\ t \in Seq(Event)
             /\ t = s \/ (t # <<>> /\ t[Len(t)].event # "complete")
<1> DEFINE t == s \o x \o y
<1>1. \A e \in NotDone : e \in Event /\ e.event # "complete"
  BY Zenon DEF NotDone
<1> HIDE DEF Event, NotDone
<1>2. x \in Seq(Event) /\ y \in Seq(Event)
  BY <1>1
<1>3. t \in Seq(Event)
  BY <1>2
<1>4. CASE y # <<>>
  <2>1. Len(y) > 0 /\ Len(t) = Len(s \o x) + Len(y)
    BY <1>2, <1>4
  <2>2. t[Len(t)] = y[Len(y)] /\ t # <<>>
    BY <1>2, <2>1
  <2>3. y[Len(y)] \in NotDone
    BY <2>1
  <2>. QED  BY Zenon, <1>1, <1>3, <2>2, <2>3
<1>5. CASE y = <<>> /\ x # <<>>
  <2>1. t = s \o x
    BY <1>2, <1>5
  <2>2. Len(x) > 0 /\ Len(t) = Len(s) + Len(x)
    BY <1>2, <1>5, <2>1
  <2>3. t[Len(t)] = x[Len(x)] /\ t # <<>>
    BY <1>2, <2>1, <2>2
  <2>4. x[Len(x)] \in NotDone
    BY <2>2
  <2>. QED  BY Zenon, <1>1, <1>3, <2>3, <2>4
<1>6. CASE y = <<>> /\ x = <<>>
  <2>1. t = s
    BY <1>6
  <2>. QED  BY Zenon, <1>3, <2>1
<1>. QED  BY Zenon, <1>4, <1>5, <1>6

Failing(p) ==
  /\ proc' \in Process /\ proc'.failed = TRUE /\ proc'.prog = p.prog
  /\ proc'.saw = p.saw
  /\ p.part = "try" => proc'.part \in {"restore", "terminal"} /\ proc'.pc = 1
  /\ p.part = "restore" => \/ proc'.part = "terminal" /\ proc'.pc = 1
                           \/ proc'.part = "ended"
  /\ p.part \in {"before", "terminal", "after"} => proc'.part = "ended"
  /\ log' \in Seq(Event)
  /\ Ends("complete")' => log' = log

(* An exception leaves a process that has failed: in the restoration after *)
(* a try that had begun the exchange, at the terminal record, or ended;    *)
(* and no completion marker.                                               *)
LEMMA Raises ==
  ASSUME NEW p \in Process, p.part \in Parts, log \in Seq(Event),
         NEW events \in Seq(NotDone), Raise(p, events)
  PROVE  Failing(p)
<1> DEFINE q == [p EXCEPT !.failed = TRUE]
           r == [q EXCEPT !.part = "ended"]
<1>1. /\ q \in Process /\ q.part = p.part /\ q.failed = TRUE /\ q.prog = p.prog
      /\ q.saw = p.saw /\ q.changed = p.changed
  BY Zenon DEF Process
<1>2. /\ r \in Process /\ r.part = "ended" /\ r.failed = TRUE /\ r.prog = p.prog
      /\ r.saw = p.saw
  BY Zenon DEF Process
<1>3. FailureEvent(p.part) \in Seq(NotDone) /\ <<>> \in Seq(NotDone)
  <2>1. /\ [event |-> "failed"] \in NotDone
        /\ [event |-> "restore-incomplete"] \in NotDone
        /\ [event |-> "restored-stage-failed"] \in NotDone
    BY Zenon DEF NotDone, Event
  <2>2. \/ FailureEvent(p.part) = <<[event |-> "failed"]>>
        \/ FailureEvent(p.part) = <<[event |-> "restore-incomplete"]>>
        \/ FailureEvent(p.part) = <<[event |-> "restored-stage-failed"]>>
        \/ FailureEvent(p.part) = <<>>
    BY Zenon DEF FailureEvent, Parts
  <2>3. <<>> \in Seq(NotDone)
    OBVIOUS
  <2>. QED  BY Zenon, <2>1, <2>2, <2>3, OneTuple
<1>4. \/ /\ proc' = IF p.part \in {"try", "restore"} THEN Leave(q) ELSE r
         /\ log' = log \o events \o FailureEvent(p.part)
      \/ /\ proc' = IF p.part = "try" THEN Leave(q) ELSE r
         /\ log' = log \o events
  BY Zenon DEF Raise
<1>5. /\ Leave(q) \in Process /\ Alike(q, Leave(q))
      /\ Leave(q).part = Following(q) /\ Leave(q).pc = 1
  BY Zenon, <1>1, LeaveIs
<1>6. /\ p.part = "try" => Following(q) \in {"restore", "terminal"}
      /\ p.part = "restore" => Following(q) = "terminal"
  BY Zenon, <1>1, FollowingIs
<1> HIDE DEF q, r
<1>7. \/ proc' = Leave(q) /\ p.part \in {"try", "restore"}
      \/ proc' = r /\ p.part # "try"
  BY Zenon, <1>4
<1>8. /\ proc' \in Process /\ proc'.failed = TRUE /\ proc'.prog = p.prog
      /\ proc'.saw = p.saw
      /\ p.part = "try" => proc'.part \in {"restore", "terminal"} /\ proc'.pc = 1
      /\ p.part = "restore" => \/ proc'.part = "terminal" /\ proc'.pc = 1
                               \/ proc'.part = "ended"
      /\ p.part \in {"before", "terminal", "after"} => proc'.part = "ended"
  <2>1. CASE proc' = Leave(q) /\ p.part \in {"try", "restore"}
    BY Zenon, <1>1, <1>5, <1>6, <2>1 DEF Alike
  <2>2. CASE proc' = r /\ p.part # "try"
    BY Zenon, <1>2, <2>2
  <2>. QED  BY Zenon, <1>7, <2>1, <2>2
<1>9. log \o events \o <<>> = log \o events
  <2>1. \A e \in NotDone : e \in Event
    BY Zenon DEF NotDone
  <2> HIDE DEF Event, NotDone
  <2>2. events \in Seq(Event)
    BY <2>1
  <2>. QED  BY <2>2
<1>10. /\ log' \in Seq(Event)
       /\ log' = log \/ (log' # <<>> /\ log'[Len(log')].event # "complete")
  BY Zenon, <1>3, <1>4, <1>9, LastEvent
<1>. QED  BY Zenon, <1>8, <1>10 DEF Failing, Ends

(* The length of the part a process is in. *)
LEMMA OpsLength ==
  ASSUME NEW p \in Process, p.part \in Parts
  PROVE  /\ Len(Ops(p)) = Length(p.prog, p.part)
         /\ 1 \in 1..Len(Ops(p))
<1>1. p.prog \in Progs
  BY Zenon DEF Process
<1>2. Len(Ops(p)) = Length(p.prog, p.part) /\ Len(Ops(p)) \in Nat \ {0}
  BY Zenon, <1>1, PartsAre DEF Ops
<1>3. 1 \in 1..Len(Ops(p))
  BY <1>2
<1>. QED  BY Zenon, <1>2, <1>3

(* A process that runs is past the end of no completed log. *)
LEMMA NotEnded ==
  ASSUME SwapInv, Running, Ends("complete")
  PROVE  /\ attempted /\ story = TheStory
         /\ proc.part = "before" /\ proc.pc = 1
BY Zenon DEF SwapInv, Told, Running

(* An exception keeps the invariant, whatever the operation that raised it *)
(* did to the module.                                                      *)
LEMMA FailingKeepsInv ==
  ASSUME SwapInv, Running, NEW p \in Process, p.part = proc.part,
         p.prog = proc.prog, p.saw => proc.saw \/ faulted, Failing(p),
         module' \in Modules, story' \in Seq(Scene),
         story' = story \/ proc.part \in {"try", "restore"},
         attempted' = attempted, faulted => faulted'
  PROVE  SwapInv'
<1>1. SwapTyped /\ proc.part \in Parts
  BY Zenon, Runs DEF SwapInv
<1>2. /\ proc' \in Process /\ proc'.failed = TRUE /\ proc'.prog = proc.prog
      /\ proc'.saw = p.saw /\ log' \in Seq(Event)
      /\ Ends("complete")' => log' = log
  BY Zenon DEF Failing
<1>3. /\ proc'.part \in {"restore", "terminal", "ended"}
      /\ proc'.part \in {"restore", "terminal"} =>
           proc'.pc = 1 /\ proc.part \in {"try", "restore"}
      /\ proc'.part = "restore" => proc.part = "try"
  BY Zenon, <1>1 DEF Failing, Parts
<1>4. SwapTyped'
  <2>1. Running' => proc'.part \in Parts /\ proc'.pc = 1
    BY Zenon, <1>3 DEF Running, Parts
  <2>2. Running' => proc'.pc \in 1..Len(Ops(proc'))
    BY Zenon, <1>2, <2>1, OpsLength
  <2>3. (Running => proc.pc \in 1..Len(Ops(proc)))'
    BY Zenon, <2>2
  <2>. QED  BY Zenon, <1>2, <2>3 DEF SwapTyped
<1>5. proc.part \in {"try", "restore"} => attempted
  BY Zenon DEF SwapInv, Marked
<1>6. Marked' /\ OneLoad'
  <2>1. ~attempted => story' = <<>>
    BY Zenon, <1>5 DEF SwapInv, Marked
  <2>2. <<"candidate">> \in Range(story') => attempted
    <3>1. Range(<<>>) = {}
      BY DEF Range
    <3>. QED  BY Zenon, <2>1, <3>1
  <2>. QED  BY Zenon, <1>3, <1>5, <2>1, <2>2 DEF Marked, OneLoad
<1>7. Known'
  <2>1. proc'.part # "before" /\ proc'.part # "try"
        /\ (proc'.part = "restore" => proc'.pc # 3)
    <3>1. 1 # 3
      OBVIOUS
    <3>. QED  BY Zenon, <1>3, <3>1
  <2>. QED  BY Zenon, <2>1 DEF Known
<1>8. Stopped'
  <2>1. p.saw => faulted
    BY Zenon DEF SwapInv, Stopped
  <2>. QED  BY Zenon, <1>2, <1>3, <2>1 DEF Stopped
<1>9. OnTrack'
  BY Zenon, <1>2, <1>3 DEF OnTrack
<1>10. Told'
  <2>1. SUFFICES ASSUME Ends("complete")'
                 PROVE  /\ attempted' /\ TheStory' = story'
                        /\ proc'.part = "ended"
    BY Zenon DEF Told
  <2>2. Ends("complete")
    BY Zenon, <1>2, <2>1 DEF Ends
  <2>3. /\ attempted /\ story = TheStory /\ proc.part = "before"
    BY Zenon, <2>2, NotEnded
  <2>4. TheStory' = TheStory
    BY Zenon, <1>2 DEF TheStory
  <2>. QED  BY Zenon, <1>3, <2>3, <2>4
<1>. QED  BY Zenon, <1>4, <1>6, <1>7, <1>8, <1>9, <1>10 DEF SwapInv

(***************************************************************************)
(* What happens around a process: where the story has got to speaks of the *)
(* decoder only where it is about to run.                                  *)
(***************************************************************************)
LEMMA AroundKeepsInv ==
  ASSUME SwapInv, proc' = proc, module' = module, story' = story, log' = log,
         attempted' = attempted, faulted => faulted',
         \/ "decoder" \in holders' <=> "decoder" \in holders
         \/ OnTrack'
  PROVE  SwapInv'
<1>1. SwapTyped' /\ Marked' /\ OneLoad' /\ Known'
  BY Zenon DEF SwapInv, SwapTyped, Running, Ops, Marked, OneLoad, Known
<1>2. Stopped' /\ Told'
  BY Zenon DEF SwapInv, Stopped, Told, Ends, TheStory
<1>3. OnTrack'
  <2>1. SUFFICES ASSUME "decoder" \in holders' <=> "decoder" \in holders
                 PROVE  OnTrack'
    BY Zenon
  <2>2. \A told, lines, d : /\ Decoding(told, lines, d) => Decoding(told, lines, d)'
                            /\ Shown(told, lines, d) => Shown(told, lines, d)'
    BY Zenon, <2>1 DEF Decoding, Shown
  <2>3. \A at, o, told, lines :
          /\ InStage(at, o, told, lines) => InStage(at, o, told, lines)'
          /\ InWorkloads(at, o, told, lines) => InWorkloads(at, o, told, lines)'
    <3> SUFFICES ASSUME NEW at, NEW o, NEW told, NEW lines
                 PROVE  /\ InStage(at, o, told, lines) => InStage(at, o, told, lines)'
                        /\ InWorkloads(at, o, told, lines) =>
                             InWorkloads(at, o, told, lines)'
      BY Zenon
    <3>1. ASSUME InStage(at, o, told, lines)
          PROVE  InStage(at, o, told, lines)'
      BY <2>2, <3>1 DEF InStage
    <3>2. ASSUME InWorkloads(at, o, told, lines)
          PROVE  InWorkloads(at, o, told, lines)'
      BY <2>2, <3>2 DEF InWorkloads
    <3>. QED  BY Zenon, <3>1, <3>2
  <2>4. \A at, o, told :
          /\ Loading(at, o, told) => Loading(at, o, told)'
          /\ Returning(at, told) => Returning(at, told)'
    BY DEF Loading, Returning
  <2>5. \A at : InTry(at) => InTry(at)'
    <3>1. \A at : ProbeTry(at) => ProbeTry(at)'
      BY Zenon, <2>4 DEF ProbeTry
    <3>2. \A at : CaptureTry(at) => CaptureTry(at)'
      BY Zenon, <2>3, <2>4 DEF CaptureTry
    <3>3. \A at : QualifyTry(at) => QualifyTry(at)'
      BY Zenon, <2>3, <2>4 DEF QualifyTry
    <3>. QED  BY Zenon, <3>1, <3>2, <3>3 DEF InTry
  <2>6. \A at : InAfter(at) => InAfter(at)'
    BY Zenon, <2>3 DEF InAfter, TheStory
  <2>7. \A part, at : Path(part, at) => Path(part, at)'
    BY Zenon, <2>4, <2>5, <2>6 DEF Path
  <2>. QED  BY Zenon, <2>7 DEF SwapInv, OnTrack
<1>. QED  BY Zenon, <1>1, <1>2, <1>3 DEF SwapInv

(* The first step of a process, and its end by the guard. *)
LEMMA StartKeepsInv == SwapInv /\ Start => SwapInv'
<1>1. SUFFICES ASSUME SwapInv, Start  PROVE SwapInv'
  OBVIOUS
<1> DEFINE q == [Idle(proc.prog) EXCEPT !.part = "before"]
<1>2. proc' = q /\ proc.prog \in Progs
  BY Zenon, <1>1 DEF Start, SwapInv, SwapTyped, Process
<1>3. 1 \in Nat /\ ~(1 > 1) /\ 1 # 3
  OBVIOUS
<1>4. /\ q \in Process /\ q.part = "before" /\ q.pc = 1 /\ q.failed = FALSE
      /\ q.saw = FALSE /\ q.prog = proc.prog /\ q.restored = FALSE
  BY Zenon, <1>2, <1>3 DEF Idle, Process, Parts, Outs
<1> HIDE DEF q
<1>5. /\ module' = module /\ story' = story /\ log' = log
      /\ attempted' = attempted /\ faulted' = faulted
  BY Zenon, <1>1 DEF Start, device, disk
<1>6. SwapTyped'
  <2>1. proc'.pc \in 1..Len(Ops(proc'))
    BY Zenon, <1>2, <1>4, OpsLength DEF Parts
  <2>2. (Running => proc.pc \in 1..Len(Ops(proc)))'
    BY Zenon, <2>1
  <2>. QED  BY Zenon, <1>1, <1>2, <1>4, <1>5, <2>2 DEF SwapInv, SwapTyped
<1>7. Marked' /\ OneLoad' /\ Known' /\ Stopped'
  BY Zenon, <1>1, <1>2, <1>3, <1>4, <1>5
     DEF SwapInv, Marked, OneLoad, Known, Stopped
<1>8. OnTrack'
  BY Zenon, <1>2, <1>3, <1>4 DEF OnTrack, Path
<1>9. Told'
  <2>1. TheStory' = TheStory
    BY Zenon, <1>2, <1>4 DEF TheStory
  <2>. QED  BY Zenon, <1>1, <1>2, <1>4, <1>5, <2>1 DEF SwapInv, Told, Ends
<1>. QED  BY Zenon, <1>6, <1>7, <1>8, <1>9 DEF SwapInv

(* The guard kills the program. *)
LEMMA GuardKillsKeepsInv == SwapInv /\ GuardKills => SwapInv'
<1>1. SUFFICES ASSUME SwapInv, GuardKills  PROVE SwapInv'
  OBVIOUS
<1> DEFINE q == [proc EXCEPT !.part = "killed"]
<1>2. proc' = q /\ proc \in Process
  BY Zenon, <1>1 DEF GuardKills, SwapInv, SwapTyped
<1>3. /\ q \in Process /\ q.part = "killed" /\ q.prog = proc.prog
      /\ q.saw = proc.saw /\ q.failed = proc.failed
  BY Zenon, <1>2 DEF Process
<1> HIDE DEF q
<1>4. /\ module' = module /\ story' = story /\ log' = log
      /\ attempted' = attempted /\ faulted' = faulted
  BY Zenon, <1>1 DEF GuardKills, disk
<1>5. SwapTyped' /\ Marked' /\ OneLoad' /\ Known' /\ Stopped' /\ OnTrack'
  BY Zenon, <1>1, <1>2, <1>3, <1>4
     DEF SwapInv, SwapTyped, Running, Marked, OneLoad, Known, Stopped, OnTrack,
         Path
<1>6. Told'
  <2>1. TheStory' = TheStory
    BY Zenon, <1>2, <1>3 DEF TheStory
  <2>. QED  BY Zenon, <1>1, <1>2, <1>3, <1>4, <2>1 DEF SwapInv, Told, Ends
<1>. QED  BY Zenon, <1>5, <1>6 DEF SwapInv

-----------------------------------------------------------------------------
(* An operation that succeeds. *)
Performs(op) ==
  /\ op.op = "healthy" => holders = {}
  /\ op.op = "identity" => module = op.which
  /\ op.op = "judge" => proc.out = "right"
  /\ op.op # "decode" => holders' = holders /\ proc'.out = proc.out
  /\ op.op = "decode" => /\ "decoder" \in holders /\ "decoder" \notin holders'
                         /\ story' = Append(story, <<proc'.out>>)
  /\ op.op = "transition" => /\ Happens(op.argv)
                             /\ module' # module \/ op.argv = "modprobe"
  /\ op.op \notin {"decode", "transition"} => story' = story
  /\ op.op # "transition" => module' = module

(* The decoder of the operation starts. *)
Begins(op) ==
  /\ op.op = "decode"
  /\ "decoder" \notin holders /\ "decoder" \in holders'
  /\ story' = Append(story, <<op.stage, op.job, module>>)
  /\ module' = module /\ proc' = proc

(* The fields of the operations. *)
LEMMA Fields ==
  /\ \A x : H(x).op = "healthy" /\ I(x).op = "identity" /\ I(x).which = x
            /\ T(x).op = "transition" /\ T(x).argv = x /\ Do(x).op = x
  /\ \A x, y : /\ Decode(x, y).op = "decode" /\ Decode(x, y).stage = x
               /\ Decode(x, y).job = y /\ Judge(x, y).op = "judge"
BY Zenon DEF H, I, T, Do, Decode, Judge

(* The lines of a decode. *)
LEMMA TellTwo ==
  ASSUME NEW name \in Names, NEW on \in Modules, NEW told \in Seq(Scene),
         NEW d \in Nat, d < Len(Jobs)
  PROVE  LET lines == Decoded(name, on)
         IN  /\ Append(Tell(told, lines, 2 * d), <<name, Jobs[d + 1], on>>)
                  = Tell(told, lines, 2 * d + 1)
             /\ Append(Tell(told, lines, 2 * d + 1), <<"right">>)
                  = Tell(told, lines, 2 * d + 2)
<1> DEFINE lines == Decoded(name, on)
           k == 2 * d
<1>1. /\ lines \in Seq(Scene) /\ Len(lines) = 2 * Len(Jobs)
      /\ lines[k + 1] = <<name, Jobs[d + 1], on>> /\ lines[k + 2] = <<"right">>
  BY Zenon, Lines
<1>2. /\ k \in Nat /\ k + 1 \in Nat /\ k + 2 = k + 1 + 1
      /\ k < 2 * Len(Jobs) /\ k + 1 < 2 * Len(Jobs)
  BY JobAt
<1> HIDE DEF lines, k
<1>3. Append(Tell(told, lines, k), lines[k + 1]) = Tell(told, lines, k + 1)
  BY Zenon, <1>1, <1>2, TellMore
<1>4. Append(Tell(told, lines, k + 1), lines[k + 1 + 1])
        = Tell(told, lines, k + 1 + 1)
  BY Zenon, <1>1, <1>2, TellMore
<1>. QED  BY Zenon, <1>1, <1>2, <1>3, <1>4 DEF lines, k

(* An operation that succeeds takes a stage to its next place. *)
LEMMA StageStep ==
  ASSUME NEW o \in Nat, NEW name \in Names, NEW on \in Modules,
         NEW told \in Seq(Scene), NEW at \in Nat, at <= o + 4 * Len(Jobs), NEW op,
         \A i \in 1..(4 * Len(Jobs)) : at = o + i => op = StageOps(name)[i],
         InStage(at, o, told, Decoded(name, on)), Performs(op)
  PROVE  InStage(at + 1, o, told, Decoded(name, on))'
<1> DEFINE lines == Decoded(name, on)
           n == Len(Jobs)
<1>1. n \in Nat
  BY Zenon, JobAt
<1>2. PICK d \in 0..n :
        \/ at = o + 4 * d + 1 /\ story = Tell(told, lines, 2 * d)
        \/ /\ d < n
           /\ \/ at = o + 4 * d + 2 /\ Decoding(told, lines, d)
              \/ at = o + 4 * d + 3 /\ Shown(told, lines, d)
              \/ at = o + 4 * d + 4 /\ Shown(told, lines, d)
  BY Zenon DEF InStage
<1> HIDE DEF lines, n
<1>3. d < n /\ d \in Nat
  BY <1>1, <1>2 DEF n
<1>4. /\ StageOps(name)[4 * d + 1] = H(TRUE)
      /\ StageOps(name)[4 * d + 2] = Decode(name, Jobs[d + 1])
      /\ StageOps(name)[4 * d + 3] = H(TRUE)
      /\ StageOps(name)[4 * d + 4] = Judge(name, Jobs[d + 1])
  BY Zenon, <1>3, StageAt DEF n
<1>5. /\ 4 * d + 1 \in 1..(4 * n) /\ 4 * d + 2 \in 1..(4 * n)
      /\ 4 * d + 3 \in 1..(4 * n) /\ 4 * d + 4 \in 1..(4 * n)
  BY <1>1, <1>3
<1>6. CASE at = o + 4 * d + 1 /\ story = Tell(told, lines, 2 * d)
  <2>1. at = o + (4 * d + 1) /\ at + 1 = o + 4 * d + 2
    BY <1>3, <1>6
  <2>2. op = H(TRUE)
    BY Zenon, <1>4, <1>5, <2>1 DEF n
  <2>3. holders = {} /\ holders' = {} /\ story' = story
    BY Zenon, <2>2, Fields DEF Performs
  <2>4. Decoding(told, lines, d)'
    BY Zenon, <1>6, <2>3 DEF Decoding
  <2>. QED  BY Zenon, <1>2, <1>3, <2>1, <2>4 DEF InStage, lines, n
<1>7. CASE at = o + 4 * d + 2 /\ Decoding(told, lines, d)
  <2>1. at = o + (4 * d + 2) /\ at + 1 = o + 4 * d + 3
    BY <1>3, <1>7
  <2>2. op = Decode(name, Jobs[d + 1])
    BY Zenon, <1>4, <1>5, <2>1 DEF n
  <2>f. op.op = "decode"
    BY Zenon, <2>2 DEF Decode
  <2>3. "decoder" \in holders /\ story' = Append(story, <<proc'.out>>)
    BY Zenon, <2>f DEF Performs
  <2>4. Shown(told, lines, d)'
    BY Zenon, <1>7, <2>3 DEF Decoding, Shown
  <2>. QED  BY Zenon, <1>2, <1>3, <2>1, <2>4 DEF InStage, lines, n
<1>8. CASE at = o + 4 * d + 3 /\ Shown(told, lines, d)
  <2>1. at = o + (4 * d + 3) /\ at + 1 = o + 4 * d + 4
    BY <1>3, <1>8
  <2>2. op = H(TRUE)
    BY Zenon, <1>4, <1>5, <2>1 DEF n
  <2>3. story' = story /\ proc'.out = proc.out
    BY Zenon, <2>2, Fields DEF Performs
  <2>4. Shown(told, lines, d)'
    BY Zenon, <1>8, <2>3 DEF Shown
  <2>. QED  BY Zenon, <1>2, <1>3, <2>1, <2>4 DEF InStage, lines, n
<1>9. CASE at = o + 4 * d + 4 /\ Shown(told, lines, d)
  <2> DEFINE e == d + 1
  <2>1. /\ at = o + (4 * d + 4) /\ at + 1 = o + 4 * e + 1 /\ e \in 0..n
        /\ 2 * d + 2 = 2 * e
    BY <1>1, <1>3, <1>9
  <2>2. op = Judge(name, Jobs[d + 1])
    BY Zenon, <1>4, <1>5, <2>1 DEF n
  <2>f. op.op = "judge"
    BY Zenon, <2>2 DEF Judge
  <2>3. story' = story /\ proc.out = "right"
    BY Zenon, <2>f DEF Performs
  <2>t. Append(Tell(told, lines, 2 * d + 1), <<"right">>)
          = Tell(told, lines, 2 * d + 2)
    BY Zenon, <1>3, TellTwo DEF lines, n
  <2>4. story' = Tell(told, lines, 2 * d + 2)
    BY Zenon, <1>9, <2>3, <2>t DEF Shown
  <2> HIDE DEF e
  <2>. QED  BY Zenon, <2>1, <2>4 DEF InStage, lines, n
<1>. QED  BY Zenon, <1>2, <1>6, <1>7, <1>8, <1>9

(* The operations of the exchange. *)
LEMMA Kinds ==
  /\ H(TRUE).op = "healthy" /\ H(FALSE).op = "healthy"
  /\ I("original").op = "identity" /\ I("original").which = "original"
  /\ I("candidate").op = "identity" /\ I("candidate").which = "candidate"
  /\ T("rmmod").op = "transition" /\ T("rmmod").argv = "rmmod"
  /\ T("insmod").op = "transition" /\ T("insmod").argv = "insmod"
  /\ T("modprobe").op = "transition" /\ T("modprobe").argv = "modprobe"
  /\ Do("mark").op = "mark" /\ Do("preflight").op = "preflight"
  /\ Do("loaded").op = "loaded" /\ Do("restored").op = "restored"
  /\ Do("terminal").op = "terminal" /\ Do("complete").op = "complete"
BY Zenon DEF H, I, T, Do

-----------------------------------------------------------------------------
(* The bounds of a stage and of the workloads. *)
LEMMA StageEnds ==
  ASSUME NEW o \in Nat, NEW at \in Nat, NEW told, NEW lines,
         InStage(at, o, told, lines)
  PROVE  /\ at \in (o + 1)..(o + 4 * Len(Jobs) + 1)
         /\ at = o + 4 * Len(Jobs) + 1 => story = Tell(told, lines, 2 * Len(Jobs))
<1> DEFINE n == Len(Jobs)
<1>1. n \in Nat
  BY Zenon, JobAt
<1>2. PICK d \in 0..n :
        \/ at = o + 4 * d + 1 /\ story = Tell(told, lines, 2 * d)
        \/ /\ d < n
           /\ \/ at = o + 4 * d + 2 \/ at = o + 4 * d + 3 \/ at = o + 4 * d + 4
  BY Zenon DEF InStage
<1> HIDE DEF n
<1>3. at \in (o + 1)..(o + 4 * n + 1)
  BY <1>1, <1>2
<1>4. at = o + 4 * n + 1 => d = n /\ at = o + 4 * d + 1
  BY <1>1, <1>2
<1>5. d < n => at # o + 4 * n + 1
  BY <1>1, <1>2
<1>6. at = o + 4 * n + 1 => story = Tell(told, lines, 2 * n)
  BY Zenon, <1>2, <1>4, <1>5
<1>. QED  BY Zenon, <1>3, <1>6 DEF n

(* A stage and the workloads begin with nothing of theirs told, *)
LEMMA Begun ==
  ASSUME NEW o \in Nat, NEW told \in Seq(Scene), NEW lines \in Seq(Scene),
         story' = told
  PROVE  /\ InStage(o + 1, o, told, lines)'
         /\ InWorkloads(o + 1, o, told, lines)'
(* The story grows by the next line. *)
<1>TellNone. ASSUME NEW S, NEW a \in Seq(S), NEW b \in Seq(S)
             PROVE  Tell(a, b, 0) = a
  BY <1>TellNone DEF Tell
<1> DEFINE d == 0
<1>1. d \in 0..Len(Jobs) /\ o + 4 * d + 1 = o + 1 /\ o + 5 * d + 1 = o + 1
      /\ 2 * d = 0
  BY JobAt
<1>2. story' = Tell(told, lines, 2 * d)
  BY Zenon, <1>1, <1>TellNone
<1> HIDE DEF d
<1>. QED  BY Zenon, <1>1, <1>2 DEF InStage, InWorkloads

(* and end with all of it told. *)
LEMMA AllTold ==
  ASSUME NEW name \in Names, NEW on \in Modules, NEW told \in Seq(Scene)
  PROVE  Tell(told, Decoded(name, on), 2 * Len(Jobs)) = told \o Decoded(name, on)
<1>TellAll. ASSUME NEW S, NEW a \in Seq(S), NEW b \in Seq(S)
            PROVE  Tell(a, b, Len(b)) = a \o b
  BY <1>TellAll DEF Tell
<1>. QED  BY Zenon, Lines, <1>TellAll

(* The lines of the exchange. *)
LEMMA Exchange ==
  ASSUME NEW told \in Seq(Scene)
  PROVE  /\ Append(Append(told, <<"none">>), <<"candidate">>) = told \o There
         /\ Append(Append(told, <<"none">>), <<"original">>) = told \o Back
         /\ told \o There \in Seq(Scene) /\ told \o Back \in Seq(Scene)
<1>1. /\ <<"none">> \in Scene /\ <<"candidate">> \in Scene
      /\ <<"original">> \in Scene
  BY Zenon DEF Scene, Modules
<1> HIDE DEF Scene
<1>2. There \in Seq(Scene) /\ Back \in Seq(Scene)
  BY <1>1 DEF There, Back
<1>. QED  BY Zenon, <1>1, <1>2, TwoMore, Joined DEF There, Back

(* What a transition that succeeds does. *)
LEMMA Unloads ==
  ASSUME NEW op, op = T("rmmod"), Performs(op)
  PROVE  module' = "none" /\ story' = Append(story, <<"none">>) /\ module # "none"
<1>1. op.op = "transition" /\ op.argv = "rmmod"
  BY Zenon DEF T
<1>2. Happens("rmmod") /\ module' # module
  BY Zenon, <1>1 DEF Performs
<1>3. module' = IF holders = {} /\ live THEN "none" ELSE module
  BY Zenon, <1>2 DEF Happens, Effect
<1>4. module' = "none"
  BY Zenon, <1>2, <1>3
<1>. QED  BY Zenon, <1>2, <1>4 DEF Happens

(* Nothing is loaded unless nothing was. *)
LEMMA Loads ==
  ASSUME NEW op, op = T("insmod") \/ op = T("modprobe"), Performs(op),
         module = "none"
  PROVE  module' # "none" /\ story' = Append(story, <<module'>>)
<1>1. op.op = "transition" /\ (op.argv = "insmod" \/ op.argv = "modprobe")
  BY Zenon, Kinds
<1>2. Happens(op.argv)
  BY Zenon, <1>1 DEF Performs
<1>3. Pinned("candidate") # "none" /\ Pinned("original") # "none"
  BY Zenon DEF Pinned
<1>4. Effect("insmod") = Pinned("candidate") /\ Effect("modprobe") = Pinned("original")
  BY Zenon DEF Effect
<1>5. module' # "none"
  BY Zenon, <1>1, <1>2, <1>3, <1>4 DEF Happens
<1>. QED  BY Zenon, <1>2, <1>5 DEF Happens

(* The operations of the try, by where they are. *)
ShortAt(prog, at, op) ==
  /\ \A i \in 1..5 : at = 0 + i => op = Load[i]
  /\ at = 6 => op = Do("preflight")
  /\ prog = "probe" => at \in 1..6
  /\ prog = "capture" =>
       /\ at \in 1..(6 + 5 * Len(Jobs))
       /\ \A i \in 1..(5 * Len(Jobs)) : at = 6 + i => op = Workloads[i]

(* The operation at a place of the try of campaign.py, *)
LEMMA ShortOps ==
  ASSUME NEW prog \in {"probe", "capture"}, NEW at \in 1..Length(prog, "try"),
         NEW op, op = Script(prog)["try"][at]
  PROVE  ShortAt(prog, at, op)
<1> DEFINE rest == IF prog = "probe" THEN <<>> ELSE Workloads
           s == ShortTry(rest)
<1>1. rest \in Seq(Checks)
  <2>1. <<>> \in Seq(Checks)
    OBVIOUS
  <2>. QED  BY Zenon, <2>1, WorkloadAt
<1>2. Script(prog)["try"] = s
  BY Zenon, ScriptIs
<1>3. prog = "capture" => rest = Workloads
  BY Zenon
<1> HIDE DEF rest, s
<1>4. /\ \A i \in 1..5 : s[i] = Load[i]
      /\ s[6] = Do("preflight")
      /\ \A i \in 1..Len(rest) : s[6 + i] = rest[i]
  BY Zenon, <1>1, ShortTryAt DEF s
<1>5. \A i \in 1..5 : 0 + i = i
  OBVIOUS
<1>6. prog = "capture" => \A i \in 1..(5 * Len(Jobs)) : at = 6 + i => op = Workloads[i]
  BY Zenon, <1>2, <1>3, <1>4, WorkloadAt
<1>7. /\ prog = "probe" => at \in 1..6
      /\ prog = "capture" => at \in 1..(6 + 5 * Len(Jobs))
  BY Zenon, LengthIs
<1>8. \A i \in 1..5 : at = 0 + i => op = Load[i]
  BY Zenon, <1>2, <1>4, <1>5
<1>9. at = 6 => op = Do("preflight")
  BY Zenon, <1>2, <1>4
<1>. QED  BY Zenon, <1>6, <1>7, <1>8, <1>9 DEF ShortAt

LongAt(at, op) ==
  /\ at \in 1..(8 * Len(Jobs) + 8)
  /\ at = 1 => op = I("original")
  /\ \A i \in 1..(4 * Len(Jobs)) : at = 1 + i => op = StageOps("baseline")[i]
  /\ at = 4 * Len(Jobs) + 2 => op = H(TRUE)
  /\ \A i \in 1..5 : at = 4 * Len(Jobs) + 2 + i => op = Load[i]
  /\ at = 4 * Len(Jobs) + 8 => op = I("candidate")
  /\ \A i \in 1..(4 * Len(Jobs)) :
       at = 4 * Len(Jobs) + 8 + i => op = StageOps("candidate")[i]

(* of that of qualify.py, *)
LEMMA LongOps ==
  ASSUME NEW at \in 1..Length("qualify", "try"), NEW op,
         op = Script("qualify")["try"][at]
  PROVE  LongAt(at, op)
BY Zenon, ScriptIs, LongTryAt, LengthIs DEF LongAt

AfterAt(at, op) ==
  /\ at \in 1..(4 * Len(Jobs) + 3)
  /\ at = 1 => op = I("original")
  /\ \A i \in 1..(4 * Len(Jobs)) : at = 1 + i => op = StageOps("restored")[i]
  /\ at = 4 * Len(Jobs) + 2 => op = H(TRUE)
  /\ at = 4 * Len(Jobs) + 3 => op = Do("complete")
  /\ op.op # "transition"

(* and of what follows it there. *)
LEMMA AfterOps ==
  ASSUME NEW at \in 1..Length("qualify", "after"), NEW op,
         op = Script("qualify")["after"][at]
  PROVE  AfterAt(at, op)
<1>1. at \in 1..Len(LongAfter)
  BY Zenon, LongAfterAt, LengthIs
<1>2. op.op # "transition"
  BY Zenon, <1>1, ScriptIs, LongAfterAt, ChecksTransitNothing
<1>. QED  BY Zenon, <1>2, ScriptIs, LongAfterAt, LengthIs DEF AfterAt

(* Under the checks of a stage the module stays. *)
OfStage(name, o, at, op) ==
  \A i \in 1..(4 * Len(Jobs)) : at = o + i => op = StageOps(name)[i]

(* The pieces of the story are sequences of its lines. *)
LEMMA StoryLines ==
  /\ There \in Seq(Scene) /\ Back \in Seq(Scene) /\ <<>> \in Seq(Scene)
  /\ <<>> \o There = There
  /\ Baseline \in Seq(Scene) /\ Candidate \in Seq(Scene) /\ Again \in Seq(Scene)
  /\ Baseline \o There \in Seq(Scene)
  /\ \A s \in Seq(Scene) : <<>> \o s = s
  /\ Baseline = Decoded("baseline", "original")
  /\ Candidate = Decoded("candidate", "candidate")
  /\ Again = Decoded("restored", "original")
  /\ "baseline" \in Names /\ "candidate" \in Names /\ "restored" \in Names
  /\ "original" \in Modules /\ "candidate" \in Modules
<1>1. /\ Baseline = Decoded("baseline", "original")
      /\ Candidate = Decoded("candidate", "candidate")
      /\ Again = Decoded("restored", "original")
      /\ "baseline" \in Names /\ "candidate" \in Names /\ "restored" \in Names
      /\ "original" \in Modules /\ "candidate" \in Modules
  BY Zenon DEF Baseline, Candidate, Again, Names, Modules
<1>2. Baseline \in Seq(Scene) /\ Candidate \in Seq(Scene) /\ Again \in Seq(Scene)
  BY Zenon, <1>1, Lines
<1>3. /\ <<"none">> \in Scene /\ <<"candidate">> \in Scene
      /\ <<"original">> \in Scene
  BY Zenon DEF Scene, Modules
<1> HIDE DEF Scene, Baseline
<1>4. There \in Seq(Scene) /\ Back \in Seq(Scene) /\ <<>> \in Seq(Scene)
  BY <1>3 DEF There, Back
<1> HIDE DEF There, Back
<1>5. /\ Baseline \o There \in Seq(Scene)
      /\ \A s \in Seq(Scene) : <<>> \o s = s
  BY <1>2, <1>4
<1>. QED  BY Zenon, <1>1, <1>2, <1>4, <1>5

(***************************************************************************)
(* While an operation goes on its decoder may start, and one that was left *)
(* may end.                                                                *)
(***************************************************************************)
Meanwhile(op) ==
  \/ Begins(op)
  \/ op.op # "decode" /\ story' = story /\ proc' = proc /\ module' = module

(* What follows the restoration. *)
LEMMA StoryIs ==
  ASSUME proc.prog \in Progs
  PROVE  /\ proc.prog # "qualify" => TheStory = Outward(proc.prog) \o Back
         /\ proc.prog = "qualify" => TheStory = Outward("qualify") \o Back \o Again
<1>1. CASE proc.prog = "probe"
  <2>1. TheStory = There \o Back /\ Outward("probe") = There
    BY Zenon, <1>1 DEF TheStory, Outward
  <2>. QED  BY Zenon, <1>1, <2>1
<1>2. CASE proc.prog = "capture"
  <2>1. /\ TheStory = There \o Candidate \o Back
        /\ Outward("capture") = There \o Candidate
    BY Zenon, <1>2 DEF TheStory, Outward, Candidate
  <2>. QED  BY Zenon, <1>2, <2>1
<1>3. CASE proc.prog = "qualify"
  <2>1. /\ TheStory = Baseline \o There \o Candidate \o Back \o Again
        /\ Outward("qualify") = Baseline \o There \o Candidate
    BY Zenon, <1>3 DEF TheStory, Outward, Baseline, Candidate, Again
  <2>. QED  BY Zenon, <1>3, <2>1
<1>. QED  BY Zenon, <1>1, <1>2, <1>3 DEF Progs

(* So is the story up to the restoration. *)
LEMMA OutwardIs ==
  ASSUME NEW prog \in Progs
  PROVE  Outward(prog) \in Seq(Scene) /\ Outward(prog) \o Back \in Seq(Scene)
<1>1. Outward(prog) \in Seq(Scene)
  <2>1. CASE prog = "probe"
    BY Zenon, <2>1, StoryLines DEF Outward
  <2>2. CASE prog = "capture"
    <3> DEFINE s == There
               t == Candidate
    <3>1. Outward(prog) = s \o t
      BY Zenon, <2>2 DEF Outward
    <3>2. s \in Seq(Scene) /\ t \in Seq(Scene)
      BY Zenon, StoryLines
    <3> HIDE DEF s, t
    <3>. QED  BY Zenon, <3>1, <3>2, Joined
  <2>3. CASE prog = "qualify"
    <3> DEFINE s == Baseline \o There
               t == Candidate
    <3>1. Outward(prog) = s \o t
      BY Zenon, <2>3 DEF Outward
    <3>2. s \in Seq(Scene) /\ t \in Seq(Scene)
      BY Zenon, StoryLines
    <3> HIDE DEF s, t
    <3>. QED  BY Zenon, <3>1, <3>2, Joined
  <2>. QED  BY Zenon, <2>1, <2>2, <2>3 DEF Progs
<1>. QED  BY Zenon, <1>1, Exchange

-----------------------------------------------------------------------------
(* Where the operations of the marker, the restoration and the end are. *)
Plain == {"identity", "healthy", "decode", "judge", "transition", "preflight"}

(* The same for the operation of the process. *)
LEMMA OpPlaces ==
  ASSUME SwapTyped, Running
  PROVE  /\ proc.part = "before" => \/ proc.pc = 1 /\ Op = Do("mark")
                                    \/ proc.pc = 2 /\ Op = I("original")
                                    \/ proc.pc = 3 /\ Op = H(TRUE)
         /\ proc.part = "try" => Op.op \in Plain
         /\ proc.part = "restore" => Op = Restore[proc.pc] /\ proc.pc \in 1..8
         /\ proc.part = "terminal" => Op = Do("terminal") /\ proc.pc = 1
         /\ proc.part = "after" =>
              /\ proc.pc # Length(proc.prog, "after") => Op.op \in Plain \ {"transition"}
              /\ proc.pc = Length(proc.prog, "after") => Op.op = "complete"
<1>StagePlain. ASSUME NEW name \in Names, NEW i \in 1..(4 * Len(Jobs))
               PROVE  StageOps(name)[i].op \in Plain
  <2>. USE <1>StagePlain
  <2> DEFINE n == Len(Jobs)
             d == (i - 1) \div 4
             r == ((i - 1) % 4) + 1
  <2>1. n \in Nat
    BY Zenon, JobAt
  <2> HIDE DEF n
  <2>2. /\ d \in Nat /\ d < n /\ i = 4 * d + r
        /\ r = 1 \/ r = 2 \/ r = 3 \/ r = 4
    BY <2>1 DEF n
  <2> HIDE DEF d, r
  <2>3. \/ StageOps(name)[i] = H(TRUE)
        \/ StageOps(name)[i] = Decode(name, Jobs[d + 1])
        \/ StageOps(name)[i] = Judge(name, Jobs[d + 1])
    BY Zenon, <2>2, StageAt DEF n
  <2>4. /\ H(TRUE).op \in Plain /\ Decode(name, Jobs[d + 1]).op \in Plain
        /\ Judge(name, Jobs[d + 1]).op \in Plain
    BY Zenon DEF H, Decode, Judge, Plain
  <2>. QED  BY Zenon, <2>3, <2>4
<1>WorkloadsPlain. ASSUME NEW i \in 1..(5 * Len(Jobs))
                   PROVE  Workloads[i].op \in Plain
  <2>. USE <1>WorkloadsPlain
  <2> DEFINE n == Len(Jobs)
             d == (i - 1) \div 5
             r == ((i - 1) % 5) + 1
  <2>1. n \in Nat
    BY Zenon, JobAt
  <2> HIDE DEF n
  <2>2. /\ d \in Nat /\ d < n /\ i = 5 * d + r
        /\ r = 1 \/ r = 2 \/ r = 3 \/ r = 4 \/ r = 5
    BY <2>1 DEF n
  <2> HIDE DEF d, r
  <2>3. \/ Workloads[i] = I("candidate") \/ Workloads[i] = H(TRUE)
        \/ Workloads[i] = Decode("candidate", Jobs[d + 1])
        \/ Workloads[i] = Judge("candidate", Jobs[d + 1])
    BY Zenon, <2>2, WorkloadAt DEF n
  <2>4. /\ H(TRUE).op \in Plain /\ Decode("candidate", Jobs[d + 1]).op \in Plain
        /\ Judge("candidate", Jobs[d + 1]).op \in Plain /\ I("candidate").op \in Plain
    BY Zenon DEF H, I, Decode, Judge, Plain
  <2>. QED  BY Zenon, <2>3, <2>4
<1>LoadPlain. ASSUME NEW i \in 1..5
              PROVE  Load[i].op \in Plain
  <2>. USE <1>LoadPlain
  <2>1. i = 1 \/ i = 2 \/ i = 3 \/ i = 4 \/ i = 5
    OBVIOUS
  <2>2. \/ Load[i] = T("rmmod") \/ Load[i] = H(FALSE) \/ Load[i] = T("insmod")
        \/ Load[i] = I("candidate") \/ Load[i] = H(TRUE)
    BY Zenon, <2>1, LoadIs
  <2>3. \/ Load[i].op = "transition" \/ Load[i].op = "healthy"
        \/ Load[i].op = "identity"
    BY Zenon, <2>2, Kinds
  <2>. QED  BY Zenon, <2>3 DEF Plain
<1>TryPlain. ASSUME NEW prog \in Progs, NEW at \in 1..Length(prog, "try")
             PROVE  Script(prog)["try"][at].op \in Plain
  <2>. USE <1>TryPlain
  <2> DEFINE n == Len(Jobs)
             op == Script(prog)["try"][at]
  <2>1. n \in Nat /\ at \in Nat
    BY PartsAre, JobAt DEF Parts
  <2>2. "identity" \in Plain /\ "healthy" \in Plain /\ "preflight" \in Plain
    BY Zenon DEF Plain
  <2>3. CASE prog = "probe" \/ prog = "capture"
    <3>1. ShortAt(prog, at, op)
      BY Zenon, <2>3, ShortOps
    <3> HIDE DEF op
    <3>2. at \in 1..5 => op.op \in Plain
      <4>1. at \in 1..5 => at = 0 + at
        BY <2>1
      <4>. QED  BY Zenon, <3>1, <4>1, <1>LoadPlain DEF ShortAt
    <3>3. at = 6 => op.op \in Plain
      BY Zenon, <2>2, <3>1, Kinds DEF ShortAt
    <3>4. CASE prog = "probe"
      <4>1. at \in 1..5 \/ at = 6
        BY <3>1, <3>4 DEF ShortAt
      <4>. QED  BY Zenon, <3>2, <3>3, <4>1 DEF op
    <3>5. CASE prog = "capture"
      <4> DEFINE i == at - 6
      <4>1. at \in 1..(6 + 5 * n)
        BY Zenon, <3>1, <3>5 DEF ShortAt
      <4>2. at \in 1..5 \/ at = 6 \/ (i \in 1..(5 * n) /\ at = 6 + i)
        BY <2>1, <4>1
      <4> HIDE DEF i
      <4>3. i \in 1..(5 * n) /\ at = 6 + i => op = Workloads[i]
        BY Zenon, <3>1, <3>5 DEF ShortAt
      <4>. QED  BY Zenon, <3>2, <3>3, <4>2, <4>3, <1>WorkloadsPlain DEF op
    <3>. QED  BY Zenon, <2>3, <3>4, <3>5
  <2>4. CASE prog = "qualify"
    <3> DEFINE a == 4 * n + 2
               c == 4 * n + 8
               i == at - 1
               j == at - a
               k == at - c
    <3>1. LongAt(at, op)
      BY Zenon, <2>4, LongOps
    <3> HIDE DEF op
    <3>2. at \in 1..(8 * n + 8)
      BY Zenon, <3>1 DEF LongAt
    <3>3. \/ at = 1 \/ at = a \/ at = c
          \/ i \in 1..(4 * n) /\ at = 1 + i
          \/ j \in 1..5 /\ at = a + j
          \/ k \in 1..(4 * n) /\ at = c + k
      BY <2>1, <3>2
    <3> HIDE DEF i, j, k
    <3>4. at = 1 \/ at = a \/ at = c => op.op \in Plain
      BY Zenon, <2>2, <3>1, Kinds DEF LongAt
    <3>5. i \in 1..(4 * n) /\ at = 1 + i => op.op \in Plain
      <4>1. i \in 1..(4 * n) /\ at = 1 + i => op = StageOps("baseline")[i]
        BY Zenon, <3>1 DEF LongAt
      <4>. QED  BY Zenon, <4>1, <1>StagePlain DEF Names
    <3>6. j \in 1..5 /\ at = a + j => op.op \in Plain
      <4>1. j \in 1..5 /\ at = a + j => op = Load[j]
        BY Zenon, <3>1 DEF LongAt
      <4>. QED  BY Zenon, <4>1, <1>LoadPlain
    <3>7. k \in 1..(4 * n) /\ at = c + k => op.op \in Plain
      <4>1. k \in 1..(4 * n) /\ at = c + k => op = StageOps("candidate")[k]
        BY Zenon, <3>1 DEF LongAt
      <4>. QED  BY Zenon, <4>1, <1>StagePlain DEF Names
    <3>. QED  BY Zenon, <3>3, <3>4, <3>5, <3>6, <3>7 DEF op
  <2>. QED  BY Zenon, <2>3, <2>4 DEF Progs
<1>AfterPlain. ASSUME NEW prog \in Progs, NEW at \in 1..Length(prog, "after")
               PROVE  LET op == Script(prog)["after"][at]
                      IN  /\ at # Length(prog, "after") => op.op \in Plain \ {"transition"}
                          /\ at = Length(prog, "after") => op.op = "complete"
  <2>. USE <1>AfterPlain
  <2> DEFINE n == Len(Jobs)
             op == Script(prog)["after"][at]
  <2>1. n \in Nat
    BY Zenon, JobAt
  <2>2. CASE prog # "qualify"
    <3>1. Length(prog, "after") = 1
      BY Zenon, <2>2, LengthIs
    <3>2. at = 1
      BY <3>1
    <3>3. Do("complete") \in Checks
      BY Zenon DEF Checks, Do
    <3>4. op = Do("complete")
      BY Zenon, <2>2, <3>2, <3>3, ScriptIs, OneTuple
    <3>5. op.op = "complete"
      BY Zenon, <3>4, Kinds
    <3>. QED  BY Zenon, <3>1, <3>2, <3>5
  <2>3. CASE prog = "qualify"
    <3> DEFINE i == at - 1
    <3>1. AfterAt(at, op)
      BY Zenon, <2>3, AfterOps
    <3>2. Length(prog, "after") = 4 * n + 3
      BY Zenon, <2>3, LengthIs
    <3> HIDE DEF op
    <3>3. at \in 1..(4 * n + 3) /\ op.op # "transition"
      BY Zenon, <3>1 DEF AfterAt
    <3>4. \/ at = 1 \/ at = 4 * n + 2 \/ at = 4 * n + 3
          \/ i \in 1..(4 * n) /\ at = 1 + i
      BY <2>1, <3>3
    <3> HIDE DEF i
    <3>5. "identity" \in Plain /\ "healthy" \in Plain
      BY Zenon DEF Plain
    <3>6. at = 1 \/ at = 4 * n + 2 => op.op \in Plain
      BY Zenon, <3>1, <3>5, Kinds DEF AfterAt
    <3>7. i \in 1..(4 * n) /\ at = 1 + i => op.op \in Plain
      <4>1. i \in 1..(4 * n) /\ at = 1 + i => op = StageOps("restored")[i]
        BY Zenon, <3>1 DEF AfterAt
      <4>. QED  BY Zenon, <4>1, <1>StagePlain DEF Names
    <3>8. at = 4 * n + 3 => op.op = "complete"
      BY Zenon, <3>1, Kinds DEF AfterAt
    <3>. QED  BY Zenon, <3>2, <3>3, <3>4, <3>6, <3>7, <3>8 DEF op
  <2>. QED  BY Zenon, <2>2, <2>3
<1>1. /\ proc.part \in Parts /\ proc.prog \in Progs
      /\ proc.pc \in 1..Length(proc.prog, proc.part)
      /\ Op = Script(proc.prog)[proc.part][proc.pc]
  BY Zenon, Runs
<1>2. CASE proc.part = "before"
  <2>1. proc.pc \in 1..3
    BY Zenon, <1>1, <1>2, LengthIs
  <2>2. proc.pc = 1 \/ proc.pc = 2 \/ proc.pc = 3
    BY <2>1
  <2>3. Op = Before[proc.pc]
    BY Zenon, <1>1, <1>2, ScriptIs
  <2>. QED  BY Zenon, <1>2, <2>2, <2>3, BeforeIs
<1>3. CASE proc.part = "try"
  BY Zenon, <1>1, <1>3, <1>TryPlain
<1>4. CASE proc.part = "restore"
  BY Zenon, <1>1, <1>4, ScriptIs, LengthIs
<1>5. CASE proc.part = "terminal"
  <2>1. proc.pc \in 1..1
    BY Zenon, <1>1, <1>5, LengthIs
  <2>2. proc.pc = 1
    BY <2>1
  <2>3. Do("terminal") \in Checks
    BY Zenon DEF Checks, Do
  <2>4. Op = Do("terminal")
    BY ZenonT(60), <1>1, <1>5, <2>2, <2>3, ScriptIs, OneTuple
  <2>. QED  BY Zenon, <1>5, <2>2, <2>4
<1>6. CASE proc.part = "after"
  BY Zenon, <1>1, <1>6, <1>AfterPlain
<1>. QED  BY Zenon, <1>1, <1>2, <1>3, <1>4, <1>5, <1>6 DEF Parts

(***************************************************************************)
(* A process that goes on: what the operations that succeed have in        *)
(* common, but for the terminal record and the completion.                 *)
(***************************************************************************)
Succeeds(q) ==
  /\ Running /\ q \in Process /\ q.prog = proc.prog /\ q.part = proc.part
  /\ q.pc = proc.pc /\ q.saw = proc.saw /\ q.failed = proc.failed
  /\ q.restored = proc.restored \/ Op.op = "restored"
  /\ proc' = Step(q, 1)
  /\ Performs(Op)
  /\ Op.op \notin {"complete", "terminal"}
  /\ Op.op = "mark" => ~attempted /\ attempted'
  /\ attempted => attempted'
  /\ Op.op = "loaded" => ~faulted
  /\ Op.op = "decode" => proc'.out \in {"right", "wrong"}
  /\ module' \in Modules /\ story' \in Seq(Scene) /\ log' \in Seq(Event)
  /\ Ends("complete")' => log' = log

Moved ==
  /\ proc' \in Process /\ proc'.prog = proc.prog /\ proc'.failed = proc.failed
  /\ ~proc'.saw
  /\ proc'.restored = proc.restored \/ proc.part = "restore"
  /\ attempted'
  /\ proc.part \in {"before", "try", "restore", "after"}
  /\ \/ /\ proc.pc < Length(proc.prog, proc.part)
        /\ proc'.part = proc.part /\ proc'.pc = proc.pc + 1
     \/ /\ proc.pc = Length(proc.prog, proc.part) /\ proc'.pc = 1
        /\ \/ proc.part = "before" /\ proc'.part = "try"
           \/ proc.part = "try" /\ proc'.part \in {"restore", "terminal"}
           \/ proc.part = "restore" /\ proc'.part = "terminal"

(* An operation that succeeds moves the process one place, and none        *)
(* succeeds once the log is complete.                                      *)
LEMMA SucceedsMoves ==
  ASSUME SwapInv, NEW q, Succeeds(q)
  PROVE  Moved /\ ~Ends("complete")
<1>1. SwapTyped /\ Running
  BY Zenon DEF SwapInv, Succeeds
<1>2. /\ proc \in Process /\ proc.part \in Parts /\ proc.prog \in Progs
      /\ proc.pc \in 1..Length(proc.prog, proc.part)
  BY Zenon, <1>1, Runs
<1>3. Restore[1] = Do("loaded") /\ Do("loaded").op = "loaded"
      /\ Do("mark").op = "mark" /\ Do("terminal").op = "terminal"
  BY Zenon, RestoreIs, Kinds
<1>4. proc.part # "terminal"
  BY Zenon, <1>1, <1>3, OpPlaces DEF Succeeds
<1>5. proc.part = "after" => proc.pc # Length(proc.prog, proc.part)
  BY Zenon, <1>1, OpPlaces DEF Succeeds
<1>6. proc.part = "before" /\ proc.pc = 1 => Op.op = "mark"
  <2>1. 1 # 2 /\ 1 # 3
    OBVIOUS
  <2>. QED  BY Zenon, <1>1, <1>3, <2>1, OpPlaces
<1>7. attempted'
  <2>1. CASE proc.part = "before" /\ proc.pc = 1
    BY Zenon, <1>6, <2>1 DEF Succeeds
  <2>2. CASE ~(proc.part = "before" /\ proc.pc = 1)
    <3>1. proc.part = "before" => proc.pc > 1
      <4>1. proc.part = "before" => proc.pc \in 1..3
        BY Zenon, <1>2, LengthIs
      <4>. QED  BY <2>2, <4>1
    <3>2. proc.part \in {"before", "try", "restore", "after"}
      BY Zenon, <1>2, <1>4 DEF Parts
    <3>3. attempted
      BY Zenon, <3>1, <3>2 DEF SwapInv, Marked
    <3>. QED  BY Zenon, <3>3 DEF Succeeds
  <2>. QED  BY Zenon, <2>1, <2>2
<1>8. ~Ends("complete")
  <2>1. SUFFICES ASSUME Ends("complete")  PROVE FALSE
    BY Zenon
  <2>2. attempted /\ proc.part = "before" /\ proc.pc = 1
    BY Zenon, <1>1, <2>1, NotEnded
  <2>. QED  BY Zenon, <1>6, <2>2 DEF Succeeds
<1>9. ~proc.saw
  <2>1. SUFFICES ASSUME proc.saw  PROVE FALSE
    BY Zenon
  <2>2. faulted /\ proc.part \in {"restore", "terminal", "ended", "killed"}
        /\ (proc.part = "restore" => proc.pc = 1)
    BY Zenon, <2>1 DEF SwapInv, Stopped
  <2>3. proc.part = "restore" /\ proc.pc = 1
    BY Zenon, <1>2, <1>4, <2>2 DEF Parts
  <2>4. Op.op = "loaded"
    BY Zenon, <1>1, <1>3, <2>3, OpPlaces
  <2>. QED  BY Zenon, <2>2, <2>4 DEF Succeeds
<1>10. Op.op = "restored" => proc.part = "restore"
  <2>1. "restored" \notin Plain
    BY Zenon DEF Plain
  <2>2. Do("mark").op # "restored" /\ I("original").op # "restored"
        /\ H(TRUE).op # "restored"
    BY Zenon, Kinds
  <2>. QED  BY Zenon, <1>1, <1>2, <1>4, <1>5, <2>1, <2>2, OpPlaces DEF Parts
<1>11. /\ proc' \in Process /\ Alike(q, proc')
       /\ \/ /\ proc.pc < Length(proc.prog, proc.part)
             /\ proc'.part = proc.part /\ proc'.pc = proc.pc + 1
          \/ /\ proc.pc = Length(proc.prog, proc.part)
             /\ proc'.part = Following(q) /\ proc'.pc = 1
  BY Zenon, <1>2, StepIs DEF Succeeds
<1>12. /\ proc.part = "before" => Following(q) = "try"
       /\ proc.part = "try" => Following(q) \in {"restore", "terminal"}
       /\ proc.part = "restore" => Following(q) = "terminal"
  BY Zenon, FollowingIs DEF Succeeds
<1>13. proc.part \in {"before", "try", "restore", "after"}
  BY Zenon, <1>2, <1>4 DEF Parts
<1>14. /\ proc'.prog = proc.prog /\ proc'.failed = proc.failed /\ ~proc'.saw
       /\ proc'.restored = proc.restored \/ proc.part = "restore"
  BY Zenon, <1>9, <1>10, <1>11 DEF Succeeds, Alike
<1>15. \/ /\ proc.pc < Length(proc.prog, proc.part)
          /\ proc'.part = proc.part /\ proc'.pc = proc.pc + 1
       \/ /\ proc.pc = Length(proc.prog, proc.part) /\ proc'.pc = 1
          /\ \/ proc.part = "before" /\ proc'.part = "try"
             \/ proc.part = "try" /\ proc'.part \in {"restore", "terminal"}
             \/ proc.part = "restore" /\ proc'.part = "terminal"
  BY Zenon, <1>5, <1>11, <1>12, <1>13
<1>. QED  BY Zenon, <1>7, <1>8, <1>11, <1>13, <1>14, <1>15 DEF Moved

(* The lines of a story that grew are the ones it had and the new one. *)
LEMMA RangeOfAppend ==
  ASSUME NEW S, NEW s \in Seq(S), NEW x \in S, NEW y, y \in Range(Append(s, x))
  PROVE  y \in Range(s) \/ y = x
<1>1. /\ Append(s, x) \in Seq(S) /\ Len(Append(s, x)) = Len(s) + 1
      /\ Append(s, x)[Len(s) + 1] = x
      /\ \A i \in 1..Len(s) : Append(s, x)[i] = s[i]
      /\ Len(s) \in Nat
  OBVIOUS
<1>2. DOMAIN Append(s, x) = 1..(Len(s) + 1) /\ DOMAIN s = 1..Len(s)
  BY <1>1
<1>3. PICK i \in 1..(Len(s) + 1) : y = Append(s, x)[i]
  BY Zenon, <1>2 DEF Range
<1>4. CASE i = Len(s) + 1
  BY Zenon, <1>1, <1>3, <1>4
<1>5. CASE i # Len(s) + 1
  <2>1. i \in 1..Len(s)
    BY <1>1, <1>3, <1>5
  <2>2. y = s[i]
    BY Zenon, <1>1, <1>3, <2>1
  <2>. QED  BY Zenon, <1>2, <2>1, <2>2 DEF Range
<1>. QED  BY Zenon, <1>4, <1>5

(* What an operation that succeeds adds to the story. *)
LEMMA Adds ==
  ASSUME SwapInv, NEW q, Succeeds(q)
  PROVE  /\ Op.op \notin {"decode", "transition"} => story' = story /\ module' = module
         /\ <<"candidate">> \in Range(story') =>
              \/ <<"candidate">> \in Range(story)
              \/ proc.part = "try" /\ proc.pc = Ahead(proc.prog) + 3
              \/ proc.part = "restore"
         /\ proc.part = "before" => Op.op \notin {"decode", "transition"}
         /\ proc.part = "try" /\ proc.pc < Ahead(proc.prog) + 1 => module' = module
<1>1. SwapTyped /\ Running /\ Performs(Op)
  BY Zenon DEF SwapInv, Succeeds
<1>2. /\ proc \in Process /\ proc.part \in Parts /\ proc.prog \in Progs
      /\ proc.pc \in 1..Length(proc.prog, proc.part)
      /\ Op = Script(proc.prog)[proc.part][proc.pc]
  BY Zenon, <1>1, Runs
<1>3. Op.op \notin {"decode", "transition"} => story' = story /\ module' = module
  BY Zenon, <1>1 DEF Performs
<1>4. proc.part = "before" => Op.op \notin {"decode", "transition"}
  BY Zenon, <1>1, OpPlaces, Kinds
<1>5. Op.op = "transition" =>
        \/ proc.part = "restore"
        \/ /\ proc.part = "try" /\ proc.pc = Ahead(proc.prog) + 1
           /\ Op.argv = "rmmod"
        \/ proc.part = "try" /\ proc.pc = Ahead(proc.prog) + 3
  <2>. DEFINE prog == proc.prog  part == proc.part  pc == proc.pc
  <2>1. SUFFICES ASSUME Op.op = "transition"
                 PROVE  \/ part = "restore"
                        \/ part = "try" /\ pc = Ahead(prog) + 1 /\ Op.argv = "rmmod"
                        \/ part = "try" /\ pc = Ahead(prog) + 3
    BY Zenon
  <2>2. /\ part \in Parts /\ prog \in Progs /\ pc \in 1..Length(prog, part)
        /\ Op = Script(prog)[part][pc]
    BY Zenon, <1>2
  <2>. HIDE DEF prog, part, pc
  <2>3. Script(prog)[part][pc].op = "transition"
    BY Zenon, <2>1, <2>2
  <2>4. \/ part = "restore"
        \/ /\ part = "try" /\ pc = Ahead(prog) + 1
           /\ Script(prog)[part][pc].argv = "rmmod"
        \/ part = "try" /\ pc = Ahead(prog) + 3
    BY Zenon, <2>2, <2>3, TransitionPlaces
  <2>. QED  BY Zenon, <2>2, <2>4
<1>6. Ahead(proc.prog) \in Nat
  BY JobAt DEF Ahead
<1>7. proc.part = "try" /\ proc.pc < Ahead(proc.prog) + 1 => module' = module
  <2>1. SUFFICES ASSUME proc.part = "try", proc.pc < Ahead(proc.prog) + 1
                 PROVE  Op.op # "transition"
    BY Zenon, <1>1 DEF Performs
  <2>2. proc.pc \in Nat
    BY Zenon, <1>2 DEF Process
  <2>3. proc.pc # Ahead(proc.prog) + 1 /\ proc.pc # Ahead(proc.prog) + 3
    BY <1>6, <2>1, <2>2
  <2>. QED  BY Zenon, <1>5, <2>1, <2>3
<1>8. ASSUME <<"candidate">> \in Range(story'), <<"candidate">> \notin Range(story),
             ~(proc.part = "try" /\ proc.pc = Ahead(proc.prog) + 3),
             proc.part # "restore"
      PROVE  FALSE
  <2>1. story \in Seq(Scene) /\ module \in Modules /\ module' \in Modules
    BY Zenon DEF SwapInv, SwapTyped, Succeeds
  <2>2. story' # story
    BY Zenon, <1>8
  <2>3. CASE Op.op = "decode"
    <3>1. PICK out \in {"right", "wrong"} : story' = Append(story, <<out>>)
      BY Zenon, <1>1, <2>3 DEF Succeeds, Performs
    <3>2. <<out>> \in Scene
      BY Zenon, <3>1 DEF Scene, Outs
    <3>3. <<"candidate">> = <<out>>
      BY Zenon, <1>8, <2>1, <3>1, <3>2, RangeOfAppend
    <3>. QED  BY <3>1, <3>3
  <2>4. CASE Op.op = "transition"
    <3>1. Happens(Op.argv) /\ Op.argv = "rmmod"
      BY Zenon, <1>1, <1>5, <1>8, <2>4 DEF Performs
    <3>2. story' = Append(story, <<module'>>) /\ module' = "none"
      <4>1. Effect(Op.argv) = "none" \/ Effect(Op.argv) = module
        BY Zenon, <3>1 DEF Effect
      <4>. QED  BY Zenon, <2>2, <3>1, <4>1 DEF Happens
    <3>3. <<"none">> \in Scene
      BY Zenon DEF Scene, Modules
    <3>4. <<"candidate">> = <<"none">>
      BY Zenon, <1>8, <2>1, <3>2, <3>3, RangeOfAppend
    <3>. QED  BY <3>4
  <2>. QED  BY Zenon, <1>3, <2>2, <2>3, <2>4
<1>. QED  BY Zenon, <1>3, <1>4, <1>7, <1>8

(* An operation that succeeds does not load the candidate again, *)
LEMMA SucceedsOneLoad ==
  ASSUME SwapInv, NEW q, Succeeds(q)
  PROVE  OneLoad'
<1>1. SwapTyped /\ Running /\ Moved
  BY Zenon, SucceedsMoves DEF SwapInv, Succeeds
<1>2. /\ proc.prog \in Progs
      /\ proc.pc \in 1..Length(proc.prog, proc.part)
  BY Zenon, <1>1, Runs
<1>3. SUFFICES ASSUME <<"candidate">> \in Range(story')
               PROVE  /\ proc'.part # "before"
                      /\ proc'.part = "try" => proc'.pc > Ahead(proc'.prog) + 3
  <2>1. attempted'
    BY Zenon, <1>1 DEF Moved
  <2>. QED  BY Zenon, <1>3, <2>1 DEF OneLoad
<1>4. proc.part # "before"
  <2>1. SUFFICES ASSUME proc.part = "before"  PROVE FALSE
    BY Zenon
  <2>2. "before" # "try" /\ "before" # "restore"
    OBVIOUS
  <2>3. <<"candidate">> \in Range(story)
    BY Zenon, <1>3, <2>1, <2>2, Adds
  <2>4. attempted /\ proc.pc = 1
    BY Zenon, <2>1, <2>3 DEF SwapInv, OneLoad
  <2>5. Op = Do("mark")
    <3>1. 1 # 2 /\ 1 # 3
      OBVIOUS
    <3>. QED  BY Zenon, <1>1, <2>1, <2>4, <3>1, OpPlaces
  <2>. QED  BY Zenon, <2>4, <2>5, Kinds DEF Succeeds
<1>5. proc'.part # "before"
  BY Zenon, <1>1, <1>4 DEF Moved
<1>6. ASSUME proc'.part = "try"
      PROVE  proc'.pc > Ahead(proc'.prog) + 3
  <2>1. proc.part = "try" /\ proc'.pc = proc.pc + 1 /\ proc'.prog = proc.prog
    BY Zenon, <1>1, <1>4, <1>6 DEF Moved
  <2>2. Ahead(proc.prog) \in Nat
    BY JobAt DEF Ahead
  <2>3. proc.pc > Ahead(proc.prog) + 3 \/ proc.pc = Ahead(proc.prog) + 3
    <3>1. "try" # "restore"
      OBVIOUS
    <3>. QED  BY Zenon, <1>3, <2>1, <3>1, Adds DEF SwapInv, OneLoad
  <2>4. proc.pc \in Nat
    BY Zenon, <1>1 DEF SwapTyped, Process
  <2>. QED  BY <2>1, <2>2, <2>3, <2>4
<1>. QED  BY Zenon, <1>5, <1>6

(* and what is about to be unloaded was identified. *)
LEMMA SucceedsKnown ==
  ASSUME SwapInv, NEW q, Succeeds(q)
  PROVE  Known'
<1>1. SwapTyped /\ Running /\ Moved /\ Performs(Op)
  BY Zenon, SucceedsMoves DEF SwapInv, Succeeds
<1>2. /\ proc.prog \in Progs /\ proc.pc \in Nat
      /\ proc.pc \in 1..Length(proc.prog, proc.part)
  BY Zenon, <1>1, Runs DEF Process
<1>3. Ahead(proc.prog) \in Nat
  BY JobAt DEF Ahead
<1>4. ASSUME proc'.part = "before", proc'.pc = 3
      PROVE  module' = "original"
  <2>1. proc.part = "before" /\ proc'.pc = proc.pc + 1
    BY Zenon, <1>1, <1>4 DEF Moved
  <2>2. proc.pc = 2
    BY <1>2, <1>4, <2>1
  <2>3. Op = I("original")
    <3>1. 2 # 1 /\ 2 # 3
      OBVIOUS
    <3>. QED  BY Zenon, <1>1, <2>1, <2>2, <3>1, OpPlaces
  <2>4. Op.op = "identity" /\ Op.which = "original"
    BY Zenon, <2>3, Kinds
  <2>. QED  BY Zenon, <1>1, <2>4 DEF Performs
<1>5. ASSUME proc'.part = "try", proc'.pc <= Ahead(proc'.prog) + 1
      PROVE  module' = "original"
  <2>1. proc'.prog = proc.prog
    BY Zenon, <1>1 DEF Moved
  <2>2. CASE proc.part = "before"
    <3>1. proc.pc = 3
      BY Zenon, <1>1, <1>5, <2>2, LengthIs DEF Moved
    <3>2. module = "original"
      BY Zenon, <2>2, <3>1 DEF SwapInv, Known
    <3>. QED  BY Zenon, <2>2, <3>2, Adds
  <2>3. CASE proc.part # "before"
    <3>1. proc.part = "try" /\ proc'.pc = proc.pc + 1
      BY Zenon, <1>1, <1>5, <2>3 DEF Moved
    <3>2. proc.pc <= Ahead(proc.prog) + 1 /\ proc.pc < Ahead(proc.prog) + 1
      BY <1>2, <1>3, <1>5, <2>1, <3>1
    <3>3. module = "original"
      BY Zenon, <3>1, <3>2 DEF SwapInv, Known
    <3>. QED  BY Zenon, <3>1, <3>2, <3>3, Adds
  <2>. QED  BY Zenon, <2>2, <2>3
<1>6. ASSUME proc'.part = "restore", proc'.pc = 3
      PROVE  module' = "candidate"
  <2>1. proc.part = "restore" /\ proc'.pc = proc.pc + 1
    <3>1. proc'.pc # 1
      BY <1>6
    <3>. QED  BY Zenon, <1>1, <1>6, <3>1 DEF Moved
  <2>2. proc.pc = 2
    BY <1>2, <1>6, <2>1
  <2>3. Op = I("candidate")
    BY Zenon, <1>1, <2>1, <2>2, OpPlaces, RestoreIs
  <2>4. Op.op = "identity" /\ Op.which = "candidate"
    BY Zenon, <2>3, Kinds
  <2>. QED  BY Zenon, <1>1, <2>4 DEF Performs
<1>. QED  BY Zenon, <1>4, <1>5, <1>6 DEF Known

(* The path of a process without a failure, part by part. *)
LEMMA SucceedsBefore ==
  ASSUME SwapInv, NEW q, Succeeds(q), ~proc.failed, proc.part = "before"
  PROVE  Path(proc.part, proc.pc)'
<1>TryBegins. ASSUME proc'.prog \in Progs, story' = <<>>, module' = "original"
              PROVE  InTry(1)'
  <2>. USE <1>TryBegins
  <2>1. Loading(1, 0, <<>>)'
    BY DEF Loading
  <2>2. ProbeTry(1)' /\ CaptureTry(1)'
    BY Zenon, <2>1 DEF ProbeTry, CaptureTry
  <2>3. QualifyTry(1)'
    BY Zenon DEF QualifyTry
  <2>. QED  BY Zenon, <2>2, <2>3 DEF InTry
<1>1. SwapTyped /\ Running /\ Moved
  BY Zenon, SucceedsMoves DEF SwapInv, Succeeds
<1>2. proc.prog \in Progs /\ proc.pc \in 1..3
  BY Zenon, <1>1, Runs, LengthIs
<1>3. story' = story /\ module' = module
  BY Zenon, Adds
<1>4. story = <<>>
  <2>1. CASE proc.pc = 1
    <3>1. 1 # 2 /\ 1 # 3
      OBVIOUS
    <3>2. Op.op = "mark"
      BY Zenon, <1>1, <2>1, <3>1, OpPlaces, Kinds
    <3>. QED  BY Zenon, <3>2 DEF SwapInv, Marked, Succeeds
  <2>2. CASE proc.pc # 1
    <3>1. proc.pc > 1
      BY <1>2, <2>2
    <3>. QED  BY Zenon, <3>1 DEF SwapInv, OnTrack, Path
  <2>. QED  BY Zenon, <2>1, <2>2
<1>5. CASE proc'.part = "before"
  BY Zenon, <1>3, <1>4, <1>5 DEF Path
<1>6. CASE proc'.part = "try" /\ proc'.pc = 1 /\ proc.pc = 3
  <2>1. module = "original"
    BY Zenon, <1>6 DEF SwapInv, Known
  <2>2. proc'.prog \in Progs
    BY Zenon, <1>1, <1>2 DEF Moved
  <2>3. InTry(1)'
    BY Zenon, <1>3, <1>4, <2>1, <2>2, <1>TryBegins
  <2>. QED  BY Zenon, <1>6, <2>3 DEF Path
<1>7. \/ proc'.part = "before"
      \/ proc'.part = "try" /\ proc'.pc = 1 /\ proc.pc = 3
  BY Zenon, <1>1, LengthIs DEF Moved
<1>. QED  BY Zenon, <1>5, <1>6, <1>7

(* In the try: the exchange, and the stages or the workloads around it. *)
LEMMA SucceedsTry ==
  ASSUME SwapInv, NEW q, Succeeds(q), ~proc.failed, proc.part = "try"
  PROVE  Path(proc.part, proc.pc)'
<1>LoadingStep. ASSUME NEW o \in Nat, NEW told \in Seq(Scene), NEW at \in Nat, NEW op,
                       \A i \in 1..5 : at = o + i => op = Load[i],
                       Loading(at, o, told), Performs(op)
                PROVE  /\ at \in (o + 1)..(o + 5)
                       /\ at # o + 5 => Loading(at + 1, o, told)'
                       /\ at = o + 5 => story' = told \o There /\ module' = "candidate"
  <2>. USE <1>LoadingStep
  <2>1. /\ at = o + 1 => op = T("rmmod") /\ at + 1 = o + 2 /\ at # o + 5
        /\ at = o + 2 => op = H(FALSE) /\ at + 1 = o + 3 /\ at # o + 5
        /\ at = o + 3 => op = T("insmod") /\ at + 1 = o + 4 /\ at # o + 5
        /\ at = o + 4 => op = I("candidate") /\ at + 1 = o + 5 /\ at # o + 5
        /\ at = o + 5 => op = H(TRUE)
    <3>1. /\ 1 \in 1..5 /\ 2 \in 1..5 /\ 3 \in 1..5 /\ 4 \in 1..5 /\ 5 \in 1..5
          /\ o + 1 + 1 = o + 2 /\ o + 2 + 1 = o + 3 /\ o + 3 + 1 = o + 4
          /\ o + 4 + 1 = o + 5 /\ o + 1 # o + 5 /\ o + 2 # o + 5 /\ o + 3 # o + 5
          /\ o + 4 # o + 5
      OBVIOUS
    <3>. QED  BY Zenon, <3>1, LoadIs
  <2>2. at = o + 1 \/ at = o + 2 \/ at = o + 3 \/ at = o + 4 \/ at = o + 5
    BY Zenon DEF Loading
  <2>3. at \in (o + 1)..(o + 5)
    BY <2>2
  <2>n. /\ o + 1 # o + 2 /\ o + 1 # o + 3 /\ o + 1 # o + 4 /\ o + 1 # o + 5
        /\ o + 2 # o + 4 /\ o + 2 # o + 5 /\ o + 3 # o + 4 /\ o + 3 # o + 5
        /\ o + 4 # o + 5
    OBVIOUS
  <2>4. CASE at = o + 1
    <3>1. story = told
      BY Zenon, <2>4, <2>n DEF Loading
    <3>2. module' = "none" /\ story' = Append(told, <<"none">>)
      BY Zenon, <2>1, <2>4, <3>1, Unloads
    <3>. QED  BY Zenon, <2>1, <2>3, <2>4, <3>2 DEF Loading
  <2>5. CASE at = o + 2
    <3>1. story = Append(told, <<"none">>) /\ module = "none"
      BY Zenon, <2>5, <2>n DEF Loading
    <3>2. op.op = "healthy"
      BY Zenon, <2>1, <2>5, Kinds
    <3>3. story' = story /\ module' = module
      BY Zenon, <3>2 DEF Performs
    <3>. QED  BY Zenon, <2>1, <2>3, <2>5, <3>1, <3>3 DEF Loading
  <2>6. CASE at = o + 3
    <3>1. story = Append(told, <<"none">>) /\ module = "none"
      BY Zenon, <2>6, <2>n DEF Loading
    <3>2. story' = Append(Append(told, <<"none">>), <<module'>>)
      BY Zenon, <2>1, <2>6, <3>1, Loads
    <3>. QED  BY Zenon, <2>1, <2>3, <2>6, <3>2 DEF Loading
  <2>7. CASE at = o + 4
    <3>1. story = Append(Append(told, <<"none">>), <<module>>)
      BY Zenon, <2>7, <2>n DEF Loading
    <3>2. op.op = "identity" /\ op.which = "candidate"
      BY Zenon, <2>1, <2>7, Kinds
    <3>3. story' = story /\ module' = module /\ module = "candidate"
      BY Zenon, <3>2 DEF Performs
    <3>4. story' = told \o There
      BY Zenon, <3>1, <3>3, Exchange
    <3>. QED  BY Zenon, <2>1, <2>3, <2>7, <3>3, <3>4 DEF Loading
  <2>8. CASE at = o + 5
    <3>1. story = told \o There /\ module = "candidate"
      BY Zenon, <2>8, <2>n DEF Loading
    <3>2. op.op = "healthy"
      BY Zenon, <2>1, <2>8, Kinds
    <3>3. story' = story /\ module' = module
      BY Zenon, <3>2 DEF Performs
    <3>. QED  BY Zenon, <2>3, <2>8, <3>1, <3>3
  <2>. QED  BY Zenon, <2>2, <2>4, <2>5, <2>6, <2>7, <2>8
(* The same for the workloads. *)
<1>WorkloadStep. ASSUME NEW o \in Nat, NEW told \in Seq(Scene), NEW at \in Nat,
                        at <= o + 5 * Len(Jobs), NEW op,
                        \A i \in 1..(5 * Len(Jobs)) : at = o + i => op = Workloads[i],
                        InWorkloads(at, o, told, Candidate), Performs(op)
                 PROVE  InWorkloads(at + 1, o, told, Candidate)'
  <2>. USE <1>WorkloadStep
  <2> DEFINE lines == Candidate
             n == Len(Jobs)
  <2>1. n \in Nat
    BY Zenon, JobAt
  <2>2. PICK d \in 0..n :
          \/ at = o + 5 * d + 1 /\ story = Tell(told, lines, 2 * d)
          \/ /\ d < n
             /\ \/ at = o + 5 * d + 2 /\ story = Tell(told, lines, 2 * d)
                \/ at = o + 5 * d + 3 /\ Decoding(told, lines, d)
                \/ at = o + 5 * d + 4 /\ Shown(told, lines, d)
                \/ at = o + 5 * d + 5 /\ story = Tell(told, lines, 2 * d + 2)
    BY Zenon DEF InWorkloads
  <2> HIDE DEF lines, n
  <2>3. d < n /\ d \in Nat
    BY <2>1, <2>2 DEF n
  <2>4. /\ Workloads[5 * d + 1] = I("candidate")
        /\ Workloads[5 * d + 2] = H(TRUE)
        /\ Workloads[5 * d + 3] = Decode("candidate", Jobs[d + 1])
        /\ Workloads[5 * d + 4] = Judge("candidate", Jobs[d + 1])
        /\ Workloads[5 * d + 5] = H(TRUE)
    BY Zenon, <2>3, WorkloadAt DEF n
  <2>5. \A r \in 1..5 : 5 * d + r \in 1..(5 * n) /\ o + 5 * d + r = o + (5 * d + r)
    BY <2>1, <2>3
  <2>6. /\ at = o + 5 * d + 1 => op = I("candidate")
        /\ at = o + 5 * d + 2 => op = H(TRUE)
        /\ at = o + 5 * d + 3 => op = Decode("candidate", Jobs[d + 1])
        /\ at = o + 5 * d + 4 => op = Judge("candidate", Jobs[d + 1])
        /\ at = o + 5 * d + 5 => op = H(TRUE)
    <3>1. 1 \in 1..5 /\ 2 \in 1..5 /\ 3 \in 1..5 /\ 4 \in 1..5 /\ 5 \in 1..5
      OBVIOUS
    <3>. QED  BY Zenon, <2>4, <2>5, <3>1 DEF n
  <2>7. Candidate = Decoded("candidate", "candidate")
        /\ "candidate" \in Names /\ "candidate" \in Modules
    BY Zenon DEF Candidate, Names, Modules
  <2>t. /\ Append(Tell(told, lines, 2 * d), <<"candidate", Jobs[d + 1], "candidate">>)
             = Tell(told, lines, 2 * d + 1)
        /\ Append(Tell(told, lines, 2 * d + 1), <<"right">>)
             = Tell(told, lines, 2 * d + 2)
    BY Zenon, <2>3, <2>7, TellTwo DEF lines, n
  <2>8. CASE at = o + 5 * d + 1 /\ story = Tell(told, lines, 2 * d)
    <3>1. at + 1 = o + 5 * d + 2
      BY <2>3, <2>8
    <3>o. op = I("candidate")
      BY Zenon, <2>6, <2>8
    <3>2. op.op = "identity"
      BY Zenon, <3>o DEF I
    <3>3. story' = story
      BY Zenon, <3>2 DEF Performs
    <3>4. story' = Tell(told, lines, 2 * d)
      BY Zenon, <2>8, <3>3
    <3>. QED  BY Zenon, <2>2, <2>3, <3>1, <3>4 DEF InWorkloads, lines, n
  <2>9. CASE at = o + 5 * d + 2 /\ story = Tell(told, lines, 2 * d)
    <3>1. at + 1 = o + 5 * d + 3
      BY <2>3, <2>9
    <3>o. op = H(TRUE)
      BY Zenon, <2>6, <2>9
    <3>2. op.op = "healthy"
      BY Zenon, <3>o DEF H
    <3>3. holders = {} /\ holders' = {} /\ story' = story
      BY Zenon, <3>2 DEF Performs
    <3>4. Decoding(told, lines, d)'
      BY Zenon, <2>9, <3>3 DEF Decoding
    <3>. QED  BY Zenon, <2>2, <2>3, <3>1, <3>4 DEF InWorkloads, lines, n
  <2>10. CASE at = o + 5 * d + 3 /\ Decoding(told, lines, d)
    <3>1. at + 1 = o + 5 * d + 4
      BY <2>3, <2>10
    <3>o. op = Decode("candidate", Jobs[d + 1])
      BY Zenon, <2>6, <2>10
    <3>2. op.op = "decode"
      BY Zenon, <3>o DEF Decode
    <3>3. "decoder" \in holders /\ story' = Append(story, <<proc'.out>>)
      BY Zenon, <3>2 DEF Performs
    <3>4. Shown(told, lines, d)'
      BY Zenon, <2>10, <3>3 DEF Decoding, Shown
    <3>. QED  BY Zenon, <2>2, <2>3, <3>1, <3>4 DEF InWorkloads, lines, n
  <2>11. CASE at = o + 5 * d + 4 /\ Shown(told, lines, d)
    <3>1. at + 1 = o + 5 * d + 5
      BY <2>3, <2>11
    <3>o. op = Judge("candidate", Jobs[d + 1])
      BY Zenon, <2>6, <2>11
    <3>2. op.op = "judge"
      BY Zenon, <3>o DEF Judge
    <3>3. story' = story /\ proc.out = "right"
      BY Zenon, <3>2 DEF Performs
    <3>4. story' = Tell(told, lines, 2 * d + 2)
      BY Zenon, <2>11, <3>3, <2>t DEF Shown
    <3>. QED  BY Zenon, <2>2, <2>3, <3>1, <3>4 DEF InWorkloads, lines, n
  <2>12. CASE at = o + 5 * d + 5 /\ story = Tell(told, lines, 2 * d + 2)
    <3> DEFINE e == d + 1
    <3>1. at + 1 = o + 5 * e + 1 /\ e \in 0..n /\ 2 * d + 2 = 2 * e
      BY <2>1, <2>3, <2>12
    <3>o. op = H(TRUE)
      BY Zenon, <2>6, <2>12
    <3>2. op.op = "healthy"
      BY Zenon, <3>o DEF H
    <3>3. story' = story
      BY Zenon, <3>2 DEF Performs
    <3> HIDE DEF e
    <3>. QED  BY Zenon, <2>12, <3>1, <3>3 DEF InWorkloads, lines, n
  <2>. QED  BY Zenon, <2>2, <2>8, <2>9, <2>10, <2>11, <2>12
<1>WorkloadsEnd. ASSUME NEW o \in Nat, NEW at \in Nat, NEW told, NEW lines,
                        InWorkloads(at, o, told, lines)
                 PROVE  /\ at \in (o + 1)..(o + 5 * Len(Jobs) + 1)
                        /\ at = o + 5 * Len(Jobs) + 1 => story = Tell(told, lines, 2 * Len(Jobs))
  <2>. USE <1>WorkloadsEnd
  <2> DEFINE n == Len(Jobs)
  <2>1. n \in Nat
    BY Zenon, JobAt
  <2>2. PICK d \in 0..n :
          \/ at = o + 5 * d + 1 /\ story = Tell(told, lines, 2 * d)
          \/ /\ d < n
             /\ \/ at = o + 5 * d + 2 \/ at = o + 5 * d + 3 \/ at = o + 5 * d + 4
                \/ at = o + 5 * d + 5
    BY Zenon DEF InWorkloads
  <2> HIDE DEF n
  <2>3. at \in (o + 1)..(o + 5 * n + 1)
    BY <2>1, <2>2
  <2>4. at = o + 5 * n + 1 => d = n /\ at = o + 5 * d + 1
    BY <2>1, <2>2
  <2>5. d < n => at # o + 5 * n + 1
    BY <2>1, <2>2
  <2>6. at = o + 5 * n + 1 => story = Tell(told, lines, 2 * n)
    BY Zenon, <2>2, <2>4, <2>5
  <2>. QED  BY Zenon, <2>3, <2>6 DEF n
<1>StaysInWorkloads. ASSUME NEW o \in Nat, NEW at \in (o + 1)..(o + 5 * Len(Jobs)), NEW op,
                            \A i \in 1..(5 * Len(Jobs)) : at = o + i => op = Workloads[i]
                     PROVE  op.op # "transition"
  <2>. USE <1>StaysInWorkloads
  <2> DEFINE i == at - o
  <2>1. i \in 1..(5 * Len(Jobs)) /\ at = o + i
    BY JobAt
  <2> HIDE DEF i
  <2>. QED  BY Zenon, <2>1, WorkloadAt, ChecksTransitNothing
<1>StaysInStage. ASSUME NEW name \in Names, NEW o \in Nat, NEW at \in (o + 1)..(o + 4 * Len(Jobs)),
                        NEW op, OfStage(name, o, at, op)
                 PROVE  op.op # "transition"
  <2>. USE <1>StaysInStage
  <2> DEFINE i == at - o
  <2>1. i \in 1..(4 * Len(Jobs)) /\ at = o + i
    BY JobAt
  <2> HIDE DEF i
  <2>2. op = StageOps(name)[i] /\ StageOps(name) \in Seq(Checks)
        /\ i \in 1..Len(StageOps(name))
    BY Zenon, <2>1, StageAt DEF OfStage
  <2>. QED  BY Zenon, <2>2, ChecksTransitNothing
<1>ShortTryStep. ASSUME NEW prog \in {"probe", "capture"}, NEW at \in 1..Length(prog, "try"),
                        NEW op, op = Script(prog)["try"][at], Performs(op)
                 PROVE  /\ prog = "probe" /\ ProbeTry(at) => ProbeTry(at + 1)'
                        /\ prog = "capture" /\ CaptureTry(at) => CaptureTry(at + 1)'
  <2>. USE <1>ShortTryStep
  <2> DEFINE n == Len(Jobs)
  <2>1. n \in Nat
    BY Zenon, JobAt
  <2>2. at \in Nat
    BY PartsAre DEF Progs, Parts
  <2>3. /\ \A i \in 1..5 : at = 0 + i => op = Load[i]
        /\ at = 6 => op = Do("preflight")
        /\ prog = "probe" => at \in 1..6
        /\ prog = "capture" =>
             /\ at \in 1..(6 + 5 * n)
             /\ \A i \in 1..(5 * n) : at = 6 + i => op = Workloads[i]
    <3>1. ShortAt(prog, at, op)
      BY Zenon, ShortOps
    <3>. QED  BY Zenon, <3>1 DEF ShortAt
  <2>4. 0 \in Nat /\ 6 \in Nat /\ 0 + 5 + 1 = 6 /\ 6 + 1 = 7
    OBVIOUS
  <2>5. ASSUME Loading(at, 0, <<>>)
        PROVE  \/ Loading(at + 1, 0, <<>>)'
               \/ at + 1 = 6 /\ story' = There /\ module' = "candidate"
    BY Zenon, <2>2, <2>3, <2>4, <2>5, <1>LoadingStep, StoryLines
  <2>6. ASSUME at = 6
        PROVE  story' = story /\ module' = module
    <3>1. op.op = "preflight"
      BY Zenon, <2>3, <2>6, Kinds
    <3>. QED  BY Zenon, <3>1 DEF Performs
  <2>7. ASSUME prog = "probe", ProbeTry(at)
        PROVE  ProbeTry(at + 1)'
    <3>1. CASE Loading(at, 0, <<>>)
      BY Zenon, <2>5, <3>1 DEF ProbeTry
    <3>2. CASE at \in {6, 7} /\ story = There /\ module = "candidate"
      <4>1. at = 6
        BY <2>3, <2>7, <3>2
      <4>. QED  BY Zenon, <2>4, <2>6, <3>2, <4>1 DEF ProbeTry
    <3>. QED  BY Zenon, <2>7, <3>1, <3>2 DEF ProbeTry
  <2>8. ASSUME prog = "capture", CaptureTry(at)
        PROVE  CaptureTry(at + 1)'
    <3>1. CASE Loading(at, 0, <<>>)
      BY Zenon, <2>5, <3>1 DEF CaptureTry
    <3>2. CASE module = "candidate" /\ at = 6 /\ story = There
      <4>1. story' = There /\ module' = "candidate"
        BY Zenon, <2>6, <3>2
      <4>2. InWorkloads(6 + 1, 6, There, Candidate)'
        BY Zenon, <2>4, <4>1, Begun, StoryLines
      <4>. QED  BY Zenon, <3>2, <4>1, <4>2 DEF CaptureTry
    <3>3. CASE module = "candidate" /\ InWorkloads(at, 6, There, Candidate)
      <4>1. at \in (6 + 1)..(6 + 5 * n + 1)
        BY Zenon, <2>2, <2>4, <3>3, <1>WorkloadsEnd
      <4>2. at <= 6 + 5 * n /\ at \in (6 + 1)..(6 + 5 * n)
        BY <2>1, <2>3, <2>8, <4>1
      <4>3. InWorkloads(at + 1, 6, There, Candidate)'
        BY Zenon, <2>2, <2>3, <2>4, <2>8, <3>3, <4>2, <1>WorkloadStep, StoryLines
      <4>4. op.op # "transition"
        BY Zenon, <2>3, <2>4, <2>8, <4>2, <1>StaysInWorkloads
      <4>5. module' = "candidate"
        BY Zenon, <3>3, <4>4 DEF Performs
      <4>. QED  BY Zenon, <4>3, <4>5 DEF CaptureTry
    <3>. QED  BY Zenon, <2>8, <3>1, <3>2, <3>3 DEF CaptureTry
  <2>. QED  BY Zenon, <2>7, <2>8
<1>LongTryStep. ASSUME NEW at \in 1..Length("qualify", "try"), NEW op,
                       op = Script("qualify")["try"][at], Performs(op), QualifyTry(at)
                PROVE  QualifyTry(at + 1)'
  <2>. USE <1>LongTryStep
  <2> DEFINE n == Len(Jobs)
             a == 4 * n + 2
             c == 4 * n + 8
  <2>1. n \in Nat
    BY Zenon, JobAt
  <2>2. /\ at \in 1..(8 * n + 8)
        /\ at = 1 => op = I("original")
        /\ \A i \in 1..(4 * n) : at = 1 + i => op = StageOps("baseline")[i]
        /\ at = a => op = H(TRUE)
        /\ \A i \in 1..5 : at = a + i => op = Load[i]
        /\ at = c => op = I("candidate")
        /\ \A i \in 1..(4 * n) : at = c + i => op = StageOps("candidate")[i]
    <3>1. LongAt(at, op)
      BY Zenon, LongOps
    <3>. QED  BY Zenon, <3>1 DEF LongAt
  <2>3. /\ at \in Nat /\ a \in Nat /\ c \in Nat /\ 1 \in Nat /\ a = 1 + 4 * n + 1
        /\ a + 5 + 1 = c /\ 8 * n + 8 = c + 4 * n
    BY <2>1, <2>2
  <2>4. \/ module = "original" /\ at = 1 /\ story = <<>>
        \/ module = "original" /\ InStage(at, 1, <<>>, Baseline)
        \/ Loading(at, a, Baseline)
        \/ module = "candidate" /\ at = c /\ story = Baseline \o There
        \/ module = "candidate" /\ InStage(at, c, Baseline \o There, Candidate)
    BY Zenon DEF QualifyTry
  <2>5. \/ module' = "original" /\ InStage(at + 1, 1, <<>>, Baseline)'
        \/ Loading(at + 1, a, Baseline)'
        \/ module' = "candidate" /\ at + 1 = c /\ story' = Baseline \o There
        \/ module' = "candidate" /\ InStage(at + 1, c, Baseline \o There, Candidate)'
    <3> HIDE DEF a, c, n
    <3>1. CASE module = "original" /\ at = 1 /\ story = <<>>
      <4>1. op.op = "identity"
        BY Zenon, <2>2, <3>1, Kinds
      <4>2. story' = <<>> /\ module' = "original"
        BY Zenon, <3>1, <4>1 DEF Performs
      <4>. QED  BY Zenon, <2>3, <3>1, <4>2, Begun, StoryLines
    <3>2. CASE module = "original" /\ InStage(at, 1, <<>>, Baseline)
      <4>1. at \in (1 + 1)..(1 + 4 * n + 1)
        BY Zenon, <2>3, <3>2, StageEnds DEF n
      <4>2. CASE at = 1 + 4 * n + 1
        <5>1. story = Tell(<<>>, Baseline, 2 * n)
          BY Zenon, <2>3, <3>2, <4>2, StageEnds DEF n
        <5>2. story = Baseline
          BY Zenon, <5>1, AllTold, StoryLines DEF n
        <5>3. op.op = "healthy"
          BY Zenon, <2>2, <2>3, <4>2, Kinds
        <5>4. story' = Baseline /\ module' = "original"
          BY Zenon, <3>2, <5>2, <5>3 DEF Performs
        <5>. QED  BY Zenon, <2>3, <4>2, <5>4 DEF Loading
      <4>3. CASE at # 1 + 4 * n + 1
        <5>1. at <= 1 + 4 * n /\ at \in (1 + 1)..(1 + 4 * n)
          BY <2>1, <4>1, <4>3 DEF n
        <5>2. InStage(at + 1, 1, <<>>, Baseline)'
          BY Zenon, <2>2, <2>3, <3>2, <5>1, StageStep, StoryLines DEF n
        <5>h. OfStage("baseline", 1, at, op) /\ "baseline" \in Names
          BY Zenon, <2>2 DEF OfStage, n, Names
        <5>3. op.op # "transition"
          BY Zenon, <2>3, <5>1, <5>h, <1>StaysInStage DEF n
        <5>. QED  BY Zenon, <3>2, <5>2, <5>3 DEF Performs
      <4>. QED  BY Zenon, <4>2, <4>3
    <3>3. CASE Loading(at, a, Baseline)
      BY Zenon, <2>2, <2>3, <3>3, <1>LoadingStep, StoryLines
    <3>4. CASE module = "candidate" /\ at = c /\ story = Baseline \o There
      <4>1. op.op = "identity"
        BY Zenon, <2>2, <3>4, Kinds
      <4>2. story' = Baseline \o There /\ module' = "candidate"
        BY Zenon, <3>4, <4>1 DEF Performs
      <4>. QED  BY Zenon, <2>3, <3>4, <4>2, Begun, StoryLines
    <3>5. CASE module = "candidate" /\ InStage(at, c, Baseline \o There, Candidate)
      <4>1. at \in (c + 1)..(c + 4 * n + 1)
        BY Zenon, <2>3, <3>5, StageEnds DEF n
      <4>2. at <= c + 4 * n /\ at \in (c + 1)..(c + 4 * n)
        BY <2>1, <2>2, <2>3, <4>1 DEF n
      <4>3. InStage(at + 1, c, Baseline \o There, Candidate)'
        BY Zenon, <2>2, <2>3, <3>5, <4>2, StageStep, StoryLines DEF n
      <4>h. OfStage("candidate", c, at, op) /\ "candidate" \in Names
        BY Zenon, <2>2 DEF OfStage, n, Names
      <4>4. op.op # "transition"
        BY Zenon, <2>3, <4>2, <4>h, <1>StaysInStage DEF n
      <4>. QED  BY Zenon, <3>5, <4>3, <4>4 DEF Performs
    <3>. QED  BY Zenon, <2>4, <3>1, <3>2, <3>3, <3>4, <3>5
  <2>. QED  BY Zenon, <2>5 DEF QualifyTry
(* An operation of the try that succeeds, *)
<1>TryStep. ASSUME proc.prog \in Progs, proc'.prog = proc.prog,
                   NEW at \in 1..Length(proc.prog, "try"), NEW op,
                   op = Script(proc.prog)["try"][at], Performs(op), InTry(at)
            PROVE  InTry(at + 1)'
  <2>. USE <1>TryStep
  <2>1. CASE proc.prog = "probe"
    <3>1. ProbeTry(at + 1)'
      BY Zenon, <2>1, <1>ShortTryStep DEF InTry
    <3>. QED  BY Zenon, <2>1, <3>1 DEF InTry
  <2>2. CASE proc.prog = "capture"
    <3>1. CaptureTry(at + 1)'
      BY Zenon, <2>2, <1>ShortTryStep DEF InTry
    <3>. QED  BY Zenon, <2>2, <3>1 DEF InTry
  <2>3. CASE proc.prog = "qualify"
    <3>1. QualifyTry(at + 1)'
      BY Zenon, <2>3, <1>LongTryStep DEF InTry
    <3>. QED  BY Zenon, <2>3, <3>1 DEF InTry
  <2>. QED  BY Zenon, <2>1, <2>2, <2>3 DEF Progs
(* The ends of the stages and of the try, after a step. *)
<1>StageEndsNext. ASSUME NEW o \in Nat, NEW at \in Nat, NEW told, NEW lines,
                         InStage(at, o, told, lines)'
                  PROVE  /\ at \in (o + 1)..(o + 4 * Len(Jobs) + 1)
                         /\ at = o + 4 * Len(Jobs) + 1 => story' = Tell(told, lines, 2 * Len(Jobs))
  <2>. USE <1>StageEndsNext
  <2> DEFINE n == Len(Jobs)
  <2>1. n \in Nat
    BY Zenon, JobAt
  <2>2. PICK d \in 0..n :
          \/ at = o + 4 * d + 1 /\ story' = Tell(told, lines, 2 * d)
          \/ /\ d < n
             /\ \/ at = o + 4 * d + 2 \/ at = o + 4 * d + 3 \/ at = o + 4 * d + 4
    BY Zenon DEF InStage
  <2> HIDE DEF n
  <2>3. at \in (o + 1)..(o + 4 * n + 1)
    BY <2>1, <2>2
  <2>4. at = o + 4 * n + 1 => d = n /\ at = o + 4 * d + 1
    BY <2>1, <2>2
  <2>5. d < n => at # o + 4 * n + 1
    BY <2>1, <2>2
  <2>6. at = o + 4 * n + 1 => story' = Tell(told, lines, 2 * n)
    BY Zenon, <2>2, <2>4, <2>5
  <2>. QED  BY Zenon, <2>3, <2>6 DEF n
<1>WorkloadsEndNext. ASSUME NEW o \in Nat, NEW at \in Nat, NEW told, NEW lines,
                            InWorkloads(at, o, told, lines)'
                     PROVE  /\ at \in (o + 1)..(o + 5 * Len(Jobs) + 1)
                            /\ at = o + 5 * Len(Jobs) + 1 => story' = Tell(told, lines, 2 * Len(Jobs))
  <2>. USE <1>WorkloadsEndNext
  <2> DEFINE n == Len(Jobs)
  <2>1. n \in Nat
    BY Zenon, JobAt
  <2>2. PICK d \in 0..n :
          \/ at = o + 5 * d + 1 /\ story' = Tell(told, lines, 2 * d)
          \/ /\ d < n
             /\ \/ at = o + 5 * d + 2 \/ at = o + 5 * d + 3 \/ at = o + 5 * d + 4
                \/ at = o + 5 * d + 5
    BY Zenon DEF InWorkloads
  <2> HIDE DEF n
  <2>3. at \in (o + 1)..(o + 5 * n + 1)
    BY <2>1, <2>2
  <2>4. at = o + 5 * n + 1 => d = n /\ at = o + 5 * d + 1
    BY <2>1, <2>2
  <2>5. d < n => at # o + 5 * n + 1
    BY <2>1, <2>2
  <2>6. at = o + 5 * n + 1 => story' = Tell(told, lines, 2 * n)
    BY Zenon, <2>2, <2>4, <2>5
  <2>. QED  BY Zenon, <2>3, <2>6 DEF n
<1>TryDoneNext. ASSUME proc'.prog \in Progs, NEW at, at = Length(proc'.prog, "try") + 1,
                       InTry(at)'
                PROVE  story' = Outward(proc'.prog) /\ module' = "candidate"
  <2>. USE <1>TryDoneNext
  <2> DEFINE n == Len(Jobs)
  <2>1. n \in Nat
    BY Zenon, JobAt
  <2>2. CASE proc'.prog = "probe"
    <3>1. Length(proc'.prog, "try") = 6
      BY Zenon, <2>2, LengthIs
    <3>2. at # 0 + 1 /\ at # 0 + 2 /\ at # 0 + 3 /\ at # 0 + 4 /\ at # 0 + 5
      BY <3>1
    <3>3. ~Loading(at, 0, <<>>)'
      BY Zenon, <3>2 DEF Loading
    <3>4. story' = There /\ module' = "candidate"
      BY Zenon, <2>2, <3>3 DEF InTry, ProbeTry
    <3>. QED  BY Zenon, <2>2, <3>4 DEF Outward
  <2>3. CASE proc'.prog = "capture"
    <3>1. Length(proc'.prog, "try") = 6 + 5 * n
      BY Zenon, <2>3, LengthIs
    <3>2. /\ at # 0 + 1 /\ at # 0 + 2 /\ at # 0 + 3 /\ at # 0 + 4 /\ at # 0 + 5
          /\ at # 6 /\ at \in Nat /\ 6 \in Nat /\ at = 6 + 5 * n + 1
      BY <2>1, <3>1
    <3>3. ~Loading(at, 0, <<>>)'
      BY Zenon, <3>2 DEF Loading
    <3>4. InWorkloads(at, 6, There, Candidate)' /\ module' = "candidate"
      BY Zenon, <2>3, <3>2, <3>3 DEF InTry, CaptureTry
    <3>5. story' = Tell(There, Candidate, 2 * n)
      BY Zenon, <3>2, <3>4, <1>WorkloadsEndNext
    <3>6. story' = There \o Candidate
      BY Zenon, <3>5, AllTold, StoryLines
    <3>. QED  BY Zenon, <2>3, <3>4, <3>6 DEF Outward
  <2>4. CASE proc'.prog = "qualify"
    <3> DEFINE a == 4 * n + 2
               c == 4 * n + 8
    <3>1. Length(proc'.prog, "try") = 8 * n + 8
      BY Zenon, <2>4, LengthIs
    <3>2. /\ at # a + 1 /\ at # a + 2 /\ at # a + 3 /\ at # a + 4 /\ at # a + 5
          /\ at # 1 /\ at # c /\ at \in Nat /\ 1 \in Nat /\ c \in Nat
          /\ at = c + 4 * n + 1 /\ at \notin (1 + 1)..(1 + 4 * n + 1)
      BY <2>1, <3>1
    <3>3. ~Loading(at, a, Baseline)'
      <4> HIDE DEF a
      <4>. QED  BY Zenon, <3>2 DEF Loading
    <3>4. ~InStage(at, 1, <<>>, Baseline)'
      BY Zenon, <3>2, <1>StageEndsNext
    <3>5. InStage(at, c, Baseline \o There, Candidate)' /\ module' = "candidate"
      BY Zenon, <2>4, <3>2, <3>3, <3>4 DEF InTry, QualifyTry
    <3> HIDE DEF c
    <3>6. story' = Tell(Baseline \o There, Candidate, 2 * n)
      BY Zenon, <3>2, <3>5, <1>StageEndsNext
    <3>7. story' = Baseline \o There \o Candidate
      BY Zenon, <3>6, AllTold, StoryLines
    <3>. QED  BY Zenon, <2>4, <3>5, <3>7 DEF Outward
  <2>. QED  BY Zenon, <2>2, <2>3, <2>4 DEF Progs
<1>1. SwapTyped /\ Running /\ Moved /\ Performs(Op)
  BY Zenon, SucceedsMoves DEF SwapInv, Succeeds
<1>2. /\ proc.prog \in Progs /\ proc.pc \in 1..Length(proc.prog, "try")
      /\ Op = Script(proc.prog)["try"][proc.pc]
  BY Zenon, <1>1, Runs
<1>3. proc'.prog = proc.prog /\ (proc'.restored <=> proc.restored)
  BY Zenon, <1>1 DEF Moved
<1>4. InTry(proc.pc) /\ ~proc.restored
  BY Zenon DEF SwapInv, OnTrack, Path
<1>5. \A n : n = proc.pc + 1 => InTry(n)'
  <2>. DEFINE at == proc.pc
  <2>1. /\ at \in 1..Length(proc.prog, "try") /\ Op = Script(proc.prog)["try"][at]
        /\ InTry(at)
    BY Zenon, <1>2, <1>4
  <2>2. ASSUME NEW n, n = at, NEW op, op = Op  PROVE InTry(n + 1)'
    <3>1. /\ n \in 1..Length(proc.prog, "try") /\ op = Script(proc.prog)["try"][n]
          /\ InTry(n) /\ Performs(op)
      BY Zenon, <1>1, <2>1, <2>2
    <3>. QED  BY Zenon, <1>2, <1>3, <3>1, <1>TryStep
  <2>. QED  BY Zenon, <2>2
<1>6. CASE proc'.part = "try" /\ proc'.pc = proc.pc + 1
  BY Zenon, <1>5, <1>6 DEF Path
<1>7. CASE proc.pc = Length(proc.prog, "try") /\ proc'.pc = 1
             /\ proc'.part \in {"restore", "terminal"}
  <2>1. ASSUME NEW n, n = proc.pc + 1
        PROVE  story' = Outward(proc.prog)' /\ module' = "candidate"
    <3>1. InTry(n)' /\ proc'.prog \in Progs /\ n = Length(proc'.prog, "try") + 1
      BY Zenon, <1>2, <1>3, <1>5, <1>7, <2>1
    <3>. QED  BY Zenon, <3>1, <1>TryDoneNext
  <2>2. story' = Outward(proc.prog)' /\ module' = "candidate"
    BY Zenon, <2>1
  <2>3. Returning(1, Outward(proc.prog))'
    BY <2>2 DEF Returning
  <2>4. Returning(proc.pc, Outward(proc.prog))'
    BY Zenon, <1>7, <2>3
  <2>. QED  BY Zenon, <1>3, <1>4, <1>7, <2>4 DEF Path
<1>8. \/ proc'.part = "try" /\ proc'.pc = proc.pc + 1
      \/ /\ proc.pc = Length(proc.prog, "try") /\ proc'.pc = 1
         /\ proc'.part \in {"restore", "terminal"}
  BY Zenon, <1>1 DEF Moved
<1>. QED  BY Zenon, <1>6, <1>7, <1>8

(* In the restoration, which a process without a failure reaches at its    *)
(* end of the try.                                                         *)
LEMMA SucceedsRestore ==
  ASSUME SwapInv, NEW q, Succeeds(q), ~proc.failed, proc.part = "restore"
  PROVE  Path(proc.part, proc.pc)'
<1>ReturningStep. ASSUME NEW told \in Seq(Scene), NEW at \in 1..8, NEW op, op = Restore[at],
                         Returning(at, told), Performs(op)
                  PROVE  Returning(at + 1, told)'
  <2>. USE <1>ReturningStep
  <2>1. /\ at = 1 \/ at = 2 \/ at = 3 \/ at = 4 \/ at = 5 \/ at = 6 \/ at = 7 \/ at = 8
        /\ 1 + 1 = 2 /\ 2 + 1 = 3 /\ 3 + 1 = 4 /\ 4 + 1 = 5 /\ 5 + 1 = 6 /\ 6 + 1 = 7
        /\ 7 + 1 = 8 /\ 8 + 1 = 9
    OBVIOUS
  <2>2. \A k : k \in 1..3 <=> k = 1 \/ k = 2 \/ k = 3
    OBVIOUS
  <2>3. \A k : k \in 7..9 <=> k = 7 \/ k = 8 \/ k = 9
    OBVIOUS
  <2>4. /\ 1 # 4 /\ 1 # 5 /\ 1 # 6 /\ 1 # 7 /\ 1 # 8 /\ 1 # 9
        /\ 2 # 4 /\ 2 # 5 /\ 2 # 6 /\ 2 # 7 /\ 2 # 8 /\ 2 # 9
        /\ 3 # 4 /\ 3 # 5 /\ 3 # 6 /\ 3 # 7 /\ 3 # 8 /\ 3 # 9
        /\ 4 # 6 /\ 4 # 7 /\ 4 # 8 /\ 4 # 9 /\ 5 # 6 /\ 5 # 7 /\ 5 # 8 /\ 5 # 9
        /\ 6 # 7 /\ 6 # 8 /\ 6 # 9
    OBVIOUS
  <2>5. op.op # "transition" /\ op.op # "decode" => story' = story /\ module' = module
    BY Zenon DEF Performs
  <2>6. CASE at = 1 \/ at = 2
    <3>1. story = told /\ module = "candidate"
      BY Zenon, <2>2, <2>3, <2>4, <2>6 DEF Returning
    <3>2. op = Do("loaded") \/ op = I("candidate")
      BY Zenon, <2>6, RestoreIs
    <3>3. op.op # "transition" /\ op.op # "decode"
      BY Zenon, <3>2, Kinds
    <3>4. at + 1 \in 1..3
      BY <2>6
    <3>. QED  BY Zenon, <2>5, <3>1, <3>3, <3>4 DEF Returning
  <2>7. CASE at = 3
    <3>1. story = told
      BY Zenon, <2>2, <2>3, <2>4, <2>7 DEF Returning
    <3>2. module' = "none" /\ story' = Append(told, <<"none">>)
      BY Zenon, <2>7, <3>1, RestoreIs, Unloads
    <3>. QED  BY Zenon, <2>1, <2>7, <3>2 DEF Returning
  <2>8. CASE at = 4
    <3>1. story = Append(told, <<"none">>) /\ module = "none"
      BY Zenon, <2>2, <2>3, <2>4, <2>8 DEF Returning
    <3>2. op = H(FALSE)
      BY Zenon, <2>8, RestoreIs
    <3>3. op.op # "transition" /\ op.op # "decode"
      BY Zenon, <3>2, Kinds
    <3>. QED  BY Zenon, <2>1, <2>5, <2>8, <3>1, <3>3 DEF Returning
  <2>9. CASE at = 5
    <3>1. story = Append(told, <<"none">>) /\ module = "none"
      BY Zenon, <2>2, <2>3, <2>4, <2>9 DEF Returning
    <3>2. story' = Append(Append(told, <<"none">>), <<module'>>)
      BY Zenon, <2>9, <3>1, RestoreIs, Loads
    <3>. QED  BY Zenon, <2>1, <2>9, <3>2 DEF Returning
  <2>10. CASE at = 6
    <3>1. story = Append(Append(told, <<"none">>), <<module>>)
      BY Zenon, <2>2, <2>3, <2>4, <2>10 DEF Returning
    <3>2. op = I("original")
      BY Zenon, <2>10, RestoreIs
    <3>3. op.op = "identity" /\ op.which = "original"
      BY Zenon, <3>2, Kinds
    <3>4. story' = story /\ module' = module /\ module = "original"
      BY Zenon, <3>3 DEF Performs
    <3>5. story' = told \o Back
      BY Zenon, <3>1, <3>4, Exchange
    <3>. QED  BY Zenon, <2>1, <2>3, <2>10, <3>4, <3>5 DEF Returning
  <2>11. CASE at = 7 \/ at = 8
    <3>1. story = told \o Back /\ module = "original"
      BY Zenon, <2>2, <2>3, <2>4, <2>11 DEF Returning
    <3>2. op = H(TRUE) \/ op = Do("restored")
      BY Zenon, <2>11, RestoreIs
    <3>3. op.op # "transition" /\ op.op # "decode"
      BY Zenon, <3>2, Kinds
    <3>4. at + 1 \in 7..9
      BY <2>11
    <3>. QED  BY Zenon, <2>5, <3>1, <3>3, <3>4 DEF Returning
  <2>. QED  BY Zenon, <2>1, <2>6, <2>7, <2>8, <2>9, <2>10, <2>11
<1>1. SwapTyped /\ Running /\ Moved /\ Performs(Op)
  BY Zenon, SucceedsMoves DEF SwapInv, Succeeds
<1>2. /\ proc.prog \in Progs /\ proc.pc \in 1..8 /\ Op = Restore[proc.pc]
  BY Zenon, <1>1, Runs, OpPlaces
<1>3. proc'.prog = proc.prog
  BY Zenon, <1>1 DEF Moved
<1>4. Returning(proc.pc, Outward(proc.prog))
  BY Zenon DEF SwapInv, OnTrack, Path
<1>5. \A n, told : n = proc.pc + 1 /\ told = Outward(proc.prog) => Returning(n, told)'
  <2>1. ASSUME NEW n, n = proc.pc, NEW op, op = Op, NEW told, told = Outward(proc.prog)
        PROVE  Returning(n + 1, told)'
    <3>1. /\ n \in 1..8 /\ op = Restore[n] /\ Returning(n, told) /\ Performs(op)
          /\ told \in Seq(Scene)
      BY Zenon, <1>1, <1>2, <1>4, <2>1, OutwardIs
    <3>. QED  BY Zenon, <3>1, <1>ReturningStep
  <2>. QED  BY Zenon, <2>1
<1>6. CASE proc'.part = "restore" /\ proc'.pc = proc.pc + 1
  <2>1. Returning(proc.pc, Outward(proc.prog))'
    BY Zenon, <1>3, <1>5, <1>6
  <2>. QED  BY Zenon, <1>6, <2>1 DEF Path
<1>7. CASE proc.pc = 8 /\ proc'.part = "terminal"
  <2>1. ASSUME NEW told, told = Outward(proc.prog)
        PROVE  story' = told \o Back /\ module' = "original"
    <3>1. 9 = proc.pc + 1
      BY <1>7
    <3>2. Returning(9, told)'
      BY Zenon, <1>5, <2>1, <3>1
    <3>. QED  BY <3>2 DEF Returning
  <2>2. story' = Outward(proc.prog) \o Back /\ module' = "original"
    BY Zenon, <2>1
  <2>3. story' = Outward(proc.prog)' \o Back /\ module' = "original"
    BY Zenon, <1>3, <2>2
  <2>. QED  BY Zenon, <1>7, <2>3 DEF Path
<1>8. \/ proc'.part = "restore" /\ proc'.pc = proc.pc + 1
      \/ proc.pc = 8 /\ proc'.part = "terminal"
  BY Zenon, <1>1, LengthIs DEF Moved
<1>. QED  BY Zenon, <1>6, <1>7, <1>8

(* After the restoration, where qualify.py has its third stage. *)
LEMMA SucceedsAfter ==
  ASSUME SwapInv, NEW q, Succeeds(q), ~proc.failed, proc.part = "after"
  PROVE  Path(proc.part, proc.pc)'
<1>AfterStep. ASSUME proc.prog \in Progs, proc'.prog = proc.prog,
                     NEW at \in 1..Length(proc.prog, "after"),
                     at # Length(proc.prog, "after"), NEW op,
                     op = Script(proc.prog)["after"][at], Performs(op), InAfter(at)
              PROVE  InAfter(at + 1)'
  <2>. USE <1>AfterStep
  <2> DEFINE n == Len(Jobs)
             told == Outward("qualify") \o Back
  <2>1. n \in Nat
    BY Zenon, JobAt
  <2>2. proc.prog = "qualify"
    <3>1. SUFFICES ASSUME proc.prog # "qualify"  PROVE FALSE
      BY Zenon
    <3>2. Length(proc.prog, "after") = 1
      BY Zenon, <3>1, LengthIs
    <3>. QED  BY <3>2
  <2>3. AfterAt(at, op) /\ at # 4 * n + 3
    BY Zenon, <2>2, AfterOps, LengthIs
  <2>4. /\ at \in Nat /\ 1 \in Nat /\ 1 + 4 * n + 1 = 4 * n + 2
        /\ 4 * n + 2 + 1 = 4 * n + 3
    BY <2>1, <2>3 DEF AfterAt
  <2>5. module' = module /\ module = "original"
    BY Zenon, <2>2, <2>3 DEF AfterAt, Performs, InAfter
  <2>6. told \in Seq(Scene) /\ TheStory' = told \o Again
    <3>1. TheStory = told \o Again
      BY Zenon, <2>2, StoryIs
    <3>2. TheStory' = TheStory
      BY Zenon DEF TheStory
    <3>3. told \in Seq(Scene)
      BY Zenon, OutwardIs DEF Progs
    <3>. QED  BY Zenon, <3>1, <3>2, <3>3
  <2>7. \/ at = 1 /\ story = told
        \/ InStage(at, 1, told, Again)
    BY Zenon, <2>2, <2>3 DEF InAfter
  <2>8. \/ InStage(at + 1, 1, told, Again)'
        \/ at + 1 = 4 * n + 3 /\ story' = TheStory'
    <3> HIDE DEF told
    <3>1. CASE at = 1 /\ story = told
      <4>1. op.op = "identity"
        BY Zenon, <2>3, <3>1, Kinds DEF AfterAt
      <4>2. story' = told
        BY Zenon, <3>1, <4>1 DEF Performs
      <4>. QED  BY Zenon, <2>4, <2>6, <3>1, <4>2, Begun, StoryLines
    <3>2. CASE InStage(at, 1, told, Again)
      <4>1. at \in (1 + 1)..(1 + 4 * n + 1)
        BY Zenon, <2>4, <3>2, StageEnds
      <4>2. CASE at = 1 + 4 * n + 1
        <5>1. story = Tell(told, Again, 2 * n)
          BY Zenon, <2>4, <3>2, <4>2, StageEnds
        <5>2. story = told \o Again
          BY Zenon, <2>6, <5>1, AllTold, StoryLines
        <5>3. op.op = "healthy"
          BY Zenon, <2>3, <2>4, <4>2, Kinds DEF AfterAt
        <5>4. story' = story
          BY Zenon, <5>3 DEF Performs
        <5>. QED  BY Zenon, <2>4, <2>6, <4>2, <5>2, <5>4
      <4>3. CASE at # 1 + 4 * n + 1
        <5>1. at <= 1 + 4 * n
          BY <2>1, <4>1, <4>3
        <5>2. \A i \in 1..(4 * n) : at = 1 + i => op = StageOps("restored")[i]
          BY Zenon, <2>3 DEF AfterAt
        <5>3. InStage(at + 1, 1, told, Again)'
          BY Zenon, <2>4, <2>6, <3>2, <5>1, <5>2, StageStep, StoryLines
        <5>. QED  BY Zenon, <5>3
      <4>. QED  BY Zenon, <4>2, <4>3
    <3>. QED  BY Zenon, <2>7, <3>1, <3>2
  <2>. QED  BY Zenon, <2>2, <2>5, <2>8 DEF InAfter
<1>1. SwapTyped /\ Running /\ Moved /\ Performs(Op)
  BY Zenon, SucceedsMoves DEF SwapInv, Succeeds
<1>2. /\ proc.prog \in Progs /\ proc.pc \in 1..Length(proc.prog, "after")
      /\ Op = Script(proc.prog)["after"][proc.pc]
  BY Zenon, <1>1, Runs
<1>3. proc'.prog = proc.prog
  BY Zenon, <1>1 DEF Moved
<1>4. InAfter(proc.pc)
  BY Zenon DEF SwapInv, OnTrack, Path
<1>5. proc'.part = "after" /\ proc'.pc = proc.pc + 1
      /\ proc.pc # Length(proc.prog, "after")
  <2>1. proc.pc # Length(proc.prog, "after")
    BY Zenon, <1>1, OpPlaces DEF Succeeds
  <2>. QED  BY Zenon, <1>1, <2>1 DEF Moved
<1>6. \A n : n = proc.pc + 1 => InAfter(n)'
  <2>1. ASSUME NEW n, n = proc.pc, NEW op, op = Op
        PROVE  InAfter(n + 1)'
    <3>1. /\ n \in 1..Length(proc.prog, "after") /\ op = Script(proc.prog)["after"][n]
          /\ n # Length(proc.prog, "after") /\ InAfter(n) /\ Performs(op)
      BY Zenon, <1>1, <1>2, <1>4, <1>5, <2>1
    <3>. QED  BY Zenon, <1>2, <1>3, <3>1, <1>AfterStep
  <2>. QED  BY Zenon, <2>1
<1>. QED  BY Zenon, <1>5, <1>6 DEF Path

(* An operation that succeeds keeps the invariant. *)
LEMMA SucceedsKeepsInv ==
  ASSUME SwapInv, NEW q, Succeeds(q)
  PROVE  SwapInv'
<1>1. Moved /\ ~Ends("complete")
  BY Zenon, SucceedsMoves
<1>2. SwapTyped'
  <2>1. /\ module' \in Modules /\ proc' \in Process /\ log' \in Seq(Event)
        /\ story' \in Seq(Scene)
    BY Zenon, <1>1 DEF Moved, Succeeds
  <2>2. SwapTyped /\ Running
    BY Zenon DEF SwapInv, Succeeds
  <2>3. proc'.part \in Parts
    BY Zenon, <1>1 DEF Moved, Parts
  <2>4. Len(Ops(proc')) = Length(proc'.prog, proc'.part) /\ 1 \in 1..Len(Ops(proc'))
    BY Zenon, <2>1, <2>3, OpsLength
  <2>5. proc'.pc \in 1..Len(Ops(proc'))
    <3>1. CASE proc'.pc = 1
      BY Zenon, <2>4, <3>1
    <3>2. CASE proc'.pc # 1
      <4>1. proc.pc < Length(proc.prog, proc.part) /\ proc'.pc = proc.pc + 1
            /\ proc'.prog = proc.prog /\ proc'.part = proc.part
        BY Zenon, <1>1, <3>2 DEF Moved
      <4>2. proc.pc \in 1..Length(proc.prog, proc.part)
            /\ proc.part \in Parts /\ proc.prog \in Progs
        BY Zenon, <2>2, Runs
      <4>3. Length(proc.prog, proc.part) \in Nat
        BY Zenon, <4>2, PartsAre
      <4>4. proc'.pc \in 1..Length(proc.prog, proc.part)
        BY <4>1, <4>2, <4>3
      <4>. QED  BY Zenon, <2>4, <4>1, <4>4
    <3>. QED  BY Zenon, <3>1, <3>2
  <2>. QED  BY Zenon, <2>1, <2>5 DEF SwapTyped
<1>3. Marked' /\ Stopped'
  BY Zenon, <1>1 DEF Moved, Marked, Stopped
<1>4. OneLoad' /\ Known'
  BY Zenon, SucceedsOneLoad, SucceedsKnown
<1>5. OnTrack'
  <2>1. proc'.failed = proc.failed
    BY Zenon, <1>1 DEF Moved
  <2>2. proc'.part = "after" => ~proc'.failed
    BY Zenon, <1>1, <2>1 DEF Moved, SwapInv, OnTrack
  <2>3. ASSUME ~proc'.failed, proc'.part \in {"before", "try"}
        PROVE  ~proc'.restored
    <3>1. proc.part \in {"before", "try"}
      BY Zenon, <1>1, <2>3 DEF Moved
    <3>. QED  BY Zenon, <1>1, <2>1, <2>3, <3>1 DEF Moved, SwapInv, OnTrack
  <2>4. ASSUME ~proc'.failed  PROVE Path(proc.part, proc.pc)'
    <3>1. proc.part \in {"before", "try", "restore", "after"}
      BY Zenon, <1>1 DEF Moved
    <3>. QED  BY Zenon, <2>1, <2>4, <3>1, SucceedsBefore, SucceedsTry,
                 SucceedsRestore, SucceedsAfter
  <2>. QED  BY Zenon, <2>2, <2>3, <2>4 DEF OnTrack
<1>6. Told'
  <2>1. ~Ends("complete")'
    BY Zenon, <1>1 DEF Succeeds, Ends
  <2>. QED  BY Zenon, <2>1 DEF Told
<1>. QED  BY Zenon, <1>2, <1>3, <1>4, <1>5, <1>6 DEF SwapInv

-----------------------------------------------------------------------------
(* What the log is given. *)
LEMMA Records ==
  ASSUME log \in Seq(Event), NEW x \in Seq(NotDone), log' = log \o x
  PROVE  /\ log' \in Seq(Event)
         /\ Ends("complete")' => log' = log
<1>1. <<>> \in Seq(NotDone)
  OBVIOUS
<1>2. log \o x \o <<>> = log \o x
  <2>1. x \in Seq(Event)
    <3>1. NotDone \subseteq Event
      BY Zenon DEF NotDone
    <3>. QED  BY <3>1
  <2>. QED  BY <2>1
<1>3. /\ log' \in Seq(Event)
      /\ log' = log \/ (log' # <<>> /\ log'[Len(log')].event # "complete")
  BY Zenon, <1>1, <1>2, LastEvent
<1>. QED  BY Zenon, <1>3 DEF Ends

(* The same for a single event. *)
LEMMA RecordsOne ==
  ASSUME log \in Seq(Event), NEW e \in NotDone, Record(e)
  PROVE  /\ log' \in Seq(Event)
         /\ Ends("complete")' => log' = log
<1>1. <<e>> \in Seq(NotDone)
  OBVIOUS
<1>2. log' = log \o <<e>>
  <2>1. e \in Event
    BY Zenon DEF NotDone
  <2>. QED  BY <2>1 DEF Record
<1>. QED  BY Zenon, <1>1, <1>2, Records

(* The events that are not the completion marker. *)
LEMMA PlainEvents ==
  /\ [event |-> "unhealthy"] \in NotDone
  /\ [event |-> "preflight"] \in NotDone
  /\ [event |-> "restored"] \in NotDone
  /\ \A r, w \in BOOLEAN : [event |-> "terminal", restored |-> r, well |-> w] \in NotDone
  /\ \A s \in Names : \A j \in Range(Jobs) :
       [event |-> "accepted", stage |-> s, job |-> j] \in NotDone
  /\ \A a \in Argvs : [event |-> "attempt", argv |-> a] \in NotDone
  /\ \A a \in Argvs : \A c \in {0, 1} :
       [event |-> "result", argv |-> a, rc |-> c] \in NotDone
BY DEF NotDone, Event

(* What an operation is about. *)
LEMMA OpArgv ==
  ASSUME SwapTyped
  PROVE  /\ At("transition") => Op.argv \in Argvs
         /\ At("judge") => Op.stage \in Names /\ Op.job \in Range(Jobs)
         /\ At("decode") => Op.stage \in Names /\ Op.job \in Range(Jobs)
<1>1. ASSUME Running  PROVE Op \in Operations
  BY Zenon, <1>1, Runs
<1>2. \A o \in Operations : /\ o.op = "transition" => o.argv \in Argvs
                            /\ o.op \in {"judge", "decode"} =>
                                 o.stage \in Names /\ o.job \in Range(Jobs)
  BY DEF Operations, Checks
<1>. QED  BY Zenon, <1>1, <1>2 DEF At, Op

(* A check that succeeds. *)
LEMMA QuietKeepsInv ==
  ASSUME SwapInv, Running, Goes(proc),
         Op.op \notin {"complete", "terminal", "decode", "transition", "restored"},
         Op.op = "healthy" => holders = {},
         Op.op = "identity" => module = Op.which,
         Op.op = "judge" => proc.out = "right",
         Op.op = "mark" => ~attempted /\ attempted',
         Op.op = "loaded" => ~faulted,
         attempted => attempted',
         module' = module, story' = story, holders' = holders,
         log' \in Seq(Event), Ends("complete")' => log' = log
  PROVE  SwapInv'
<1>1. SwapTyped
  BY Zenon DEF SwapInv
<1>2. /\ proc \in Process /\ proc.part \in Parts
      /\ proc.pc \in 1..Length(proc.prog, proc.part)
  BY Zenon, <1>1, Runs
<1>3. proc'.out = proc.out
  BY Zenon, <1>2, StepIs DEF Goes, Alike
<1>4. Performs(Op)
  BY Zenon, <1>3 DEF Performs
<1>5. Succeeds(proc)
  BY Zenon, <1>1, <1>2, <1>4 DEF Succeeds, Goes, SwapTyped
<1>. QED  BY Zenon, <1>5, SucceedsKeepsInv

(* The single-use marker is created, *)
LEMMA MarkKeepsInv == SwapInv /\ Mark => SwapInv'
<1>1. SUFFICES ASSUME SwapInv, Mark  PROVE SwapInv'
  BY Zenon
<1>2. Running /\ Op.op = "mark"
  BY Zenon, <1>1 DEF Mark, At, Op
<1>3. /\ Goes(proc) /\ ~attempted /\ attempted' /\ log' = log
      /\ module' = module /\ story' = story /\ holders' = holders
  BY Zenon, <1>1 DEF Mark, device
<1>4. log \in Seq(Event)
  BY Zenon, <1>1 DEF SwapInv, SwapTyped
<1>. QED  BY Zenon, <1>1, <1>2, <1>3, <1>4, QuietKeepsInv

(* a health check passes, *)
LEMMA HealthyKeepsInv == SwapInv /\ Healthy => SwapInv'
<1>1. SUFFICES ASSUME SwapInv, Healthy  PROVE SwapInv'
  BY Zenon
<1>2. Running /\ Op.op = "healthy"
  BY Zenon, <1>1 DEF Healthy, At, Op
<1>3. /\ Goes(proc) /\ attempted' = attempted /\ log' = log /\ holders = {}
      /\ module' = module /\ story' = story /\ holders' = holders
  BY Zenon, <1>1 DEF Healthy, device, disk, Reads, Unhealthy
<1>4. log \in Seq(Event)
  BY Zenon, <1>1 DEF SwapInv, SwapTyped
<1>. QED  BY Zenon, <1>1, <1>2, <1>3, <1>4, QuietKeepsInv

(* the module is the expected one, *)
LEMMA IdentityKeepsInv == SwapInv /\ Identity => SwapInv'
<1>1. SUFFICES ASSUME SwapInv, Identity  PROVE SwapInv'
  BY Zenon
<1>2. Running /\ Op.op = "identity"
  BY Zenon, <1>1 DEF Identity, At, Op
<1>3. /\ Goes(proc) /\ attempted' = attempted /\ log' = log /\ module = Op.which
      /\ module' = module /\ story' = story /\ holders' = holders
  BY Zenon, <1>1 DEF Identity, device, disk
<1>4. log \in Seq(Event)
  BY Zenon, <1>1 DEF SwapInv, SwapTyped
<1>. QED  BY Zenon, <1>1, <1>2, <1>3, <1>4, QuietKeepsInv

(* the recorders are there and off, *)
LEMMA PreflightKeepsInv == SwapInv /\ Preflight => SwapInv'
<1>1. SUFFICES ASSUME SwapInv, Preflight  PROVE SwapInv'
  BY Zenon
<1>2. Running /\ Op.op = "preflight"
  BY Zenon, <1>1 DEF Preflight, At, Op
<1>3. /\ Goes(proc) /\ attempted' = attempted /\ Record([event |-> "preflight"])
      /\ module' = module /\ story' = story /\ holders' = holders
  BY Zenon, <1>1 DEF Preflight, device
<1>4. log \in Seq(Event)
  BY Zenon, <1>1 DEF SwapInv, SwapTyped
<1>5. log' \in Seq(Event) /\ (Ends("complete")' => log' = log)
  BY Zenon, <1>3, <1>4, PlainEvents, RecordsOne
<1>. QED  BY Zenon, <1>1, <1>2, <1>3, <1>5, QuietKeepsInv

(* a job is accepted. *)
LEMMA JudgesKeepsInv == SwapInv /\ Judges => SwapInv'
<1>1. SUFFICES ASSUME SwapInv, Judges  PROVE SwapInv'
  BY Zenon
<1>2. Running /\ Op.op = "judge" /\ At("judge")
  BY Zenon, <1>1 DEF Judges, At, Op
<1>3. /\ Goes(proc) /\ attempted' = attempted /\ proc.out = "right"
      /\ Record([event |-> "accepted", stage |-> Op.stage, job |-> Op.job])
      /\ module' = module /\ story' = story /\ holders' = holders
  BY Zenon, <1>1 DEF Judges, device
<1>4. log \in Seq(Event) /\ SwapTyped
  BY Zenon, <1>1 DEF SwapInv, SwapTyped
<1>5. [event |-> "accepted", stage |-> Op.stage, job |-> Op.job] \in NotDone
  BY Zenon, <1>2, <1>4, OpArgv, PlainEvents
<1>6. log' \in Seq(Event) /\ (Ends("complete")' => log' = log)
  BY Zenon, <1>3, <1>4, <1>5, RecordsOne
<1>. QED  BY Zenon, <1>1, <1>2, <1>3, <1>6, QuietKeepsInv

(* A process of which one field changes. *)
SamePlace(p, q) ==
  /\ q \in Process /\ q.prog = p.prog /\ q.part = p.part /\ q.pc = p.pc

GivesOut(p, v, q) ==
  /\ SamePlace(p, q) /\ q.out = v /\ q.saw = p.saw
  /\ q.failed = p.failed /\ q.restored = p.restored

(* The decoder ends. *)
LEMMA ExitsKeepsInv == SwapInv /\ Exits => SwapInv'
<1>ProcOut. ASSUME NEW p \in Process, NEW v \in Outs
            PROVE  GivesOut(p, v, [p EXCEPT !.out = v])
  BY Zenon, <1>ProcOut DEF Process, SamePlace, GivesOut
<1>1. SUFFICES ASSUME SwapInv, Exits  PROVE SwapInv'
  BY Zenon
<1>2. Running /\ Op.op = "decode"
  BY Zenon, <1>1 DEF Exits, At, Op
<1>3. SwapTyped
  BY Zenon, <1>1 DEF SwapInv
<1>4. /\ proc \in Process /\ proc.part \in Parts
      /\ proc.pc \in 1..Length(proc.prog, proc.part)
  BY Zenon, <1>2, <1>3, Runs
<1>5. PICK out \in {"right", "wrong"} : Goes([proc EXCEPT !.out = out])
  BY Zenon, <1>1 DEF Exits
<1>. DEFINE q == [proc EXCEPT !.out = out]
<1>6. out \in Outs
  BY Zenon, <1>5 DEF Outs
<1>7. /\ q \in Process /\ q.out = out /\ q.prog = proc.prog /\ q.part = proc.part
      /\ q.pc = proc.pc /\ q.saw = proc.saw /\ q.failed = proc.failed
      /\ q.restored = proc.restored /\ proc' = Step(q, 1)
  <2>1. proc' = Step(q, 1)
    BY Zenon, <1>5 DEF Goes
  <2>2. GivesOut(proc, out, q)
    BY Zenon, <1>4, <1>6, <1>ProcOut
  <2>. HIDE DEF q
  <2>. QED  BY Zenon, <2>1, <2>2 DEF GivesOut, SamePlace
<1>. HIDE DEF q
<1>8. proc'.out = out
  BY Zenon, <1>4, <1>7, StepIs DEF Alike
<1>9. /\ "decoder" \in holders /\ "decoder" \notin holders' /\ module' = module
      /\ story' = Append(story, <<proc'.out>>) /\ attempted' = attempted
      /\ log' = log
  BY Zenon, <1>1 DEF Exits, disk
<1>10. Performs(Op)
  BY Zenon, <1>2, <1>9 DEF Performs
<1>11. /\ story' \in Seq(Scene) /\ module' \in Modules /\ log' \in Seq(Event)
  <2>1. story \in Seq(Scene) /\ module \in Modules /\ log \in Seq(Event)
    BY Zenon, <1>3 DEF SwapTyped
  <2>2. <<out>> \in Scene
    BY Zenon, <1>6 DEF Scene
  <2>3. Append(story, <<out>>) \in Seq(Scene)
    BY <2>1, <2>2
  <2>. QED  BY Zenon, <1>8, <1>9, <2>1, <2>3
<1>12. Succeeds(q)
  BY Zenon, <1>2, <1>5, <1>7, <1>8, <1>9, <1>10, <1>11 DEF Succeeds
<1>. QED  BY Zenon, <1>1, <1>12, SucceedsKeepsInv

(* A transition leaves a module and a story. *)
LEMMA HappensTyped ==
  ASSUME SwapTyped, NEW argv \in Argvs, Happens(argv)
  PROVE  module' \in Modules /\ story' \in Seq(Scene)
<1>1. module \in Modules /\ story \in Seq(Scene)
  BY Zenon DEF SwapTyped
<1>2. Effect(argv) \in Modules
  <2>1. \A f \in {"original", "candidate"} : Pinned(f) \in Modules
    BY Zenon DEF Pinned, Modules
  <2>2. CASE argv = "rmmod"
    BY Zenon, <1>1, <2>2 DEF Effect, Modules
  <2>3. CASE argv = "insmod"
    BY <1>1, <2>1, <2>3 DEF Effect
  <2>4. CASE argv = "modprobe"
    BY <1>1, <2>1, <2>4 DEF Effect
  <2>. QED  BY Zenon, <2>2, <2>3, <2>4 DEF Argvs
<1>3. module' \in Modules
  BY Zenon, <1>2 DEF Happens
<1>4. <<module'>> \in Scene
  BY Zenon, <1>3 DEF Scene
<1>5. Append(story, <<module'>>) \in Seq(Scene)
  BY <1>1, <1>4
<1>. QED  BY Zenon, <1>1, <1>3, <1>5 DEF Happens

(* A transition succeeds. *)
LEMMA TransitionKeepsInv == SwapInv /\ Transition => SwapInv'
<1>ProcChanged. ASSUME NEW p \in Process, NEW q, q = [p EXCEPT !.changed = TRUE]
                PROVE  /\ SamePlace(p, q) /\ q.out = p.out /\ q.saw = p.saw
                       /\ q.failed = p.failed /\ q.restored = p.restored
  BY Zenon, <1>ProcChanged DEF Process, SamePlace
<1>1. SUFFICES ASSUME SwapInv, Transition  PROVE SwapInv'
  BY Zenon
<1>2. Running /\ Op.op = "transition" /\ At("transition")
  BY Zenon, <1>1 DEF Transition, At, Op
<1>3. SwapTyped
  BY Zenon, <1>1 DEF SwapInv
<1>4. /\ proc \in Process /\ proc.part \in Parts
      /\ proc.pc \in 1..Length(proc.prog, proc.part)
  BY Zenon, <1>2, <1>3, Runs
<1>. DEFINE q == IF proc.part = "try" /\ Op.argv = "rmmod"
                 THEN [proc EXCEPT !.changed = TRUE] ELSE proc
<1>5. proc' = Step(q, 1)
  BY Zenon, <1>1 DEF Transition, Goes
<1>6. /\ q \in Process /\ q.out = proc.out /\ q.prog = proc.prog
      /\ q.part = proc.part /\ q.pc = proc.pc /\ q.saw = proc.saw
      /\ q.failed = proc.failed /\ q.restored = proc.restored
  <2>1. CASE q = proc
    BY Zenon, <1>4, <2>1
  <2>2. CASE q = [proc EXCEPT !.changed = TRUE]
    BY Zenon, <1>4, <2>2, <1>ProcChanged DEF SamePlace
  <2>. QED  BY Zenon, <2>1, <2>2
<1>. HIDE DEF q
<1>7. proc'.out = proc.out
  BY Zenon, <1>4, <1>5, <1>6, StepIs DEF Alike
<1>8. /\ Happens(Op.argv) /\ (module' # module \/ Op.argv = "modprobe")
      /\ log' = log \o <<Attempt, Result(0)>> /\ holders' = holders
      /\ attempted' = attempted
  BY Zenon, <1>1 DEF Transition
<1>9. Performs(Op)
  BY Zenon, <1>2, <1>7, <1>8 DEF Performs
<1>10. Op.argv \in Argvs
  BY Zenon, <1>2, <1>3, OpArgv
<1>11. module' \in Modules /\ story' \in Seq(Scene)
  BY Zenon, <1>3, <1>8, <1>10, HappensTyped
<1>12. log' \in Seq(Event) /\ (Ends("complete")' => log' = log)
  <2>1. Attempt \in NotDone /\ Result(0) \in NotDone
    BY Zenon, <1>10, PlainEvents DEF Attempt, Result
  <2>2. <<Attempt, Result(0)>> \in Seq(NotDone)
    BY <2>1
  <2>3. log \in Seq(Event)
    BY Zenon, <1>3 DEF SwapTyped
  <2>. QED  BY Zenon, <1>8, <2>2, <2>3, Records
<1>13. Succeeds(q)
  BY Zenon, <1>2, <1>5, <1>6, <1>8, <1>9, <1>11, <1>12 DEF Succeeds
<1>. QED  BY Zenon, <1>1, <1>13, SucceedsKeepsInv

(* The original is back. *)
LEMMA RestoredKeepsInv == SwapInv /\ Restored => SwapInv'
<1>ProcRestored. ASSUME NEW p \in Process, NEW q, q = [p EXCEPT !.restored = TRUE]
                 PROVE  /\ SamePlace(p, q) /\ q.out = p.out /\ q.saw = p.saw
                        /\ q.failed = p.failed
  BY Zenon, <1>ProcRestored DEF Process, SamePlace
<1>1. SUFFICES ASSUME SwapInv, Restored  PROVE SwapInv'
  BY Zenon
<1>2. Running /\ Op.op = "restored"
  BY Zenon, <1>1 DEF Restored, At, Op
<1>3. SwapTyped
  BY Zenon, <1>1 DEF SwapInv
<1>4. /\ proc \in Process /\ proc.part \in Parts
      /\ proc.pc \in 1..Length(proc.prog, proc.part)
  BY Zenon, <1>2, <1>3, Runs
<1>. DEFINE q == [proc EXCEPT !.restored = TRUE]
<1>5. proc' = Step(q, 1)
  BY Zenon, <1>1 DEF Restored, Goes
<1>6. /\ q \in Process /\ q.out = proc.out /\ q.prog = proc.prog
      /\ q.part = proc.part /\ q.pc = proc.pc /\ q.saw = proc.saw
      /\ q.failed = proc.failed
  BY Zenon, <1>4, <1>ProcRestored DEF SamePlace
<1>. HIDE DEF q
<1>7. proc'.out = proc.out
  BY Zenon, <1>4, <1>5, <1>6, StepIs DEF Alike
<1>8. /\ attempted' = attempted /\ Record([event |-> "restored"])
      /\ module' = module /\ story' = story /\ holders' = holders
  BY Zenon, <1>1 DEF Restored, device
<1>9. Performs(Op)
  BY Zenon, <1>2, <1>7, <1>8 DEF Performs
<1>10. log' \in Seq(Event) /\ (Ends("complete")' => log' = log)
  BY Zenon, <1>3, <1>8, PlainEvents, RecordsOne DEF SwapTyped
<1>11. module' \in Modules /\ story' \in Seq(Scene)
  BY Zenon, <1>3, <1>8 DEF SwapTyped
<1>12. Succeeds(q)
  BY Zenon, <1>2, <1>5, <1>6, <1>8, <1>9, <1>10, <1>11 DEF Succeeds
<1>. QED  BY Zenon, <1>1, <1>12, SucceedsKeepsInv

(* Where the program looks what is loaded, and where it completes. *)
LEMMA LoadedPlace ==
  ASSUME SwapTyped, Running
  PROVE  /\ Op.op = "loaded" => proc.part = "restore" /\ proc.pc = 1
         /\ Op.op = "terminal" => proc.part = "terminal" /\ proc.pc = 1
         /\ Op.op = "complete" =>
              proc.part = "after" /\ proc.pc = Length(proc.prog, "after")
         /\ Op.op = "decode" => proc.part \in {"try", "after"}
<1>1. proc.part \in Parts
  BY Zenon, Runs
<1>2. /\ "loaded" \notin Plain /\ "terminal" \notin Plain /\ "complete" \notin Plain
  BY Zenon DEF Plain
<1>3. ASSUME proc.part = "restore"
      PROVE  /\ Op.op = "loaded" => proc.pc = 1
             /\ Op.op \notin {"terminal", "complete", "decode"}
  <2>1. Op = Restore[proc.pc] /\ proc.pc \in 1..8
    BY Zenon, <1>3, OpPlaces
  <2>2. proc.pc \in {1, 2, 3, 4, 5, 6, 7, 8}
    BY <2>1
  <2>. QED  BY Zenon, <2>1, <2>2, RestoreIs, Kinds
<1>4. ASSUME proc.part = "before"
      PROVE  Op.op \notin {"loaded", "terminal", "complete", "decode"}
  BY Zenon, <1>4, OpPlaces, Kinds
<1>5. ASSUME proc.part = "try"
      PROVE  Op.op \notin {"loaded", "terminal", "complete"}
  BY Zenon, <1>2, <1>5, OpPlaces
<1>6. ASSUME proc.part = "terminal"
      PROVE  Op.op = "terminal" /\ proc.pc = 1
  BY Zenon, <1>6, OpPlaces, Kinds
<1>7. ASSUME proc.part = "after"
      PROVE  /\ Op.op \notin {"loaded", "terminal"}
             /\ Op.op = "complete" => proc.pc = Length(proc.prog, "after")
  BY Zenon, <1>2, <1>7, OpPlaces
<1>. QED  BY Zenon, <1>1, <1>3, <1>4, <1>5, <1>6, <1>7 DEF Parts

(* The restoration looks what is loaded: after a failure it starts from    *)
(* wherever the failure left the module.                                   *)
LEMMA LoadedKeepsInv == SwapInv /\ Loaded => SwapInv'
<1>1. SUFFICES ASSUME SwapInv, Loaded  PROVE SwapInv'
  BY Zenon
<1>2. Running /\ Op.op = "loaded"
  BY Zenon, <1>1 DEF Loaded, At, Op
<1>3. /\ attempted' = attempted /\ log' = log /\ holders = {} /\ ~faulted
      /\ module' = module /\ story' = story /\ holders' = holders
  BY Zenon, <1>1 DEF Loaded, device, disk, Reads, Unhealthy
<1>4. SwapTyped /\ log \in Seq(Event)
  BY Zenon, <1>1 DEF SwapInv, SwapTyped
<1>5. CASE module # "none"
  <2>1. Goes(proc)
    BY Zenon, <1>1, <1>5 DEF Loaded, Goes
  <2>. QED  BY Zenon, <1>1, <1>2, <1>3, <1>4, <2>1, QuietKeepsInv
<1>6. CASE module = "none"
  <2>1. proc.part = "restore" /\ proc.pc = 1
    BY Zenon, <1>2, <1>4, LoadedPlace
  <2>2. proc \in Process /\ proc.prog \in Progs /\ Len(Ops(proc)) = 8
    BY Zenon, <1>2, <1>4, <2>1, Runs, OpsLength, LengthIs
  <2>3. proc' = [proc EXCEPT !.pc = 4]
    <3>1. proc' = Step(proc, 3)
      BY Zenon, <1>1, <1>6 DEF Loaded
    <3>2. ~(proc.pc + 3 > Len(Ops(proc))) /\ proc.pc + 3 = 4
      BY <2>1, <2>2
    <3>. QED  BY Zenon, <3>1, <3>2 DEF Step
  <2>4. /\ proc' \in Process /\ proc'.prog = proc.prog /\ proc'.part = "restore"
        /\ proc'.pc = 4 /\ proc'.saw = proc.saw /\ proc'.failed = proc.failed
    BY Zenon, <2>1, <2>2, <2>3 DEF Process
  <2>5. Len(Ops(proc')) = 8
    <3>1. Ops(proc') = Ops(proc)
      BY Zenon, <2>1, <2>4 DEF Ops
    <3>. QED  BY Zenon, <2>2, <3>1
  <2>6. SwapTyped'
    <3>1. proc'.pc \in 1..Len(Ops(proc'))
      BY <2>4, <2>5
    <3>. QED  BY Zenon, <1>3, <1>4, <2>4, <3>1 DEF SwapTyped
  <2>7. attempted
    BY Zenon, <1>1, <2>1 DEF SwapInv, Marked
  <2>8. Marked' /\ OneLoad'
    BY Zenon, <1>3, <2>4, <2>7 DEF Marked, OneLoad
  <2>9. Known'
    <3>1. 4 # 3
      OBVIOUS
    <3>. QED  BY Zenon, <2>4, <3>1 DEF Known
  <2>10. Stopped'
    BY Zenon, <1>1, <1>3, <2>4 DEF SwapInv, Stopped
  <2>11. proc.failed
    <3>1. SUFFICES ASSUME ~proc.failed  PROVE FALSE
      BY Zenon
    <3>2. Returning(1, Outward(proc.prog))
      BY Zenon, <1>1, <2>1, <3>1 DEF SwapInv, OnTrack, Path
    <3>3. module = "candidate"
      BY <3>2 DEF Returning
    <3>. QED  BY Zenon, <1>6, <3>3
  <2>12. OnTrack'
    BY Zenon, <2>4, <2>11 DEF OnTrack
  <2>13. Told'
    <3>1. ~Ends("complete")
      BY Zenon, <1>1, <1>2, <2>1, NotEnded
    <3>. QED  BY Zenon, <1>3, <3>1 DEF Told, Ends
  <2>. QED  BY Zenon, <2>6, <2>8, <2>9, <2>10, <2>12, <2>13 DEF SwapInv
<1>. QED  BY Zenon, <1>5, <1>6

(* The terminal record is written. *)
LEMMA TerminalKeepsInv == SwapInv /\ Terminal => SwapInv'
<1>1. SUFFICES ASSUME SwapInv, Terminal  PROVE SwapInv'
  BY Zenon
<1>2. Running /\ Op.op = "terminal"
  BY Zenon, <1>1 DEF Terminal, At, Op
<1>. DEFINE well == ~Unhealthy /\ module # "none"
<1>3. /\ attempted' = attempted /\ module' = module /\ story' = story
      /\ Record([event |-> "terminal", restored |-> proc.restored, well |-> well])
      /\ proc' = Leave(proc) /\ faulted' = faulted
  BY Zenon, <1>1 DEF Terminal, device
<1>4. SwapTyped /\ log \in Seq(Event)
  BY Zenon, <1>1 DEF SwapInv, SwapTyped
<1>5. proc.part = "terminal"
  BY Zenon, <1>2, <1>4, LoadedPlace
<1>6. proc \in Process /\ proc.part \in Parts /\ proc.prog \in Progs
  BY Zenon, <1>2, <1>4, Runs
<1>7. /\ proc' \in Process /\ proc'.part = Following(proc) /\ proc'.pc = 1
      /\ proc'.prog = proc.prog /\ proc'.failed = proc.failed
      /\ proc'.saw = proc.saw /\ proc'.restored = proc.restored
  BY Zenon, <1>3, <1>6, LeaveIs DEF Alike
<1>8. \/ proc'.part = "ended"
      \/ proc'.part = "after" /\ ~proc.failed /\ proc.restored
  BY Zenon, <1>5, <1>7, FollowingIs
<1>9. log' \in Seq(Event) /\ ~Ends("complete")'
  <2>1. proc.restored \in BOOLEAN /\ well \in BOOLEAN
    <3>1. well \in BOOLEAN
      BY Zenon
    <3>. QED  BY Zenon, <1>6, <3>1 DEF Process
  <2>. HIDE DEF well
  <2>2. [event |-> "terminal", restored |-> proc.restored, well |-> well] \in NotDone
    BY Zenon, <2>1, PlainEvents
  <2>3. log' \in Seq(Event) /\ (Ends("complete")' => log' = log)
    BY Zenon, <1>3, <1>4, <2>2, RecordsOne
  <2>4. ~Ends("complete")
    BY Zenon, <1>1, <1>2, <1>5, NotEnded
  <2>. QED  BY Zenon, <2>3, <2>4 DEF Ends
<1>10. SwapTyped'
  <2>1. ASSUME proc'.part = "after"  PROVE proc'.pc \in 1..Len(Ops(proc'))
    <3>1. proc'.part \in Parts
      BY Zenon, <2>1 DEF Parts
    <3>. QED  BY Zenon, <1>7, <3>1, OpsLength
  <2>2. Running' => proc'.part = "after"
    BY Zenon, <1>8 DEF Running
  <2>. QED  BY Zenon, <1>3, <1>4, <1>7, <1>9, <2>1, <2>2 DEF SwapTyped
<1>11. attempted
  BY Zenon, <1>1, <1>5 DEF SwapInv, Marked
<1>12. Marked' /\ OneLoad' /\ Known'
  BY Zenon, <1>3, <1>8, <1>11 DEF Marked, OneLoad, Known
<1>13. Stopped'
  BY Zenon, <1>1, <1>3, <1>7, <1>8 DEF SwapInv, Stopped
<1>14. OnTrack'
  <2>1. ASSUME proc'.part = "after"  PROVE InAfter(1)'
    <3>1. story = Outward(proc.prog) \o Back /\ module = "original"
      BY Zenon, <1>1, <1>5, <1>8, <2>1 DEF SwapInv, OnTrack, Path
    <3>2. TheStory' = TheStory
      BY Zenon, <1>7 DEF TheStory
    <3>3. CASE proc.prog = "qualify"
      BY Zenon, <1>3, <1>7, <3>1, <3>3 DEF InAfter
    <3>4. CASE proc.prog # "qualify"
      <4>1. story' = TheStory'
        BY Zenon, <1>3, <1>6, <3>1, <3>2, <3>4, StoryIs
      <4>. QED  BY Zenon, <1>7, <3>4, <4>1 DEF InAfter
    <3>. QED  BY Zenon, <3>3, <3>4
  <2>. QED  BY Zenon, <1>7, <1>8, <2>1 DEF OnTrack, Path
<1>15. Told'
  BY Zenon, <1>9 DEF Told
<1>. QED  BY Zenon, <1>10, <1>12, <1>13, <1>14, <1>15 DEF SwapInv

(* The completion marker is written: all is told. *)
LEMMA CompleteKeepsInv == SwapInv /\ Complete => SwapInv'
<1>ProcFailed. ASSUME NEW p \in Process, NEW q, q = [p EXCEPT !.failed = FALSE]
               PROVE  SamePlace(p, q) /\ q.saw = p.saw /\ q.failed = FALSE
  BY Zenon, <1>ProcFailed DEF Process, SamePlace
<1>AfterDone. ASSUME proc.prog \in Progs, NEW at, at = Length(proc.prog, "after"), InAfter(at)
              PROVE  story = TheStory
  <2>. USE <1>AfterDone
  <2> DEFINE n == Len(Jobs)
  <2>1. n \in Nat
    BY Zenon, JobAt
  <2>2. CASE proc.prog # "qualify"
    BY Zenon, <2>2 DEF InAfter
  <2>3. CASE proc.prog = "qualify"
    <3>1. at = 4 * n + 3
      BY Zenon, <2>3, LengthIs
    <3>2. at # 1 /\ at \notin (1 + 1)..(1 + 4 * n + 1) /\ at \in Nat /\ 1 \in Nat
      BY <2>1, <3>1
    <3>3. ~InStage(at, 1, Outward("qualify") \o Back, Again)
      BY Zenon, <3>2, StageEnds
    <3>. QED  BY Zenon, <2>3, <3>2, <3>3 DEF InAfter
  <2>. QED  BY Zenon, <2>2, <2>3
<1>1. SUFFICES ASSUME SwapInv, Complete  PROVE SwapInv'
  BY Zenon
<1>2. Running /\ Op.op = "complete"
  BY Zenon, <1>1 DEF Complete, At, Op
<1>. DEFINE q == [proc EXCEPT !.failed = FALSE]
<1>3. /\ attempted' = attempted /\ module' = module /\ story' = story
      /\ log' = Append(log, [event |-> "complete"])
      /\ proc' = Step(q, 1) /\ faulted' = faulted
  BY Zenon, <1>1 DEF Complete, device, Goes, Record
<1>4. SwapTyped /\ log \in Seq(Event)
  BY Zenon, <1>1 DEF SwapInv, SwapTyped
<1>5. proc.part = "after" /\ proc.pc = Length(proc.prog, "after")
  BY Zenon, <1>2, <1>4, LoadedPlace
<1>6. /\ proc \in Process /\ proc.part \in Parts /\ proc.prog \in Progs
      /\ proc.pc \in 1..Length(proc.prog, proc.part)
  BY Zenon, <1>2, <1>4, Runs
<1>7. SamePlace(proc, q) /\ q.saw = proc.saw
  BY Zenon, <1>6, <1>ProcFailed
<1>. HIDE DEF q
<1>8. /\ q \in Process /\ q.part = "after" /\ q.part \in Parts
      /\ q.prog = proc.prog /\ q.pc = Length(q.prog, q.part)
      /\ q.pc \in 1..Length(q.prog, q.part)
  BY Zenon, <1>5, <1>6, <1>7 DEF SamePlace
<1>9. Length(q.prog, q.part) \in Nat /\ ~(q.pc < Length(q.prog, q.part))
  <2>1. Length(q.prog, q.part) \in Nat
    BY Zenon, <1>6, <1>8, PartsAre
  <2>. QED  BY <1>8, <2>1
<1>10. /\ proc' \in Process /\ proc'.part = "ended" /\ proc'.prog = proc.prog
       /\ proc'.saw = proc.saw
  <2>1. Following(q) = "ended"
    BY Zenon, <1>8, FollowingIs
  <2>. QED  BY Zenon, <1>3, <1>7, <1>8, <1>9, <2>1, StepIs DEF Alike
<1>11. log' \in Seq(Event)
  <2>1. [event |-> "complete"] \in Event
    BY DEF Event
  <2>2. Append(log, [event |-> "complete"]) \in Seq(Event)
    BY <1>4, <2>1
  <2>. QED  BY Zenon, <1>3, <2>2
<1>12. SwapTyped'
  BY Zenon, <1>3, <1>4, <1>10, <1>11 DEF SwapTyped, Running
<1>13. attempted
  BY Zenon, <1>1, <1>5 DEF SwapInv, Marked
<1>14. Marked' /\ OneLoad' /\ Known'
  BY Zenon, <1>3, <1>10, <1>13 DEF Marked, OneLoad, Known
<1>15. Stopped'
  <2>1. ~proc.saw
    BY Zenon, <1>1, <1>5 DEF SwapInv, Stopped
  <2>. QED  BY Zenon, <1>10, <2>1 DEF Stopped
<1>16. OnTrack'
  BY Zenon, <1>10 DEF OnTrack, Path
<1>17. Told'
  <2>1. InAfter(proc.pc)
    BY Zenon, <1>1, <1>5 DEF SwapInv, OnTrack, Path
  <2>2. story = TheStory
    BY Zenon, <1>5, <1>6, <2>1, <1>AfterDone
  <2>3. TheStory' = TheStory
    BY Zenon, <1>10 DEF TheStory
  <2>. QED  BY Zenon, <1>3, <1>10, <1>13, <2>2, <2>3 DEF Told
<1>. QED  BY Zenon, <1>12, <1>14, <1>15, <1>16, <1>17 DEF SwapInv

(* The decoder starts, or one that was left ends. *)
LEMMA MeanwhileOnTrack ==
  ASSUME SwapInv, Running, Meanwhile(Op)
  PROVE  OnTrack'
<1>LoadingMeanwhile. ASSUME NEW o \in Nat, NEW told, NEW at \in Nat, NEW op,
                            \A i \in 1..5 : at = o + i => op = Load[i],
                            Loading(at, o, told), Meanwhile(op)
                     PROVE  Loading(at, o, told)'
  <2>. USE <1>LoadingMeanwhile
  <2>1. 1 \in 1..5 /\ 2 \in 1..5 /\ 3 \in 1..5 /\ 4 \in 1..5 /\ 5 \in 1..5
    OBVIOUS
  <2>2. at = o + 1 \/ at = o + 2 \/ at = o + 3 \/ at = o + 4 \/ at = o + 5
    BY Zenon DEF Loading
  <2>3. \/ op = T("rmmod") \/ op = H(FALSE) \/ op = T("insmod")
        \/ op = I("candidate") \/ op = H(TRUE)
    BY Zenon, <2>1, <2>2, LoadIs
  <2>4. op.op # "decode"
    BY Zenon, <2>3, Kinds
  <2>5. story' = story /\ module' = module
    BY Zenon, <2>4 DEF Meanwhile, Begins
  <2>. QED  BY <2>5 DEF Loading
<1>StageBegins. ASSUME NEW o \in Nat, NEW name \in Names, NEW on \in Modules, on = module,
                       NEW told \in Seq(Scene), NEW at \in Nat, at <= o + 4 * Len(Jobs), NEW op,
                       \A i \in 1..(4 * Len(Jobs)) : at = o + i => op = StageOps(name)[i],
                       InStage(at, o, told, Decoded(name, on)), Begins(op)
                PROVE  InStage(at, o, told, Decoded(name, on))'
  <2>. USE <1>StageBegins
  <2> DEFINE lines == Decoded(name, on)
             n == Len(Jobs)
  <2>1. n \in Nat
    BY Zenon, JobAt
  <2>2. PICK d \in 0..n :
          \/ at = o + 4 * d + 1 /\ story = Tell(told, lines, 2 * d)
          \/ /\ d < n
             /\ \/ at = o + 4 * d + 2 /\ Decoding(told, lines, d)
                \/ at = o + 4 * d + 3 /\ Shown(told, lines, d)
                \/ at = o + 4 * d + 4 /\ Shown(told, lines, d)
    BY Zenon DEF InStage
  <2> HIDE DEF lines, n
  <2>3. d < n /\ d \in Nat
    BY <2>1, <2>2 DEF n
  <2>4. /\ StageOps(name)[4 * d + 1] = H(TRUE)
        /\ StageOps(name)[4 * d + 2] = Decode(name, Jobs[d + 1])
        /\ StageOps(name)[4 * d + 3] = H(TRUE)
        /\ StageOps(name)[4 * d + 4] = Judge(name, Jobs[d + 1])
    BY Zenon, <2>3, StageAt DEF n
  <2>5. /\ 4 * d + 1 \in 1..(4 * n) /\ 4 * d + 2 \in 1..(4 * n)
        /\ 4 * d + 3 \in 1..(4 * n) /\ 4 * d + 4 \in 1..(4 * n)
        /\ o + 4 * d + 1 = o + (4 * d + 1) /\ o + 4 * d + 2 = o + (4 * d + 2)
        /\ o + 4 * d + 3 = o + (4 * d + 3) /\ o + 4 * d + 4 = o + (4 * d + 4)
    BY <2>1, <2>3
  <2>6. ~(at = o + 4 * d + 1) /\ ~(at = o + 4 * d + 3) /\ ~(at = o + 4 * d + 4)
    <3>1. op.op = "decode" /\ H(TRUE).op = "healthy"
          /\ Judge(name, Jobs[d + 1]).op = "judge"
      BY Zenon DEF Begins, H, Judge
    <3>2. op # H(TRUE) /\ op # Judge(name, Jobs[d + 1])
      BY Zenon, <3>1
    <3>. QED  BY Zenon, <2>4, <2>5, <3>2 DEF n
  <2>7. at = o + 4 * d + 2 /\ Decoding(told, lines, d)
    BY Zenon, <2>2, <2>6
  <2>8. op = Decode(name, Jobs[d + 1])
    BY Zenon, <2>4, <2>5, <2>7 DEF n
  <2>9. /\ "decoder" \notin holders /\ "decoder" \in holders'
        /\ story' = Append(story, <<name, Jobs[d + 1], on>>)
    <3>1. op.stage = name /\ op.job = Jobs[d + 1]
      BY Zenon, <2>8 DEF Decode
    <3>. QED  BY Zenon, <3>1 DEF Begins
  <2>10. story' = Tell(told, lines, 2 * d + 1)
    <3>1. Append(Tell(told, lines, 2 * d), <<name, Jobs[d + 1], on>>)
            = Tell(told, lines, 2 * d + 1)
      BY Zenon, <2>3, TellTwo DEF lines, n
    <3>. QED  BY Zenon, <2>7, <2>9, <3>1 DEF Decoding
  <2>11. Decoding(told, lines, d)'
    BY Zenon, <2>9, <2>10 DEF Decoding
  <2>. QED  BY Zenon, <2>2, <2>3, <2>7, <2>11 DEF InStage, lines, n
(* The decoder ends where none of its own is awaited. *)
<1>StageQuiet. ASSUME NEW o \in Nat, NEW name \in Names, NEW told, NEW lines,
                      NEW at \in Nat, NEW op,
                      \A i \in 1..(4 * Len(Jobs)) : at = o + i => op = StageOps(name)[i],
                      InStage(at, o, told, lines), op.op # "decode", story' = story,
                      proc' = proc
               PROVE  InStage(at, o, told, lines)'
  <2>. USE <1>StageQuiet
  <2> DEFINE n == Len(Jobs)
  <2>1. n \in Nat
    BY Zenon, JobAt
  <2>2. PICK d \in 0..n :
          \/ at = o + 4 * d + 1 /\ story = Tell(told, lines, 2 * d)
          \/ /\ d < n
             /\ \/ at = o + 4 * d + 2 /\ Decoding(told, lines, d)
                \/ at = o + 4 * d + 3 /\ Shown(told, lines, d)
                \/ at = o + 4 * d + 4 /\ Shown(told, lines, d)
    BY Zenon DEF InStage
  <2> HIDE DEF n
  <2>3. ~(d < n /\ at = o + 4 * d + 2)
    <3>1. SUFFICES ASSUME d < n, at = o + 4 * d + 2  PROVE FALSE
      BY Zenon
    <3>2. d \in Nat /\ 4 * d + 2 \in 1..(4 * n) /\ at = o + (4 * d + 2)
      BY <2>1, <2>2, <3>1
    <3>3. op = Decode(name, Jobs[d + 1])
      BY Zenon, <3>1, <3>2, StageAt DEF n
    <3>. QED  BY Zenon, <3>3 DEF Decode
  <2>4. \A e : Shown(told, lines, e) => Shown(told, lines, e)'
    BY Zenon DEF Shown
  <2>. QED  BY Zenon, <2>2, <2>3, <2>4 DEF InStage, n
<1>StageMeanwhile. ASSUME NEW o \in Nat, NEW name \in Names, NEW on \in Modules, on = module,
                          NEW told \in Seq(Scene), NEW at \in Nat, NEW op,
                          OfStage(name, o, at, op),
                          at = o + 4 * Len(Jobs) + 1 => op.op # "decode",
                          InStage(at, o, told, Decoded(name, on)), Meanwhile(op)
                   PROVE  InStage(at, o, told, Decoded(name, on))'
  <2>. USE <1>StageMeanwhile
  <2>1. CASE op.op # "decode"
    <3>1. story' = story /\ proc' = proc
      BY Zenon, <2>1 DEF Meanwhile, Begins
    <3>. QED  BY Zenon, <2>1, <3>1, <1>StageQuiet DEF OfStage
  <2>2. CASE op.op = "decode"
    <3>1. Begins(op)
      BY Zenon, <2>2 DEF Meanwhile
    <3>2. at \in (o + 1)..(o + 4 * Len(Jobs) + 1) /\ at # o + 4 * Len(Jobs) + 1
      BY Zenon, <2>2, StageEnds
    <3>3. at <= o + 4 * Len(Jobs)
      BY <3>2, JobAt
    <3>. QED  BY Zenon, <3>1, <3>3, <1>StageBegins DEF OfStage
  <2>. QED  BY Zenon, <2>1, <2>2
<1>WorkloadBegins. ASSUME NEW o \in Nat, NEW told \in Seq(Scene), NEW at \in Nat,
                          at <= o + 5 * Len(Jobs), NEW op,
                          \A i \in 1..(5 * Len(Jobs)) : at = o + i => op = Workloads[i],
                          InWorkloads(at, o, told, Candidate), Begins(op),
                          module = "candidate"
                   PROVE  InWorkloads(at, o, told, Candidate)'
  <2>. USE <1>WorkloadBegins
  <2> DEFINE lines == Candidate
             n == Len(Jobs)
  <2>1. n \in Nat
    BY Zenon, JobAt
  <2>2. PICK d \in 0..n :
          \/ at = o + 5 * d + 1 /\ story = Tell(told, lines, 2 * d)
          \/ /\ d < n
             /\ \/ at = o + 5 * d + 2 /\ story = Tell(told, lines, 2 * d)
                \/ at = o + 5 * d + 3 /\ Decoding(told, lines, d)
                \/ at = o + 5 * d + 4 /\ Shown(told, lines, d)
                \/ at = o + 5 * d + 5 /\ story = Tell(told, lines, 2 * d + 2)
    BY Zenon DEF InWorkloads
  <2> HIDE DEF lines, n
  <2>3. d < n /\ d \in Nat
    BY <2>1, <2>2 DEF n
  <2>4. /\ Workloads[5 * d + 1] = I("candidate")
        /\ Workloads[5 * d + 2] = H(TRUE)
        /\ Workloads[5 * d + 3] = Decode("candidate", Jobs[d + 1])
        /\ Workloads[5 * d + 4] = Judge("candidate", Jobs[d + 1])
        /\ Workloads[5 * d + 5] = H(TRUE)
    BY Zenon, <2>3, WorkloadAt DEF n
  <2>5. \A r \in 1..5 : 5 * d + r \in 1..(5 * n) /\ o + 5 * d + r = o + (5 * d + r)
    BY <2>1, <2>3
  <2>6. /\ at = o + 5 * d + 1 => op = I("candidate")
        /\ at = o + 5 * d + 2 => op = H(TRUE)
        /\ at = o + 5 * d + 3 => op = Decode("candidate", Jobs[d + 1])
        /\ at = o + 5 * d + 4 => op = Judge("candidate", Jobs[d + 1])
        /\ at = o + 5 * d + 5 => op = H(TRUE)
    <3>1. 1 \in 1..5 /\ 2 \in 1..5 /\ 3 \in 1..5 /\ 4 \in 1..5 /\ 5 \in 1..5
      OBVIOUS
    <3>. QED  BY Zenon, <2>4, <2>5, <3>1 DEF n
  <2>7. Candidate = Decoded("candidate", "candidate")
        /\ "candidate" \in Names /\ "candidate" \in Modules
    BY Zenon DEF Candidate, Names, Modules
  <2>t. /\ Append(Tell(told, lines, 2 * d), <<"candidate", Jobs[d + 1], "candidate">>)
             = Tell(told, lines, 2 * d + 1)
        /\ Append(Tell(told, lines, 2 * d + 1), <<"right">>)
             = Tell(told, lines, 2 * d + 2)
    BY Zenon, <2>3, <2>7, TellTwo DEF lines, n
  <2>8. /\ ~(at = o + 5 * d + 1) /\ ~(at = o + 5 * d + 2)
        /\ ~(at = o + 5 * d + 4) /\ ~(at = o + 5 * d + 5)
    <3>1. /\ op.op = "decode" /\ H(TRUE).op = "healthy"
          /\ I("candidate").op = "identity"
          /\ Judge("candidate", Jobs[d + 1]).op = "judge"
      BY Zenon DEF Begins, H, I, Judge
    <3>2. /\ op # H(TRUE) /\ op # Judge("candidate", Jobs[d + 1])
          /\ op # I("candidate")
      BY Zenon, <3>1
    <3>. QED  BY Zenon, <2>6, <3>2
  <2>9. at = o + 5 * d + 3 /\ Decoding(told, lines, d)
    BY Zenon, <2>2, <2>8
  <2>10. /\ "decoder" \notin holders /\ "decoder" \in holders'
         /\ story' = Append(story, <<"candidate", Jobs[d + 1], "candidate">>)
    <3>o. op = Decode("candidate", Jobs[d + 1])
      BY Zenon, <2>6, <2>9
    <3>1. op.stage = "candidate" /\ op.job = Jobs[d + 1]
      BY Zenon, <3>o DEF Decode
    <3>. QED  BY Zenon, <3>1 DEF Begins
  <2>11. Decoding(told, lines, d)'
    BY Zenon, <2>9, <2>10, <2>t DEF Decoding
  <2>. QED  BY Zenon, <2>2, <2>3, <2>9, <2>11 DEF InWorkloads, lines, n
<1>WorkloadQuiet. ASSUME NEW o \in Nat, NEW told, NEW lines, NEW at \in Nat, NEW op,
                         \A i \in 1..(5 * Len(Jobs)) : at = o + i => op = Workloads[i],
                         InWorkloads(at, o, told, lines), op.op # "decode", story' = story,
                         proc' = proc
                  PROVE  InWorkloads(at, o, told, lines)'
  <2>. USE <1>WorkloadQuiet
  <2> DEFINE n == Len(Jobs)
  <2>1. n \in Nat
    BY Zenon, JobAt
  <2>2. PICK d \in 0..n :
          \/ at = o + 5 * d + 1 /\ story = Tell(told, lines, 2 * d)
          \/ /\ d < n
             /\ \/ at = o + 5 * d + 2 /\ story = Tell(told, lines, 2 * d)
                \/ at = o + 5 * d + 3 /\ Decoding(told, lines, d)
                \/ at = o + 5 * d + 4 /\ Shown(told, lines, d)
                \/ at = o + 5 * d + 5 /\ story = Tell(told, lines, 2 * d + 2)
    BY Zenon DEF InWorkloads
  <2> HIDE DEF n
  <2>3. ~(d < n /\ at = o + 5 * d + 3)
    <3>1. SUFFICES ASSUME d < n, at = o + 5 * d + 3  PROVE FALSE
      BY Zenon
    <3>2. d \in Nat /\ 5 * d + 3 \in 1..(5 * n) /\ at = o + (5 * d + 3)
      BY <2>1, <2>2, <3>1
    <3>3. op = Decode("candidate", Jobs[d + 1])
      BY Zenon, <3>1, <3>2, WorkloadAt DEF n
    <3>. QED  BY Zenon, <3>3 DEF Decode
  <2>4. \A e : Shown(told, lines, e) => Shown(told, lines, e)'
    BY Zenon DEF Shown
  <2>. QED  BY Zenon, <2>2, <2>3, <2>4 DEF InWorkloads, n
<1>WorkloadsMeanwhile. ASSUME NEW o \in Nat, module = "candidate", NEW told \in Seq(Scene),
                              NEW at \in Nat, NEW op, at <= o + 5 * Len(Jobs),
                              \A i \in 1..(5 * Len(Jobs)) : at = o + i => op = Workloads[i],
                              InWorkloads(at, o, told, Candidate), Meanwhile(op)
                       PROVE  InWorkloads(at, o, told, Candidate)'
  <2>. USE <1>WorkloadsMeanwhile
  <2>1. CASE op.op # "decode"
    <3>1. story' = story /\ proc' = proc
      BY Zenon, <2>1 DEF Meanwhile, Begins
    <3>. QED  BY Zenon, <2>1, <3>1, <1>WorkloadQuiet
  <2>2. CASE op.op = "decode"
    <3>1. Begins(op)
      BY Zenon, <2>2 DEF Meanwhile
    <3>. QED  BY Zenon, <3>1, <1>WorkloadBegins
  <2>. QED  BY Zenon, <2>1, <2>2
<1>TryMeanwhile. ASSUME proc.prog \in Progs, NEW at \in 1..Length(proc.prog, "try"), NEW op,
                        op = Script(proc.prog)["try"][at], Meanwhile(op), InTry(at)
                 PROVE  InTry(at)'
  <2>. USE <1>TryMeanwhile
  <2> DEFINE n == Len(Jobs)
  <2>1. n \in Nat
    BY Zenon, JobAt
  <2>2. at \in Nat
    BY PartsAre DEF Parts
  <2>3. proc' = proc /\ module' = module
    BY Zenon DEF Meanwhile, Begins
  <2>4. 0 \in Nat /\ 6 \in Nat /\ 1 \in Nat
    OBVIOUS
  <2>5. op.op = "preflight" => story' = story
    BY Zenon DEF Meanwhile, Begins
  <2>6. CASE proc.prog = "probe" \/ proc.prog = "capture"
    <3>1. ShortAt(proc.prog, at, op)
      BY Zenon, <2>6, ShortOps
    <3>2. Loading(at, 0, <<>>) => Loading(at, 0, <<>>)'
      BY Zenon, <2>2, <2>4, <3>1, <1>LoadingMeanwhile DEF ShortAt
    <3>3. at = 6 => story' = story
      BY Zenon, <2>5, <3>1, Kinds DEF ShortAt
    <3>4. CASE proc.prog = "probe"
      <4>1. at # 7
        BY <3>1, <3>4 DEF ShortAt
      <4>2. ProbeTry(at)
        BY Zenon, <3>4 DEF InTry
      <4>3. ProbeTry(at)'
        BY Zenon, <2>3, <3>2, <3>3, <4>1, <4>2 DEF ProbeTry
      <4>. QED  BY Zenon, <2>3, <3>4, <4>3 DEF InTry
    <3>5. CASE proc.prog = "capture"
      <4>1. /\ at \in 1..(6 + 5 * n)
            /\ \A i \in 1..(5 * n) : at = 6 + i => op = Workloads[i]
        BY Zenon, <3>1, <3>5 DEF ShortAt
      <4>2. at <= 6 + 5 * n
        BY <2>1, <4>1
      <4>3. module = "candidate" /\ InWorkloads(at, 6, There, Candidate)
              => InWorkloads(at, 6, There, Candidate)'
        BY Zenon, <2>2, <2>4, <4>1, <4>2, <1>WorkloadsMeanwhile, StoryLines
      <4>4. CaptureTry(at)
        BY Zenon, <3>5 DEF InTry
      <4>5. CaptureTry(at)'
        BY Zenon, <2>3, <3>2, <3>3, <4>3, <4>4 DEF CaptureTry
      <4>. QED  BY Zenon, <2>3, <3>5, <4>5 DEF InTry
    <3>. QED  BY Zenon, <2>6, <3>4, <3>5
  <2>7. CASE proc.prog = "qualify"
    <3> DEFINE a == 4 * n + 2
               c == 4 * n + 8
    <3>1. LongAt(at, op)
      BY Zenon, <2>7, LongOps
    <3>2. /\ a \in Nat /\ c \in Nat /\ 1 + 4 * n + 1 = a
          /\ at # c + 4 * n + 1
      BY <2>1, <3>1 DEF LongAt
    <3>3. /\ at = 1 => op.op = "identity"
          /\ at = c => op.op = "identity"
          /\ at = a => op.op = "healthy"
      BY Zenon, <3>1, Kinds DEF LongAt
    <3>4. /\ OfStage("baseline", 1, at, op) /\ OfStage("candidate", c, at, op)
          /\ \A i \in 1..5 : at = a + i => op = Load[i]
      BY Zenon, <3>1 DEF LongAt, OfStage
    <3>5. QualifyTry(at)
      BY Zenon, <2>7 DEF InTry
    <3>6. \/ module = "original" /\ at = 1 /\ story = <<>>
          \/ module = "original" /\ InStage(at, 1, <<>>, Baseline)
          \/ Loading(at, a, Baseline)
          \/ module = "candidate" /\ at = c /\ story = Baseline \o There
          \/ module = "candidate" /\ InStage(at, c, Baseline \o There, Candidate)
      BY Zenon, <3>5 DEF QualifyTry
    <3>7. \/ module' = "original" /\ at = 1 /\ story' = <<>>
          \/ module' = "original" /\ InStage(at, 1, <<>>, Baseline)'
          \/ Loading(at, a, Baseline)'
          \/ module' = "candidate" /\ at = c /\ story' = Baseline \o There
          \/ module' = "candidate" /\ InStage(at, c, Baseline \o There, Candidate)'
      <4> HIDE DEF a, c
      <4>1. op.op = "identity" => story' = story
        BY Zenon DEF Meanwhile, Begins
      <4>2. CASE module = "original" /\ InStage(at, 1, <<>>, Baseline)
        <5>1. at = 1 + 4 * n + 1 => op.op # "decode"
          BY Zenon, <3>2, <3>3
        <5>2. InStage(at, 1, <<>>, Baseline)'
          BY Zenon, <2>2, <2>4, <3>4, <4>2, <5>1, <1>StageMeanwhile, StoryLines
        <5>. QED  BY Zenon, <2>3, <4>2, <5>2
      <4>3. CASE Loading(at, a, Baseline)
        <5>1. Loading(at, a, Baseline)'
          BY Zenon, <2>2, <3>2, <3>4, <4>3, <1>LoadingMeanwhile
        <5>. QED  BY Zenon, <5>1
      <4>4. CASE /\ module = "candidate"
                 /\ InStage(at, c, Baseline \o There, Candidate)
        <5>1. InStage(at, c, Baseline \o There, Candidate)'
          BY Zenon, <2>2, <3>2, <3>4, <4>4, <1>StageMeanwhile, StoryLines
        <5>. QED  BY Zenon, <2>3, <4>4, <5>1
      <4>. QED  BY Zenon, <2>3, <3>3, <3>6, <4>1, <4>2, <4>3, <4>4
    <3>8. QualifyTry(at)'
      BY Zenon, <3>7 DEF QualifyTry
    <3>. QED  BY Zenon, <2>3, <2>7, <3>8 DEF InTry
  <2>. QED  BY Zenon, <2>6, <2>7 DEF Progs
<1>AfterMeanwhile. ASSUME proc.prog \in Progs, NEW at \in 1..Length(proc.prog, "after"), NEW op,
                          op = Script(proc.prog)["after"][at], Meanwhile(op), InAfter(at)
                   PROVE  InAfter(at)'
  <2>. USE <1>AfterMeanwhile
  <2> DEFINE n == Len(Jobs)
             told == Outward("qualify") \o Back
  <2>1. n \in Nat
    BY Zenon, JobAt
  <2>2. proc' = proc /\ module' = module /\ TheStory' = TheStory
    BY Zenon DEF Meanwhile, Begins, TheStory
  <2>3. CASE proc.prog # "qualify"
    <3>1. Length(proc.prog, "after") = 1
      BY Zenon, <2>3, LengthIs
    <3>2. at = 1
      BY <3>1
    <3>3. Do("complete") \in Checks
      BY Zenon DEF Checks, Do
    <3>4. op = Do("complete")
      BY Zenon, <2>3, <3>2, <3>3, ScriptIs, OneTuple
    <3>5. op.op = "complete"
      BY Zenon, <3>4, Kinds
    <3>6. story' = story
      BY Zenon, <3>5 DEF Meanwhile, Begins
    <3>. QED  BY Zenon, <2>2, <2>3, <3>6 DEF InAfter
  <2>4. CASE proc.prog = "qualify"
    <3>1. AfterAt(at, op)
      BY Zenon, <2>4, AfterOps
    <3>2. at \in Nat /\ 1 \in Nat /\ 1 + 4 * n + 1 = 4 * n + 2
      BY <2>1, <3>1 DEF AfterAt
    <3>3. /\ at = 1 => op.op = "identity"
          /\ at = 4 * n + 2 => op.op = "healthy"
          /\ at = 4 * n + 3 => op.op = "complete"
      BY Zenon, <3>1, Kinds DEF AfterAt
    <3>4. op.op # "decode" => story' = story
      BY Zenon DEF Meanwhile, Begins
    <3>5. at = 1 \/ at = 4 * n + 2 \/ at = 4 * n + 3 => story' = story
      BY Zenon, <3>3, <3>4
    <3>6. OfStage("restored", 1, at, op)
      BY Zenon, <3>1 DEF AfterAt, OfStage
    <3>7. told \in Seq(Scene) /\ module = "original"
      BY Zenon, <2>4, OutwardIs DEF Progs, InAfter
    <3>8. InStage(at, 1, told, Again) => InStage(at, 1, told, Again)'
      <4> HIDE DEF told
      <4>1. at = 1 + 4 * n + 1 => op.op # "decode"
        BY Zenon, <3>2, <3>3
      <4>. QED  BY Zenon, <3>2, <3>6, <3>7, <4>1, <1>StageMeanwhile, StoryLines
    <3>. QED  BY Zenon, <2>2, <2>4, <3>5, <3>7, <3>8 DEF InAfter
  <2>. QED  BY Zenon, <2>3, <2>4
<1>1. SwapTyped
  BY Zenon DEF SwapInv
<1>2. /\ proc.prog \in Progs /\ proc.part \in Parts
      /\ proc.pc \in 1..Length(proc.prog, proc.part)
      /\ Op = Script(proc.prog)[proc.part][proc.pc]
  BY Zenon, <1>1, Runs
<1>3. proc' = proc /\ module' = module
  BY Zenon DEF Meanwhile, Begins
<1>4. SUFFICES ASSUME ~proc.failed  PROVE Path(proc.part, proc.pc)'
  BY Zenon, <1>3 DEF SwapInv, OnTrack
<1>5. Path(proc.part, proc.pc)
  BY Zenon, <1>4 DEF SwapInv, OnTrack
<1>6. proc.part \notin {"try", "after"} => story' = story
  BY Zenon, <1>1, LoadedPlace DEF Meanwhile, Begins
<1>7. CASE proc.part = "try"
  <2>1. InTry(proc.pc)
    BY Zenon, <1>5, <1>7 DEF Path
  <2>2. ASSUME NEW n, n = proc.pc, NEW op, op = Op  PROVE InTry(n)'
    <3>1. /\ n \in 1..Length(proc.prog, "try") /\ op = Script(proc.prog)["try"][n]
          /\ InTry(n) /\ Meanwhile(op)
      BY Zenon, <1>2, <1>7, <2>1, <2>2
    <3>. QED  BY Zenon, <1>2, <3>1, <1>TryMeanwhile
  <2>3. InTry(proc.pc)'
    BY Zenon, <1>3, <2>2
  <2>. QED  BY Zenon, <1>3, <1>7, <2>3 DEF Path
<1>8. CASE proc.part = "after"
  <2>1. InAfter(proc.pc)
    BY Zenon, <1>5, <1>8 DEF Path
  <2>2. ASSUME NEW n, n = proc.pc, NEW op, op = Op  PROVE InAfter(n)'
    <3>1. /\ n \in 1..Length(proc.prog, "after")
          /\ op = Script(proc.prog)["after"][n]
          /\ InAfter(n) /\ Meanwhile(op)
      BY Zenon, <1>2, <1>8, <2>1, <2>2
    <3>. QED  BY Zenon, <1>2, <3>1, <1>AfterMeanwhile
  <2>3. InAfter(proc.pc)'
    BY Zenon, <1>3, <2>2
  <2>. QED  BY Zenon, <1>3, <1>8, <2>3 DEF Path
<1>9. CASE proc.part = "restore"
  <2>1. Returning(proc.pc, Outward(proc.prog)) /\ story' = story
    BY Zenon, <1>5, <1>6, <1>9 DEF Path
  <2>2. Returning(proc.pc, Outward(proc.prog))'
    <3>1. ASSUME NEW n, NEW told, Returning(n, told)  PROVE Returning(n, told)'
      BY <1>3, <2>1, <3>1 DEF Returning
    <3>. QED  BY Zenon, <1>3, <2>1, <3>1
  <2>. QED  BY Zenon, <1>3, <1>9, <2>2 DEF Path
<1>10. CASE proc.part \in {"before", "terminal"}
  BY Zenon, <1>3, <1>5, <1>6, <1>10 DEF Path
<1>. QED  BY Zenon, <1>2, <1>7, <1>8, <1>9, <1>10 DEF Parts

(* The decoder starts. *)
LEMMA StartsKeepsInv == SwapInv /\ Starts => SwapInv'
<1>1. SUFFICES ASSUME SwapInv, Starts  PROVE SwapInv'
  BY Zenon
<1>2. Running /\ Op.op = "decode" /\ At("decode")
  BY Zenon, <1>1 DEF Starts, At, Op
<1>3. /\ "decoder" \notin holders /\ "decoder" \in holders'
      /\ story' = Append(story, <<Op.stage, Op.job, module>>)
      /\ module' = module /\ proc' = proc /\ faulted' = faulted
      /\ attempted' = attempted /\ log' = log
  BY Zenon, <1>1 DEF Starts, disk
<1>4. SwapTyped /\ story \in Seq(Scene)
  BY Zenon, <1>1 DEF SwapInv, SwapTyped
<1>5. OnTrack'
  BY Zenon, <1>1, <1>2, <1>3, MeanwhileOnTrack DEF Meanwhile, Begins
<1>6. proc.part \in {"try", "after"}
  BY Zenon, <1>2, <1>4, LoadedPlace
<1>. DEFINE line == <<Op.stage, Op.job, module>>
<1>7. line \in Scene /\ line # <<"candidate">>
  <2>1. Op.stage \in Names /\ Op.job \in Range(Jobs) /\ module \in Modules
    BY Zenon, <1>2, <1>4, OpArgv DEF SwapTyped
  <2>2. line \in Names \X Range(Jobs) \X Modules
    BY Zenon, <2>1
  <2>3. line # <<"candidate">>
    OBVIOUS
  <2>. QED  BY Zenon, <2>2, <2>3 DEF Scene
<1>8. story' = Append(story, line)
  BY Zenon, <1>3
<1>. HIDE DEF line
<1>9. Append(story, line) \in Seq(Scene)
  BY <1>4, <1>7
<1>10. SwapTyped'
  BY Zenon, <1>3, <1>4, <1>8, <1>9 DEF SwapTyped, Running
<1>11. attempted
  BY Zenon, <1>1, <1>6 DEF SwapInv, Marked
<1>12. Marked' /\ Known' /\ Stopped'
  BY Zenon, <1>1, <1>3, <1>11 DEF SwapInv, Marked, Known, Stopped
<1>13. OneLoad'
  <2>1. <<"candidate">> \in Range(story') => <<"candidate">> \in Range(story)
    BY Zenon, <1>4, <1>7, <1>8, RangeOfAppend
  <2>. QED  BY Zenon, <1>1, <1>3, <2>1 DEF SwapInv, OneLoad
<1>14. Told'
  <2>1. ~Ends("complete")
    BY Zenon, <1>1, <1>2, <1>6, NotEnded
  <2>. QED  BY Zenon, <1>3, <2>1 DEF Told, Ends
<1>. QED  BY Zenon, <1>5, <1>10, <1>12, <1>13, <1>14 DEF SwapInv

(* A decoder that was left behind ends. *)
LEMMA DecoderEndsLateKeepsInv == SwapInv /\ DecoderEndsLate => SwapInv'
<1>1. SUFFICES ASSUME SwapInv, DecoderEndsLate  PROVE SwapInv'
  BY Zenon
<1>2. /\ proc' = proc /\ module' = module /\ story' = story /\ log' = log
      /\ attempted' = attempted /\ faulted' = faulted /\ ~At("decode")
  BY Zenon, <1>1 DEF DecoderEndsLate, disk
<1>3. OnTrack'
  <2>1. CASE Running
    <3>1. Op.op # "decode"
      BY Zenon, <1>2, <2>1 DEF At, Op
    <3>. QED  BY Zenon, <1>1, <1>2, <2>1, <3>1, MeanwhileOnTrack DEF Meanwhile
  <2>2. CASE ~Running
    BY Zenon, <1>2, <2>2 DEF OnTrack, Path, Running
  <2>. QED  BY Zenon, <2>1, <2>2
<1>. QED  BY Zenon, <1>1, <1>2, <1>3, AroundKeepsInv

(* The failures. *)
LEMMA HealthyRaisesKeepsInv == SwapInv /\ HealthyRaises => SwapInv'
<1>ProcSaw. ASSUME NEW p \in Process, NEW b \in BOOLEAN, NEW q, q = [p EXCEPT !.saw = b]
            PROVE  SamePlace(p, q) /\ q.saw = b
  BY Zenon, <1>ProcSaw DEF Process, SamePlace
<1>1. SUFFICES ASSUME SwapInv, HealthyRaises  PROVE SwapInv'
  BY Zenon
<1>2. Running
  BY Zenon, <1>1 DEF HealthyRaises, At
<1>3. SwapTyped /\ log \in Seq(Event) /\ story \in Seq(Scene) /\ module \in Modules
  BY Zenon, <1>1 DEF SwapInv, SwapTyped
<1>4. proc \in Process /\ proc.part \in Parts /\ proc.saw \in BOOLEAN
  BY Zenon, <1>2, <1>3, Runs DEF Process
<1>. DEFINE b == proc.saw \/ faulted
            p == [proc EXCEPT !.saw = b]
            events == IF Unhealthy THEN <<[event |-> "unhealthy"]>> ELSE <<>>
<1>5. SamePlace(proc, p) /\ p.saw = b
  <2>1. b \in BOOLEAN
    BY Zenon
  <2>. HIDE DEF b
  <2>. QED  BY Zenon, <1>4, <2>1, <1>ProcSaw
<1>6. events \in Seq(NotDone)
  <2>1. <<[event |-> "unhealthy"]>> \in Seq(NotDone)
    <3>. DEFINE e == [event |-> "unhealthy"]
    <3>1. e \in NotDone
      BY Zenon, PlainEvents
    <3>. HIDE DEF e
    <3>2. <<e>> \in Seq(NotDone)
      BY <3>1
    <3>. QED  BY Zenon, <3>2 DEF e
  <2>2. <<>> \in Seq(NotDone)
    OBVIOUS
  <2>. QED  BY Zenon, <2>1, <2>2
<1>7. /\ Raise(p, events) /\ attempted' = attempted /\ faulted' = faulted
      /\ module' = module /\ story' = story
  BY Zenon, <1>1 DEF HealthyRaises, device
<1>. HIDE DEF p, events
<1>8. p \in Process /\ p.part = proc.part /\ p.prog = proc.prog /\ p.part \in Parts
  BY Zenon, <1>4, <1>5 DEF SamePlace
<1>9. Failing(p)
  BY Zenon, <1>3, <1>6, <1>7, <1>8, Raises
<1>10. p.saw => proc.saw \/ faulted
  BY Zenon, <1>5
<1>. QED  BY Zenon, <1>1, <1>2, <1>3, <1>7, <1>8, <1>9, <1>10, FailingKeepsInv

(* An exception of the process as it is. *)
LEMMA RaiseKeepsInv ==
  ASSUME SwapInv, Running, NEW events \in Seq(NotDone), Raise(proc, events),
         module' \in Modules, story' \in Seq(Scene),
         story' = story \/ proc.part \in {"try", "restore"},
         attempted' = attempted, faulted => faulted'
  PROVE  SwapInv'
<1>1. SwapTyped /\ log \in Seq(Event)
  BY Zenon DEF SwapInv, SwapTyped
<1>2. proc \in Process /\ proc.part \in Parts
  BY Zenon, <1>1, Runs
<1>3. Failing(proc)
  BY Zenon, <1>1, <1>2, Raises
<1>. QED  BY Zenon, <1>2, <1>3, FailingKeepsInv

(* An operation fails without having done anything. *)
LEMMA RefusedKeepsInv == SwapInv /\ Refused => SwapInv'
<1>1. SUFFICES ASSUME SwapInv, Refused  PROVE SwapInv'
  BY Zenon
<1>2. /\ Running /\ Raise(proc, <<>>) /\ attempted' = attempted
      /\ faulted' = faulted /\ module' = module /\ story' = story
  BY Zenon, <1>1 DEF Refused, device
<1>3. <<>> \in Seq(NotDone)
  OBVIOUS
<1>4. story \in Seq(Scene) /\ module \in Modules
  BY Zenon, <1>1 DEF SwapInv, SwapTyped
<1>. QED  BY Zenon, <1>1, <1>2, <1>3, <1>4, RaiseKeepsInv

(* A decode fails or takes too long. *)
LEMMA DecodeFailsKeepsInv == SwapInv /\ DecodeFails => SwapInv'
<1>1. SUFFICES ASSUME SwapInv, DecodeFails  PROVE SwapInv'
  BY Zenon
<1>2. /\ Running /\ Raise(proc, <<>>) /\ attempted' = attempted
      /\ faulted' = faulted /\ module' = module /\ story' = story
  BY Zenon, <1>1 DEF DecodeFails, At
<1>3. <<>> \in Seq(NotDone)
  OBVIOUS
<1>4. story \in Seq(Scene) /\ module \in Modules
  BY Zenon, <1>1 DEF SwapInv, SwapTyped
<1>. QED  BY Zenon, <1>1, <1>2, <1>3, <1>4, RaiseKeepsInv

(* Where a module is exchanged, in what part. *)
LEMMA ExchangeParts ==
  ASSUME SwapTyped, At("transition")
  PROVE  proc.part \in {"try", "restore"} /\ Running
<1>1. Running /\ Op.op = "transition"
  BY Zenon DEF At, Op
<1>2. /\ proc.prog \in Progs /\ proc.part \in Parts
      /\ proc.pc \in 1..Length(proc.prog, proc.part)
      /\ Op = Script(proc.prog)[proc.part][proc.pc]
  BY Zenon, <1>1, Runs
<1>3. ASSUME NEW prog, prog = proc.prog, NEW part, part = proc.part,
             NEW pc, pc = proc.pc
      PROVE  part \in {"try", "restore"}
  <2>1. /\ prog \in Progs /\ part \in Parts /\ pc \in 1..Length(prog, part)
        /\ Script(prog)[part][pc].op = "transition"
    BY Zenon, <1>1, <1>2, <1>3
  <2>. QED  BY Zenon, <2>1, TransitionPlaces
<1>. QED  BY Zenon, <1>1, <1>3

(* A transition fails, or its result is not known. *)
LEMMA TransitionFailsKeepsInv == SwapInv /\ TransitionFails => SwapInv'
<1>1. SUFFICES ASSUME SwapInv, TransitionFails  PROVE SwapInv'
  BY Zenon
<1>2. /\ At("transition") /\ attempted' = attempted /\ faulted' = faulted
  BY Zenon, <1>1 DEF TransitionFails
<1>3. SwapTyped /\ story \in Seq(Scene) /\ module \in Modules
  BY Zenon, <1>1 DEF SwapInv, SwapTyped
<1>4. Running /\ proc.part \in {"try", "restore"} /\ Op.argv \in Argvs
  BY Zenon, <1>2, <1>3, ExchangeParts, OpArgv
<1>5. Attempt \in NotDone /\ Result(1) \in NotDone
  BY Zenon, <1>4, PlainEvents DEF Attempt, Result
<1>6. /\ <<Attempt>> \in Seq(NotDone)
      /\ <<Attempt>> \o <<Result(1)>> \in Seq(NotDone)
      /\ <<Attempt>> \o <<>> \in Seq(NotDone)
  BY <1>5
<1>7. module' \in Modules /\ story' \in Seq(Scene)
  <2>1. CASE UNCHANGED <<module, story>>
    BY Zenon, <1>3, <2>1
  <2>2. CASE Happens(Op.argv)
    BY Zenon, <1>3, <1>4, <2>2, HappensTyped
  <2>. QED  BY Zenon, <1>1, <2>1, <2>2 DEF TransitionFails
<1>8. PICK events \in Seq(NotDone) : Raise(proc, events)
  <2>1. CASE Raise(proc, <<Attempt>>)
    BY Zenon, <1>6, <2>1
  <2>2. CASE \E known \in BOOLEAN :
               Raise(proc, <<Attempt>> \o IF known THEN <<Result(1)>> ELSE <<>>)
    <3>1. PICK known \in BOOLEAN :
            Raise(proc, <<Attempt>> \o IF known THEN <<Result(1)>> ELSE <<>>)
      BY Zenon, <2>2
    <3>2. <<Attempt>> \o (IF known THEN <<Result(1)>> ELSE <<>>) \in Seq(NotDone)
      BY Zenon, <1>6
    <3>. QED  BY Zenon, <3>1, <3>2
  <2>. QED  BY Zenon, <1>1, <2>1, <2>2 DEF TransitionFails
<1>. QED  BY Zenon, <1>1, <1>2, <1>4, <1>7, <1>8, RaiseKeepsInv

(* The unloading candidate oopses. *)
LEMMA TransitionOopsesKeepsInv == SwapInv /\ TransitionOopses => SwapInv'
<1>1. SUFFICES ASSUME SwapInv, TransitionOopses  PROVE SwapInv'
  BY Zenon
<1>2. /\ At("transition") /\ attempted' = attempted /\ faulted'
      /\ Raise(proc, <<Attempt, Result(1)>>) /\ module' = module /\ story' = story
  BY Zenon, <1>1 DEF TransitionOopses
<1>3. SwapTyped /\ story \in Seq(Scene) /\ module \in Modules
  BY Zenon, <1>1 DEF SwapInv, SwapTyped
<1>4. Running /\ Op.argv \in Argvs
  BY Zenon, <1>2, <1>3, ExchangeParts, OpArgv
<1>5. Attempt \in NotDone /\ Result(1) \in NotDone
  BY Zenon, <1>4, PlainEvents DEF Attempt, Result
<1>6. <<Attempt, Result(1)>> \in Seq(NotDone)
  BY <1>5
<1>. QED  BY Zenon, <1>1, <1>2, <1>3, <1>4, <1>6, RaiseKeepsInv

(* What happens around the program. *)
LEMMA AroundActionsKeepInv ==
  ASSUME SwapInv, GuardEnds \/ ForeignOpens \/ ForeignCloses \/ Fault \/ Upgrade
  PROVE  SwapInv'
<1>1. /\ proc' = proc /\ module' = module /\ story' = story /\ log' = log
      /\ attempted' = attempted
  BY Zenon DEF GuardEnds, ForeignOpens, ForeignCloses, Fault, Upgrade, device, disk
<1>2. faulted => faulted'
  BY Zenon DEF GuardEnds, ForeignOpens, ForeignCloses, Fault, Upgrade, device
<1>3. "decoder" \in holders' <=> "decoder" \in holders
  BY Zenon DEF GuardEnds, ForeignOpens, ForeignCloses, Fault, Upgrade, device
<1>. QED  BY Zenon, <1>1, <1>2, <1>3, AroundKeepsInv

(* At the start nothing has happened. *)
LEMMA InitKeepsInv == Init => SwapInv
<1>1. SUFFICES ASSUME Init  PROVE SwapInv
  BY Zenon
<1>2. PICK prog \in Programs : proc = Idle(prog)
  BY Zenon, <1>1 DEF Init
<1>3. prog \in Progs
  BY Zenon, <1>2, ModuleSwapAssumption DEF Progs
<1>4. proc \in Process /\ proc.part = "off" /\ proc.saw = FALSE
  BY <1>2, <1>3 DEF Idle, Process, Outs
<1>5. /\ module = "original" /\ log = <<>> /\ story = <<>> /\ attempted = FALSE
  BY Zenon, <1>1 DEF Init
<1>6. SwapTyped
  <2>1. log \in Seq(Event) /\ story \in Seq(Scene)
    BY <1>5
  <2>. QED  BY Zenon, <1>4, <1>5, <2>1 DEF SwapTyped, Modules, Running
<1>7. Marked /\ Known /\ Stopped /\ OnTrack
  BY Zenon, <1>4, <1>5 DEF Marked, Known, Stopped, OnTrack, Path
<1>8. OneLoad
  <2>1. Range(story) = {}
    BY <1>5 DEF Range
  <2>. QED  BY Zenon, <2>1 DEF OneLoad
<1>9. Told
  BY Zenon, <1>5 DEF Told, Ends
<1>. QED  BY Zenon, <1>6, <1>7, <1>8, <1>9 DEF SwapInv

(* Every step keeps the invariant. *)
LEMMA NextKeepsInv == SwapInv /\ [Next]_vars => SwapInv'
<1>1. SUFFICES ASSUME SwapInv, [Next]_vars  PROVE SwapInv'
  BY Zenon
<1>2. CASE UNCHANGED vars
  BY Zenon, <1>1, <1>2, AroundKeepsInv DEF vars, device, disk
<1>3. CASE Next
  BY Zenon, <1>1, <1>3, StartKeepsInv, MarkKeepsInv, HealthyKeepsInv,
     HealthyRaisesKeepsInv, IdentityKeepsInv, PreflightKeepsInv, RefusedKeepsInv,
     TransitionKeepsInv, TransitionFailsKeepsInv, TransitionOopsesKeepsInv,
     StartsKeepsInv, ExitsKeepsInv, DecodeFailsKeepsInv, DecoderEndsLateKeepsInv,
     JudgesKeepsInv, LoadedKeepsInv, RestoredKeepsInv, TerminalKeepsInv,
     CompleteKeepsInv, AroundActionsKeepInv, GuardKillsKeepsInv DEF Next
<1>. QED  BY Zenon, <1>1, <1>2, <1>3

(* The invariant holds in every run of either program, for any list of     *)
(* distinct jobs and any number of processes started one after the other   *)
(* on one root.                                                            *)
THEOREM SwapInvariance == Spec => []SwapInv
BY InitKeepsInv, NextKeepsInv, PTL DEF Spec

(***************************************************************************)
(* What the reports of the two programs accept is what happened: the       *)
(* module went once to the candidate and back, and every job was decoded   *)
(* once, in order, with the right result, on the module of its stage.      *)
(***************************************************************************)
THEOREM AcceptedTrue == Spec => []AcceptedIsTrue
<1>1. SwapInv => AcceptedIsTrue
  <2>1. SUFFICES ASSUME SwapInv, Accepts  PROVE story = TheStory
    BY Zenon DEF AcceptedIsTrue
  <2>2. Ends("complete")
    BY Zenon, <2>1 DEF Accepts, check, verify_transitions
  <2>. QED  BY Zenon, <2>1, <2>2 DEF SwapInv, Told
<1>. QED  BY <1>1, SwapInvariance, PTL

(***************************************************************************)
(* Nothing is loaded or unloaded once the process has met a fault, a       *)
(* module that is neither of the two is never unloaded, and the candidate  *)
(* is never loaded twice, however many processes are started.              *)
(***************************************************************************)
THEOREM NothingForced == Spec => NeverForced
(* Only a transition exchanges the module. *)
<1>OnlyTransitions. ASSUME Next, module' # module
                    PROVE  At("transition") /\ Happens(Op.argv)
  <2>. USE <1>OnlyTransitions
  <2>1. Transition \/ TransitionFails
    BY Zenon DEF Next, Start, Mark, Healthy, HealthyRaises, Identity, Preflight,
       Refused, TransitionOopses, Starts, Exits, DecodeFails, DecoderEndsLate,
       Judges, Loaded, Restored, Terminal, Complete, GuardEnds, GuardKills,
       ForeignOpens, ForeignCloses, Fault, Upgrade, device
  <2>. QED  BY Zenon, <2>1 DEF Transition, TransitionFails
<1>. DEFINE Careful == module' # module =>
              /\ ~proc.saw
              /\ module # "other"
              /\ module' = "candidate" => <<"candidate">> \notin Range(story)
<1>1. SwapInv /\ [Next]_vars => [Careful]_vars
  <2>1. SUFFICES ASSUME SwapInv, Next, module' # module
                 PROVE  /\ ~proc.saw
                        /\ module # "other"
                        /\ module' = "candidate" =>
                             <<"candidate">> \notin Range(story)
    BY Zenon
  <2>2. At("transition") /\ Happens(Op.argv) /\ SwapTyped
    BY Zenon, <2>1, <1>OnlyTransitions DEF SwapInv
  <2>3. Running /\ Op.op = "transition"
    BY Zenon, <2>2 DEF At, Op
  <2>4. /\ proc.prog \in Progs /\ proc.part \in Parts /\ proc.pc \in Nat
        /\ proc.pc \in 1..Length(proc.prog, proc.part)
        /\ Op = Script(proc.prog)[proc.part][proc.pc]
    BY Zenon, <2>2, <2>3, Runs DEF Process
  <2>5. \/ proc.part = "restore" /\ proc.pc = 3 /\ Op.argv = "rmmod"
        \/ proc.part = "restore" /\ proc.pc = 5 /\ Op.argv = "modprobe"
        \/ proc.part = "try" /\ proc.pc = Ahead(proc.prog) + 1 /\ Op.argv = "rmmod"
        \/ proc.part = "try" /\ proc.pc = Ahead(proc.prog) + 3 /\ Op.argv = "insmod"
    <3>1. ASSUME NEW prog, prog = proc.prog, NEW part, part = proc.part,
                 NEW pc, pc = proc.pc, NEW op, op = Op
          PROVE  \/ part = "restore" /\ pc = 3 /\ op.argv = "rmmod"
                 \/ part = "restore" /\ pc = 5 /\ op.argv = "modprobe"
                 \/ part = "try" /\ pc = Ahead(prog) + 1 /\ op.argv = "rmmod"
                 \/ part = "try" /\ pc = Ahead(prog) + 3 /\ op.argv = "insmod"
      <4>1. /\ prog \in Progs /\ part \in Parts /\ pc \in 1..Length(prog, part)
            /\ op = Script(prog)[part][pc]
        BY Zenon, <2>4, <3>1
      <4>2. Script(prog)[part][pc].op = "transition"
        BY Zenon, <2>3, <3>1, <4>1
      <4>3. \/ part = "restore" /\ pc = 3 /\ Script(prog)[part][pc].argv = "rmmod"
            \/ part = "restore" /\ pc = 5 /\ Script(prog)[part][pc].argv = "modprobe"
            \/ part = "try" /\ pc = Ahead(prog) + 1 /\ Script(prog)[part][pc].argv = "rmmod"
            \/ part = "try" /\ pc = Ahead(prog) + 3 /\ Script(prog)[part][pc].argv = "insmod"
        BY Zenon, <4>1, <4>2, TransitionPlaces
      <4>. QED  BY Zenon, <4>1, <4>3
    <3>. QED  BY Zenon, <3>1
  <2>6. Ahead(proc.prog) \in Nat
    BY JobAt DEF Ahead
  <2>7. ~proc.saw
    <3>1. 3 # 1 /\ 5 # 1
      OBVIOUS
    <3>. QED  BY Zenon, <2>1, <2>5, <3>1 DEF SwapInv, Stopped
  <2>8. module' = Effect(Op.argv)
    BY Zenon, <2>2 DEF Happens
  <2>9. CASE Op.argv = "rmmod"
    <3>1. module' = "none"
      BY Zenon, <2>1, <2>8, <2>9 DEF Effect
    <3>2. module \in {"original", "candidate"}
      <4>1. "rmmod" # "modprobe" /\ "rmmod" # "insmod"
        OBVIOUS
      <4>2. Ahead(proc.prog) + 1 <= Ahead(proc.prog) + 1
        BY <2>6
      <4>. QED  BY Zenon, <2>1, <2>5, <2>9, <4>1, <4>2 DEF SwapInv, Known
    <3>. QED  BY Zenon, <2>7, <3>1, <3>2
  <2>10. CASE Op.argv = "insmod"
    <3>1. module = "none"
      BY <2>1, <2>8, <2>10 DEF Effect
    <3>2. proc.part = "try" /\ proc.pc = Ahead(proc.prog) + 3
      BY Zenon, <2>5, <2>10
    <3>3. ~(proc.pc > Ahead(proc.prog) + 3)
      BY <2>4, <2>6, <3>2
    <3>4. <<"candidate">> \notin Range(story)
      BY Zenon, <2>1, <3>2, <3>3 DEF SwapInv, OneLoad
    <3>. QED  BY Zenon, <2>7, <3>1, <3>4
  <2>11. CASE Op.argv = "modprobe"
    <3>1. module = "none" /\ module' = Pinned("original")
      BY <2>1, <2>8, <2>11 DEF Effect
    <3>2. module' # "candidate"
      BY Zenon, <3>1 DEF Pinned
    <3>. QED  BY Zenon, <2>7, <3>1, <3>2
  <2>. QED  BY Zenon, <2>5, <2>9, <2>10, <2>11
<1>. QED  BY <1>1, SwapInvariance, PTL DEF Spec, NeverForced
=============================================================================
