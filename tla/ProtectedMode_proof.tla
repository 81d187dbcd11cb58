------------------------ MODULE ProtectedMode_proof -------------------------
(***************************************************************************)
(* Theorems about ProtectedMode, for every table, task set and program     *)
(* that satisfies ProtectedModeAssumption.                                 *)
(*                                                                         *)
(* None of the three properties is inductive.  A return restores what was  *)
(* left only if the frame it pops is still the one that was pushed, its    *)
(* selectors can still be loaded, and its ring is that of the code.  IsGood*)
(* says so of every transfer of every task: its frame is on the stack as   *)
(* long as nothing was popped below it (IsHistory), the state it left can  *)
(* be gone on from (IsContext, Fit), and the busy tasks are a chain of     *)
(* callers, each with the state saved that its callee returns to (IsChain, *)
(* IsLinked).  An instruction is then one of a few kinds of change: within *)
(* the task it stays, enters something or returns from it (Stays, EntersIs,*)
(* ReturnsIs), or it goes to another task (TaskCalled, TaskReturned); each *)
(* instruction, with all its faults, is shown to be one of them.           *)
(***************************************************************************)
EXTENDS ProtectedMode, SequenceTheorems, TLAPS

-----------------------------------------------------------------------------
(* Sequences. *)

IsSeq(s) == \E S : s \in Seq(S)

\* r holds the first k words of s, but perhaps not word j.
SameWords(r, s, k) == \A i \in 1 .. k : r[i] = s[i]
SameBut(r, s, k, j, x) == r[j] = x /\ \A i \in 1 .. k : i # j => r[i] = s[i]

\* What becomes of words when more are pushed.
LEMMA Appended ==
    ASSUME NEW s, NEW w, IsSeq(s), IsSeq(w)
    PROVE  /\ IsSeq(s \o w) /\ Len(s) \in Nat /\ Len(w) \in Nat /\ Len(s \o w) = Len(s) + Len(w)
           /\ \A i \in 1 .. Len(s) : (s \o w)[i] = s[i]
           /\ \A i \in 1 .. Len(w) : (s \o w)[Len(s) + i] = w[i]
<1>1. PICK S, T : s \in Seq(S) /\ w \in Seq(T)
  BY DEF IsSeq
<1>2. s \in Seq(S \cup T) /\ w \in Seq(S \cup T)
  BY <1>1, SeqMonotonic
<1>3. Len(s) \in Nat /\ Len(w) \in Nat
  BY <1>1
<1>4. /\ s \o w \in Seq(S \cup T) /\ Len(s \o w) = Len(s) + Len(w)
      /\ \A i \in 1 .. Len(s) + Len(w) : (s \o w)[i] = IF i <= Len(s) THEN s[i] ELSE w[i - Len(s)]
  BY <1>2, ConcatProperties
<1>5. IsSeq(s \o w)
  BY <1>4 DEF IsSeq
<1>6. \A i \in 1 .. Len(s) : (s \o w)[i] = s[i]
  BY <1>3, <1>4
<1>7. ASSUME NEW i \in 1 .. Len(w) PROVE (s \o w)[Len(s) + i] = w[i]
  <2>1. Len(s) + i \in 1 .. Len(s) + Len(w) /\ ~ Len(s) + i <= Len(s) /\ Len(s) + i - Len(s) = i
    BY <1>3
  <2> QED BY <1>4, <2>1
<1> QED BY <1>3, <1>4, <1>5, <1>6, <1>7

\* What is left when words are popped.
LEMMA Shortened ==
    ASSUME NEW s, NEW k \in Nat
    PROVE  /\ IsSeq(SubSeq(s, 1, k)) /\ Len(SubSeq(s, 1, k)) = k
           /\ \A i \in 1 .. k : SubSeq(s, 1, k)[i] = s[i]
<1> DEFINE S == {s[i] : i \in 1 .. k}
<1>1. SubSeq(s, 1, k) \in Seq(S) /\ Len(SubSeq(s, 1, k)) = (IF 1 <= k THEN k - 1 + 1 ELSE 0)
      /\ \A i \in 1 .. k - 1 + 1 : SubSeq(s, 1, k)[i] = s[1 + i - 1]
  BY SubSeqProperties
<1>2. \A i \in 1 .. k : 1 + i - 1 = i /\ i \in 1 .. k - 1 + 1
  OBVIOUS
<1>3. IsSeq(SubSeq(s, 1, k))
  BY <1>1 DEF IsSeq
<1>4. Len(SubSeq(s, 1, k)) = k
  BY <1>1
<1> QED BY <1>1, <1>2, <1>3, <1>4

LEMMA Changed ==
    ASSUME NEW s, IsSeq(s), NEW i \in 1 .. Len(s), NEW x
    PROVE  /\ IsSeq([s EXCEPT ![i] = x]) /\ Len([s EXCEPT ![i] = x]) = Len(s)
           /\ [s EXCEPT ![i] = x][i] = x
           /\ \A k \in 1 .. Len(s) : k # i => [s EXCEPT ![i] = x][k] = s[k]
<1>1. PICK S : s \in Seq(S)
  BY DEF IsSeq
<1>2. s \in Seq(S \cup {x})
  BY <1>1, SeqMonotonic
<1> QED BY <1>2, ExceptSeq DEF IsSeq

\* Words pushed one after the other are pushed together.
LEMMA Joined ==
    ASSUME NEW S, NEW l \in Seq(S), NEW r \in Seq(S), NEW x \in Seq(S),
           Len(x) = Len(l) + Len(r), \A i \in 1 .. Len(l) : x[i] = l[i],
           \A i \in 1 .. Len(r) : x[Len(l) + i] = r[i]
    PROVE  l \o r = x
<1>1. /\ l \o r \in Seq(S) /\ Len(l \o r) = Len(l) + Len(r)
      /\ \A i \in 1 .. Len(l) + Len(r) : (l \o r)[i] = IF i <= Len(l) THEN l[i] ELSE r[i - Len(l)]
  BY ConcatProperties
<1>2. ASSUME NEW i \in 1 .. Len(l) + Len(r) PROVE (l \o r)[i] = x[i]
  <2>1. CASE i <= Len(l)
    BY <1>1, <2>1
  <2>2. CASE ~ i <= Len(l)
    <3>1. i - Len(l) \in 1 .. Len(r) /\ Len(l) + (i - Len(l)) = i
      BY <2>2
    <3>2. x[i] = r[i - Len(l)]
      BY <3>1
    <3> QED BY <1>1, <2>2, <3>2
  <2> QED BY <2>1, <2>2
<1> QED BY <1>1, <1>2, SeqEqual

LEMMA JoinThree ==
    ASSUME NEW a, NEW b, NEW c
    PROVE  <<a>> \o <<b, c>> = <<a, b, c>>
<1> DEFINE S == {a, b, c}
           l == <<a>>
           r == <<b, c>>
           x == <<a, b, c>>
<1>1. /\ l \in Seq(S) /\ r \in Seq(S) /\ x \in Seq(S)
      /\ Len(l) = 1 /\ Len(r) = 2 /\ Len(x) = 3
  OBVIOUS
<1>2. /\ x[1] = l[1]
      /\ x[2] = r[1] /\ x[3] = r[2]
  OBVIOUS
<1> HIDE DEF l, r, x, S
<1>3. Len(x) = Len(l) + Len(r) /\ \A i \in 1 .. Len(l) : x[i] = l[i]
  BY <1>1, <1>2
<1>4. \A i \in 1 .. Len(r) : x[Len(l) + i] = r[i]
  BY <1>1, <1>2
<1>5. l \o r = x
  BY <1>1, <1>3, <1>4, Joined
<1> QED BY <1>5 DEF l, r, x

LEMMA JoinFive ==
    ASSUME NEW a, NEW b, NEW c, NEW d, NEW e
    PROVE  <<a, b>> \o <<c, d, e>> = <<a, b, c, d, e>>
<1> DEFINE S == {a, b, c, d, e}
           l == <<a, b>>
           r == <<c, d, e>>
           x == <<a, b, c, d, e>>
<1>1. /\ l \in Seq(S) /\ r \in Seq(S) /\ x \in Seq(S)
      /\ Len(l) = 2 /\ Len(r) = 3 /\ Len(x) = 5
  OBVIOUS
<1>2. /\ x[1] = l[1] /\ x[2] = l[2]
      /\ x[3] = r[1] /\ x[4] = r[2] /\ x[5] = r[3]
  OBVIOUS
<1> HIDE DEF l, r, x, S
<1>3. Len(x) = Len(l) + Len(r) /\ \A i \in 1 .. Len(l) : x[i] = l[i]
  BY <1>1, <1>2
<1>4. \A i \in 1 .. Len(r) : x[Len(l) + i] = r[i]
  BY <1>1, <1>2
<1>5. l \o r = x
  BY <1>1, <1>3, <1>4, Joined
<1> QED BY <1>5 DEF l, r, x

LEMMA JoinSix ==
    ASSUME NEW a, NEW b, NEW c, NEW d, NEW e, NEW f
    PROVE  <<a>> \o <<b, c, d, e, f>> = <<a, b, c, d, e, f>>
<1> DEFINE S == {a, b, c, d, e, f}
           l == <<a>>
           r == <<b, c, d, e, f>>
           x == <<a, b, c, d, e, f>>
<1>1. /\ l \in Seq(S) /\ r \in Seq(S) /\ x \in Seq(S)
      /\ Len(l) = 1 /\ Len(r) = 5 /\ Len(x) = 6
  OBVIOUS
<1>2. /\ x[1] = l[1]
      /\ x[2] = r[1] /\ x[3] = r[2] /\ x[4] = r[3] /\ x[5] = r[4] /\ x[6] = r[5]
  OBVIOUS
<1> HIDE DEF l, r, x, S
<1>3. Len(x) = Len(l) + Len(r) /\ \A i \in 1 .. Len(l) : x[i] = l[i]
  BY <1>1, <1>2
<1>4. \A i \in 1 .. Len(r) : x[Len(l) + i] = r[i]
  BY <1>1, <1>2
<1>5. l \o r = x
  BY <1>1, <1>3, <1>4, Joined
<1> QED BY <1>5 DEF l, r, x

LEMMA JoinMany ==
    ASSUME NEW s, NEW r, NEW w, IsSeq(s), IsSeq(r), IsSeq(w)
    PROVE  s \o (r \o w) = (s \o r) \o w /\ <<>> \o w = w /\ w \o <<>> = w
<1>1. PICK S, T, U : s \in Seq(S) /\ r \in Seq(T) /\ w \in Seq(U)
  BY DEF IsSeq
<1>2. s \in Seq(S \cup T \cup U) /\ r \in Seq(S \cup T \cup U) /\ w \in Seq(S \cup T \cup U)
  BY <1>1, SeqMonotonic
<1> QED BY <1>2, ConcatAssociative, ConcatEmptySeq

\* Adding an entry to a history, and taking the last away.
LEMMA Longer ==
    ASSUME NEW s, IsSeq(s), NEW x
    PROVE  /\ IsSeq(Append(s, x)) /\ Len(s) \in Nat /\ Len(Append(s, x)) = Len(s) + 1
           /\ DOMAIN s = 1 .. Len(s) /\ DOMAIN Append(s, x) = 1 .. Len(s) + 1
           /\ Append(s, x)[Len(s) + 1] = x
           /\ \A i \in 1 .. Len(s) : Append(s, x)[i] = s[i]
<1>1. PICK S : s \in Seq(S)
  BY DEF IsSeq
<1>2. s \in Seq(S \cup {x})
  BY <1>1, SeqMonotonic
<1>3. Append(s, x) \in Seq(S \cup {x})
  BY <1>2
<1>4. IsSeq(Append(s, x))
  BY <1>3 DEF IsSeq
<1> QED BY <1>2, <1>3, <1>4

LEMMA Shorter ==
    ASSUME NEW s, IsSeq(s), s # <<>>
    PROVE  /\ IsSeq(Front(s)) /\ Len(s) \in Nat \ {0} /\ Len(Front(s)) = Len(s) - 1
           /\ DOMAIN s = 1 .. Len(s) /\ DOMAIN Front(s) = 1 .. Len(s) - 1
           /\ Last(s) = s[Len(s)]
           /\ \A i \in 1 .. Len(s) - 1 : Front(s)[i] = s[i]
<1>1. PICK S : s \in Seq(S)
  BY DEF IsSeq
<1>2. Len(s) \in Nat \ {0} /\ DOMAIN s = 1 .. Len(s)
  BY <1>1
<1>3. Len(s) - 1 \in Nat
  BY <1>2
<1>4. IsSeq(Front(s)) /\ Len(Front(s)) = Len(s) - 1
      /\ \A i \in 1 .. Len(s) - 1 : Front(s)[i] = s[i]
  BY <1>3, Shortened DEF Front
<1>5. DOMAIN Front(s) = 1 .. Len(s) - 1
  BY <1>4, LenProperties DEF IsSeq
<1> QED BY <1>2, <1>4, <1>5 DEF Last

-----------------------------------------------------------------------------
(* What a task has yet to return from. *)

\* The state that us[i] was entered with has become: the one left by the next
\* transfer, or the task's present state c.
After(us, c, i) == IF i = Len(us) THEN c ELSE us[i + 1].from

Switched(e) == e.ss # e.from.ss
FrameSize(e) == (IF e.kind = "call" THEN e.params + 2 ELSE 3)
              + (IF Switched(e) THEN 2 ELSE 0) + (IF e.from.f.vm THEN 1 ELSE 0)

\* A call or an interrupt: from a state that can be gone on from, with a frame
\* as large as its kind calls for, on a stack of the task that is a ring-0 one
\* when it is another.
IsTransfer(t, e) ==
    /\ e.kind \in {"call", "interrupt"}
    /\ IsContext(e.from) /\ (e.from.f.vm \/ e.from.ds = Null)
    /\ e.kind = "call" => ~ e.from.f.vm
    /\ e.kind = "interrupt" => e.params = 0
    /\ e.from.ss \in StacksOf(t) /\ e.ss \in StacksOf(t) /\ Names(e.ss, {"data"})
    /\ Switched(e) => e.from.ss.rpl = 3 /\ e.ss.rpl = 0
    /\ e.esp = (IF Switched(e) THEN 0 ELSE e.from.esp) + FrameSize(e)

IsEntry(t, e, i) ==
    /\ e = [x \in {"kind", "from", "params", "intact", "ss", "esp"} |-> e[x]]
    /\ e.intact \in BOOLEAN /\ e.params \in Nat /\ e.ss.rpl \in {0, 3}
    /\ IF e.kind = "task" THEN i = 1 /\ e.intact ELSE IsTransfer(t, e)

\* What IRET and RETF rely on of the flags that they do not pop.
KeepsFlags(e, c) ==
    /\ e.kind = "interrupt" => ~ c.f.nt
    /\ e.kind = "interrupt" /\ ~ Switched(e) /\ e.ss.rpl > Iopl => c.f.if = e.from.f.if
    /\ e.kind = "call" => /\ c.f.if = e.from.f.if /\ c.f.vm = e.from.f.vm
                          /\ c.f.nt => e.from.f.nt

\* Nothing has been popped below the frame of us[i] since.
Live(us, c, i) ==
    \A j \in i .. Len(us) : us[j].ss = us[i].ss => us[i].esp <= After(us, c, j).esp

\* The frame of e on the stack s, its words numbered from the top.
Word(e, s, k) == s[e.esp + 1 - k]
Frame(e, s) ==
    LET o == IF e.kind = "call" THEN e.params + 2 ELSE 3
    IN  /\ Word(e, s, 1) = [ip |-> e.from.ip]
        /\ IF e.intact \/ e.from.f.vm THEN Word(e, s, 2) = e.from.cs
           ELSE Word(e, s, 2) \in Returns /\ Word(e, s, 2).rpl = e.from.cs.rpl
        /\ e.kind = "interrupt" => Word(e, s, 3) = e.from.f
        /\ Switched(e) => /\ Word(e, s, o + 1) = [esp |-> e.from.esp + e.params]
                          /\ Word(e, s, o + 2) = e.from.ss
        /\ e.from.f.vm => Word(e, s, o + 3) = e.from.ds

\* Later transfers are never in an outer ring, so that an entry to ring 0, which
\* starts its stack anew, overwrites no frame that is still needed.
IsHistory(t, us, c, stack) ==
    /\ IsSeq(us)
    /\ \A i \in 1 .. Len(us) : /\ IsEntry(t, us[i], i) /\ After(us, c, i).ss = us[i].ss
                               /\ KeepsFlags(us[i], After(us, c, i))
    /\ \A i, j \in 1 .. Len(us) : i <= j => us[j].ss.rpl <= us[i].ss.rpl
    /\ \A i \in 1 .. Len(us) : us[i].kind # "task" /\ Live(us, c, i) =>
                               Frame(us[i], stack[us[i].ss.index])

-----------------------------------------------------------------------------
(* Histories. *)

LEMMA EntryTypes ==
    ASSUME NEW t, NEW e, NEW i, IsEntry(t, e, i), e.kind # "task"
    PROVE  /\ IsTransfer(t, e) /\ e.from.esp \in Nat /\ e.esp \in Nat /\ e.params \in Nat
           /\ e.from.f.vm \in BOOLEAN /\ FrameSize(e) \in Nat /\ FrameSize(e) <= e.esp
           /\ 2 <= FrameSize(e) /\ (~ Switched(e) => e.from.esp + FrameSize(e) = e.esp)
           /\ e.ss \in StacksOf(t) /\ e.from.ss \in StacksOf(t) /\ e.ss.rpl \in {0, 3}
<1>1. IsTransfer(t, e) /\ e.params \in Nat
  BY DEF IsEntry
<1>2. e.from.esp \in Nat /\ e.from.f.vm \in BOOLEAN
  BY <1>1 DEF IsTransfer, IsContext
<1>3. FrameSize(e) \in Nat /\ 2 <= FrameSize(e)
  BY <1>1, <1>2 DEF FrameSize
<1>4. e.esp = (IF Switched(e) THEN 0 ELSE e.from.esp) + FrameSize(e)
  BY <1>1 DEF IsTransfer
<1>5. e.ss \in StacksOf(t) /\ e.from.ss \in StacksOf(t)
  BY <1>1 DEF IsTransfer
<1>6. e.ss.rpl \in {0, 3}
  BY DEF IsEntry
<1> QED BY <1>1, <1>2, <1>3, <1>4, <1>5, <1>6

\* A frame is the words up to its top.
LEMMA FrameStays ==
    ASSUME NEW t, NEW e, NEW i, IsEntry(t, e, i), e.kind # "task",
           NEW s, NEW r, Frame(e, s), SameWords(r, s, e.esp)
    PROVE  Frame(e, r)
<1> DEFINE o == IF e.kind = "call" THEN e.params + 2 ELSE 3
<1>1. /\ IsTransfer(t, e) /\ e.esp \in Nat /\ e.params \in Nat
      /\ FrameSize(e) \in Nat /\ FrameSize(e) <= e.esp /\ 2 <= FrameSize(e)
      /\ e.from.f.vm \in BOOLEAN
  BY EntryTypes
<1>2. ASSUME NEW k \in 1 .. FrameSize(e) PROVE Word(e, r, k) = Word(e, s, k)
  <2>1. e.esp + 1 - k \in 1 .. e.esp
    BY <1>1
  <2> QED BY <2>1 DEF Word, SameWords
<1>3. 1 \in 1 .. FrameSize(e) /\ 2 \in 1 .. FrameSize(e)
  BY <1>1
<1>4. e.kind = "interrupt" => 3 \in 1 .. FrameSize(e)
  BY <1>1 DEF FrameSize
<1>5. Switched(e) => o + 1 \in 1 .. FrameSize(e) /\ o + 2 \in 1 .. FrameSize(e)
  BY <1>1 DEF FrameSize
<1>6. e.from.f.vm => o + 3 \in 1 .. FrameSize(e)
  <2> SUFFICES ASSUME e.from.f.vm PROVE o + 3 \in 1 .. FrameSize(e)
    OBVIOUS
  <2>1. e.from.ss = Real /\ e.ss.index \in DOMAIN Table
    BY <1>1 DEF IsTransfer, IsContext, Names
  <2>2. Switched(e)
    BY <2>1, ProtectedModeAssumption DEF Switched, Real, Sel, TableAssumption
  <2> QED BY <1>1, <2>2 DEF FrameSize
<1> HIDE DEF o
<1>7. /\ Word(e, s, 1) = [ip |-> e.from.ip]
      /\ IF e.intact \/ e.from.f.vm THEN Word(e, s, 2) = e.from.cs
         ELSE Word(e, s, 2) \in Returns /\ Word(e, s, 2).rpl = e.from.cs.rpl
      /\ e.kind = "interrupt" => Word(e, s, 3) = e.from.f
      /\ Switched(e) => /\ Word(e, s, o + 1) = [esp |-> e.from.esp + e.params]
                        /\ Word(e, s, o + 2) = e.from.ss
      /\ e.from.f.vm => Word(e, s, o + 3) = e.from.ds
  BY DEF Frame, o
<1>8. /\ Word(e, r, 1) = [ip |-> e.from.ip]
      /\ IF e.intact \/ e.from.f.vm THEN Word(e, r, 2) = e.from.cs
         ELSE Word(e, r, 2) \in Returns /\ Word(e, r, 2).rpl = e.from.cs.rpl
      /\ e.kind = "interrupt" => Word(e, r, 3) = e.from.f
      /\ Switched(e) => /\ Word(e, r, o + 1) = [esp |-> e.from.esp + e.params]
                        /\ Word(e, r, o + 2) = e.from.ss
      /\ e.from.f.vm => Word(e, r, o + 3) = e.from.ds
  BY <1>2, <1>3, <1>4, <1>5, <1>6, <1>7
<1> QED BY <1>8 DEF Frame, o

\* A stack's name says whose it is, and of which ring.
LEMMA StackOf ==
    ASSUME NEW t \in DOMAIN Tasks, NEW s \in StacksOf(t)
    PROVE  /\ s.index \in StackNames /\ s.rpl \in {0, 3}
           /\ s = Real \/ (Names(s, {"data"}) /\ DescriptorOf(s).dpl = s.rpl)
<1>1. s.index \in StackNames
  BY DEF StackNames
<1>2. CASE s = Tasks[t].ss0
  <2>1. Names(s, {"data"}) /\ SegmentFault("ss", s, 0) = "none"
    BY <1>2, ProtectedModeAssumption DEF TasksAssumption
  <2>2. s.rpl = 0 /\ DescriptorOf(s).dpl = 0
    BY <2>1 DEF SegmentFault
  <2> QED BY <1>1, <2>1, <2>2
<1>3. CASE s # Tasks[t].ss0
  <2>1. PICK c \in Tasks[t].starts : s = c.ss /\ IsContext(c)
    BY <1>3, ProtectedModeAssumption DEF StacksOf, TasksAssumption
  <2>2. CASE c.f.vm
    BY <1>1, <2>1, <2>2 DEF IsContext, Real, Sel
  <2>3. CASE ~ c.f.vm
    <3>1. Names(s, {"data"}) /\ SegmentFault("ss", s, c.cs.rpl) = "none" /\ c.cs.rpl \in {0, 3}
      BY <2>1, <2>3 DEF IsContext, Fit, Names, IsSelector
    <3>2. s.rpl = c.cs.rpl /\ DescriptorOf(s).dpl = c.cs.rpl
      BY <3>1 DEF SegmentFault
    <3> QED BY <1>1, <3>1, <3>2
  <2> QED BY <2>2, <2>3
<1> QED BY <1>2, <1>3

LEMMA StacksDiffer ==
    ASSUME NEW t \in DOMAIN Tasks, NEW u \in DOMAIN Tasks,
           NEW s \in StacksOf(t), NEW r \in StacksOf(u), s.index = r.index
    PROVE  t = u /\ s = r
<1>1. t = u
  BY ProtectedModeAssumption DEF TasksAssumption
<1>2. CASE s = Real
  <2>1. r.index \notin DOMAIN Table
    BY <1>2, ProtectedModeAssumption DEF TableAssumption, Real, Sel
  <2>2. r = Real
    BY <2>1, StackOf DEF Names
  <2> QED BY <1>1, <1>2, <2>2
<1>3. CASE s # Real
  <2>1. Names(s, {"data"}) /\ DescriptorOf(s).dpl = s.rpl
    BY <1>3, StackOf
  <2>2. r # Real
    BY <2>1, ProtectedModeAssumption DEF TableAssumption, Real, Sel, Names
  <2>3. Names(r, {"data"}) /\ DescriptorOf(r).dpl = r.rpl
    BY <2>2, StackOf
  <2>4. s.rpl = r.rpl
    BY <2>1, <2>3 DEF DescriptorOf
  <2> QED BY <1>1, <2>1, <2>3, <2>4 DEF Names, IsSelector
<1> QED BY <1>2, <1>3

\* r holds what s held, where the stack named x holds as many words as k.
Agree(r, s, t, level, x, k) ==
    \A y \in StacksOf(t) : y.rpl >= level =>
        IF y = x THEN SameWords(r[y.index], s[y.index], k)
        ELSE r[y.index] = s[y.index]

\* What a task still has to return from survives whatever leaves its stack
\* segment and flags alone, and the words it does not pop.
LEMMA HistoryStays ==
    ASSUME NEW t \in DOMAIN Tasks, NEW us, NEW c, NEW d, NEW s, NEW r,
           IsHistory(t, us, c, s), c.esp \in Nat, d.esp \in Nat, d.esp <= c.esp, d.ss = c.ss,
           d.f.if = c.f.if, d.f.vm = c.f.vm, d.f.nt => c.f.nt,
           Agree(r, s, t, 0, d.ss, d.esp)
    PROVE  IsHistory(t, us, d, r)
<1> DEFINE n == Len(us)
<1>1. n \in Nat /\ IsSeq(us)
  BY LenProperties DEF IsHistory, IsSeq
<1>2. ASSUME NEW i \in 1 .. n
      PROVE  /\ IsEntry(t, us[i], i) /\ After(us, c, i).ss = us[i].ss
             /\ KeepsFlags(us[i], After(us, c, i))
  BY DEF IsHistory
<1>3. ASSUME NEW i \in 1 .. n
      PROVE  /\ IsEntry(t, us[i], i) /\ After(us, d, i).ss = us[i].ss
             /\ KeepsFlags(us[i], After(us, d, i))
  <2>1. CASE i = n
    BY <1>2, <2>1 DEF After, KeepsFlags
  <2>2. CASE i # n
    BY <1>2, <2>2 DEF After
  <2> QED BY <2>1, <2>2
<1>4. ASSUME NEW i \in 1 .. n, us[i].kind # "task", Live(us, d, i)
      PROVE  Frame(us[i], r[us[i].ss.index])
  <2> DEFINE e == us[i]
  <2>1. IsEntry(t, e, i) /\ e.kind # "task"
    BY <1>2, <1>4
  <2> HIDE DEF e
  <2>0. e.esp \in Nat /\ e.ss \in StacksOf(t) /\ e.ss.rpl >= 0
    BY <2>1, EntryTypes
  <2>2. ASSUME NEW j \in i .. n, us[j].ss = e.ss PROVE e.esp <= After(us, c, j).esp
    <3>1. e.esp <= After(us, d, j).esp
      BY <1>4, <2>2 DEF Live, e
    <3>2. CASE j = n
      <4>1. e.esp <= d.esp
        BY <3>1, <3>2 DEF After
      <4> QED BY <2>0, <3>2, <4>1 DEF After
    <3>3. CASE j # n
      BY <3>1, <3>3 DEF After
    <3> QED BY <3>2, <3>3
  <2>3. Frame(e, s[e.ss.index])
    BY <1>4, <2>2 DEF Live, IsHistory, e
  <2>4. SameWords(r[e.ss.index], s[e.ss.index], e.esp)
    <3>1. CASE e.ss = d.ss
      <4>1. us[n].ss = d.ss /\ n \in i .. n
        BY <1>1, <1>3 DEF After
      <4>2. e.esp <= d.esp
        BY <1>4, <3>1, <4>1 DEF Live, After, e
      <4>3. SameWords(r[e.ss.index], s[e.ss.index], d.esp)
        BY <2>0, <3>1 DEF Agree, SameWords
      <4> QED BY <2>0, <4>2, <4>3 DEF SameWords
    <3>2. CASE e.ss # d.ss
      BY <2>0, <3>2 DEF Agree, SameWords
    <3> QED BY <3>1, <3>2
  <2>5. Frame(e, r[e.ss.index])
    BY <2>1, <2>3, <2>4, FrameStays
  <2> QED BY <2>5 DEF e
<1>5. \A i, j \in 1 .. n : i <= j => us[j].ss.rpl <= us[i].ss.rpl
  BY DEF IsHistory
<1> QED BY <1>1, <1>3, <1>4, <1>5 DEF IsHistory

\* It survives a transfer: the entry that is added leaves from where the task
\* was, and what is pushed is pushed on top, or on the empty stack of ring 0.
LEMMA HistoryGrows ==
    ASSUME NEW t \in DOMAIN Tasks, NEW us, NEW c, NEW d, NEW s, NEW r, NEW e,
           IsHistory(t, us, c, s), c.esp \in Nat,
           IsEntry(t, e, Len(us) + 1), d.ss = e.ss, KeepsFlags(e, d),
           e.kind # "task" => Frame(e, r[e.ss.index]),
           us # <<>> => /\ e.from.ss = c.ss /\ e.from.f = c.f /\ e.from.esp \in Nat
                        /\ e.from.esp <= c.esp /\ e.ss.rpl <= c.ss.rpl
                        /\ Agree(r, s, t, c.ss.rpl, c.ss, c.esp)
    PROVE  IsHistory(t, Append(us, e), d, r)
<1> DEFINE n == Len(us)
           vs == Append(us, e)
<1>1. /\ IsSeq(vs) /\ n \in Nat /\ Len(vs) = n + 1 /\ vs[n + 1] = e
      /\ \A i \in 1 .. n : vs[i] = us[i]
  BY Longer DEF IsHistory
<1>2. ASSUME NEW i \in 1 .. n
      PROVE  /\ us # <<>> /\ IsEntry(t, us[i], i) /\ After(us, c, i).ss = us[i].ss
             /\ KeepsFlags(us[i], After(us, c, i))
  BY DEF IsHistory
<1> HIDE DEF vs
<1>3. ASSUME NEW i \in 1 .. n
      PROVE  /\ After(vs, d, i).ss = After(us, c, i).ss
             /\ After(vs, d, i).f = After(us, c, i).f
  <2>1. CASE i = n
    <3>1. After(us, c, i) = c
      BY <2>1 DEF After
    <3>2. After(vs, d, i) = e.from
      BY <1>1, <2>1 DEF After
    <3> QED BY <1>2, <3>1, <3>2
  <2>2. CASE i # n
    <3>1. i # Len(vs) /\ vs[i + 1] = us[i + 1]
      BY <1>1, <2>2
    <3> QED BY <2>2, <3>1 DEF After
  <2> QED BY <2>1, <2>2
<1>4. ASSUME NEW i \in 1 .. n + 1
      PROVE  /\ IsEntry(t, vs[i], i) /\ After(vs, d, i).ss = vs[i].ss
             /\ KeepsFlags(vs[i], After(vs, d, i))
  <2>1. CASE i = n + 1
    BY <1>1, <2>1 DEF After
  <2>2. CASE i # n + 1
    <3>1. i \in 1 .. n /\ vs[i] = us[i]
      BY <1>1, <2>2
    <3> QED BY <1>2, <1>3, <3>1 DEF KeepsFlags
  <2> QED BY <2>1, <2>2
<1>5. ASSUME NEW i \in 1 .. n PROVE us[n].ss.rpl <= us[i].ss.rpl /\ us[n].ss = c.ss
  <2>1. n \in 1 .. n /\ i <= n
    BY <1>1
  <2>2. After(us, c, n) = c
    BY DEF After
  <2> QED BY <1>2, <2>1, <2>2 DEF IsHistory
<1>6. \A i \in 1 .. n + 1 : vs[i].ss.rpl \in {0, 3}
  BY <1>4 DEF IsEntry
<1>7. ASSUME NEW i \in 1 .. n + 1, NEW j \in 1 .. n + 1, i <= j
      PROVE  vs[j].ss.rpl <= vs[i].ss.rpl
  <2>1. CASE i = n + 1
    <3>1. j = i
      BY <1>1, <1>7, <2>1
    <3> QED BY <1>6, <3>1
  <2>2. CASE j = n + 1 /\ i # n + 1
    <3>1. i \in 1 .. n /\ us # <<>> /\ vs[j] = e /\ vs[i] = us[i]
      BY <1>1, <1>2, <2>2
    <3>2. e.ss.rpl <= c.ss.rpl /\ c.ss.rpl <= us[i].ss.rpl /\ c.ss.rpl = us[n].ss.rpl
      BY <1>5, <3>1
    <3>3. vs[i].ss.rpl \in {0, 3} /\ vs[j].ss.rpl \in {0, 3} /\ vs[n].ss.rpl \in {0, 3}
          /\ n \in 1 .. n
      BY <1>1, <1>6, <3>1
    <3>4. us[n].ss.rpl \in {0, 3}
      BY <1>1, <3>3
    <3> QED BY <3>1, <3>2, <3>3, <3>4
  <2>3. CASE j # n + 1 /\ i # n + 1
    <3>1. i \in 1 .. n /\ j \in 1 .. n
      BY <1>1, <2>3
    <3> QED BY <1>1, <1>7, <3>1 DEF IsHistory
  <2> QED BY <2>1, <2>2, <2>3
<1>8. ASSUME NEW i \in 1 .. n + 1, vs[i].kind # "task", Live(vs, d, i)
      PROVE  Frame(vs[i], r[vs[i].ss.index])
  <2>1. CASE i = n + 1
    BY <1>1, <1>8, <2>1
  <2>2. CASE i # n + 1
    <3> DEFINE g == us[i]
    <3>1. i \in 1 .. n /\ vs[i] = us[i] /\ us # <<>>
      BY <1>1, <1>2, <2>2
    <3>2. IsEntry(t, g, i) /\ g.kind # "task"
      BY <1>2, <1>8, <3>1
    <3>3. g.ss.rpl >= c.ss.rpl
      BY <1>5, <3>1
    <3> HIDE DEF g
    <3>4. g.esp \in Nat /\ g.ss \in StacksOf(t)
      BY <3>2, EntryTypes
    <3>5. ASSUME NEW j \in i .. n, us[j].ss = g.ss PROVE g.esp <= After(us, c, j).esp
      <4>1. j \in i .. n + 1 /\ vs[j].ss = g.ss /\ j \in 1 .. n
        BY <1>1, <3>1, <3>5
      <4>2. g.esp <= After(vs, d, j).esp
        BY <1>1, <1>8, <3>1, <4>1 DEF Live, g
      <4>3. CASE j = n
        <5>1. g.esp <= e.from.esp
          BY <1>1, <4>2, <4>3 DEF After
        <5> QED BY <3>1, <3>4, <4>3, <5>1 DEF After
      <4>4. CASE j # n
        BY <1>1, <4>1, <4>2, <4>4 DEF After
      <4> QED BY <4>3, <4>4
    <3>6. Frame(g, s[g.ss.index])
      BY <3>1, <3>2, <3>5 DEF Live, IsHistory, g
    <3>7. SameWords(r[g.ss.index], s[g.ss.index], g.esp)
      <4>1. CASE g.ss = c.ss
        <5>1. us[n].ss = c.ss /\ n \in i .. n /\ After(us, c, n) = c
          BY <1>1, <1>5, <3>1 DEF After
        <5>2. g.esp <= c.esp
          BY <3>5, <4>1, <5>1
        <5>3. SameWords(r[g.ss.index], s[g.ss.index], c.esp)
          BY <3>1, <3>3, <3>4, <4>1 DEF Agree, SameWords
        <5> QED BY <3>4, <5>2, <5>3 DEF SameWords
      <4>2. CASE g.ss # c.ss
        BY <3>1, <3>3, <3>4, <4>2 DEF Agree, SameWords
      <4> QED BY <4>1, <4>2
    <3>8. Frame(g, r[g.ss.index])
      BY <3>2, <3>6, <3>7, FrameStays
    <3> QED BY <3>1, <3>8 DEF g
  <2> QED BY <2>1, <2>2
<1>9. IsHistory(t, vs, d, r)
  BY <1>1, <1>4, <1>7, <1>8 DEF IsHistory
<1> QED BY <1>9 DEF vs

\* It survives a return: the task is where its last entry left from, and what
\* has been popped or left behind was above.
LEMMA HistoryShrinks ==
    ASSUME NEW t \in DOMAIN Tasks, NEW us, NEW c, NEW d, NEW s, NEW r,
           IsHistory(t, us, c, s), us # <<>>, Last(us).kind # "task",
           c.esp = Last(us).esp, d.ss = Last(us).from.ss, d.esp = Last(us).from.esp,
           d.f.if = Last(us).from.f.if, d.f.vm = Last(us).from.f.vm,
           d.f.nt => Last(us).from.f.nt,
           Agree(r, s, t, d.ss.rpl, d.ss, d.esp)
    PROVE  IsHistory(t, Front(us), d, r)
<1> DEFINE n == Len(us) - 1
           vs == Front(us)
           e  == us[n + 1]
<1>1. /\ IsSeq(vs) /\ Len(us) = n + 1 /\ n \in Nat /\ Len(vs) = n /\ Last(us) = e
      /\ \A i \in 1 .. n : vs[i] = us[i]
  <2>1. IsSeq(us) /\ us # <<>>
    BY DEF IsHistory
  <2>2. /\ IsSeq(vs) /\ Len(us) \in Nat \ {0} /\ Len(vs) = n /\ Last(us) = us[Len(us)]
        /\ \A i \in 1 .. n : vs[i] = us[i]
    BY <2>1, Shorter
  <2>3. Len(us) = n + 1 /\ n \in Nat
    BY <2>2
  <2>4. Last(us) = e
    BY <2>2, <2>3
  <2> QED BY <2>2, <2>3, <2>4
<1>2. ASSUME NEW i \in 1 .. n + 1
      PROVE  /\ IsEntry(t, us[i], i) /\ After(us, c, i).ss = us[i].ss
             /\ KeepsFlags(us[i], After(us, c, i))
  BY <1>1 DEF IsHistory
<1>3. IsEntry(t, e, n + 1) /\ e.kind # "task" /\ n + 1 \in 1 .. n + 1
  BY <1>1, <1>2
<1>4. /\ c.esp = e.esp /\ d.ss = e.from.ss /\ d.esp = e.from.esp
      /\ d.f.if = e.from.f.if /\ d.f.vm = e.from.f.vm /\ (d.f.nt => e.from.f.nt)
  BY <1>1
<1> HIDE DEF vs, e, n
<1>5. ASSUME NEW i \in 1 .. n PROVE us[i + 1].from = After(us, c, i) /\ i \in 1 .. n + 1
  <2>1. i # Len(us) /\ i \in 1 .. n + 1
    BY <1>1
  <2> QED BY <2>1 DEF After
<1>6. /\ IsTransfer(t, e) /\ e.from.esp \in Nat /\ e.esp \in Nat /\ e.params \in Nat
      /\ FrameSize(e) \in Nat /\ (~ Switched(e) => e.from.esp + FrameSize(e) = e.esp)
      /\ e.ss \in StacksOf(t) /\ e.from.ss \in StacksOf(t) /\ e.ss.rpl \in {0, 3}
  BY <1>3, EntryTypes
<1>7. ASSUME NEW i \in 1 .. n
      PROVE  After(vs, d, i).ss = After(us, c, i).ss /\ KeepsFlags(us[i], After(vs, d, i))
  <2>1. CASE i = n
    <3>1. After(vs, d, i) = d /\ After(us, c, i) = e.from
      BY <1>1, <1>5, <2>1 DEF After, e
    <3> QED BY <1>2, <1>4, <1>5, <3>1 DEF KeepsFlags
  <2>2. CASE i # n
    <3>1. After(vs, d, i) = us[i + 1].from
      BY <1>1, <2>2 DEF After
    <3> QED BY <1>2, <1>5, <3>1
  <2> QED BY <2>1, <2>2
<1>8. ASSUME NEW i \in 1 .. n
      PROVE  /\ IsEntry(t, vs[i], i) /\ After(vs, d, i).ss = vs[i].ss
             /\ KeepsFlags(vs[i], After(vs, d, i))
  BY <1>1, <1>2, <1>5, <1>7
<1>9. ASSUME NEW i \in 1 .. n + 1, NEW j \in 1 .. n + 1, i <= j
      PROVE  us[j].ss.rpl <= us[i].ss.rpl
  BY <1>1, <1>9 DEF IsHistory
<1>10. ASSUME NEW i \in 1 .. n, vs[i].kind # "task", Live(vs, d, i)
       PROVE  Frame(vs[i], r[vs[i].ss.index])
  <2> DEFINE g == us[i]
  <2>1. IsEntry(t, g, i) /\ g.kind # "task" /\ vs[i] = us[i] /\ i \in 1 .. n + 1
    BY <1>1, <1>2, <1>5, <1>10
  <2>2. n \in i .. n /\ n \in 1 .. n /\ n \in 1 .. n + 1 /\ n + 1 \in 1 .. n + 1 /\ i <= n /\ n <= n + 1
    BY <1>1
  <2>3. us[n].ss = e.from.ss /\ vs[n] = us[n] /\ After(vs, d, n) = d
    BY <1>1, <1>2, <1>5, <2>2 DEF e, After
  <2>4. e.from.ss.rpl <= g.ss.rpl
    BY <1>9, <2>1, <2>2, <2>3
  <2>5. g.ss.rpl \in {0, 3} /\ e.from.ss.rpl \in {0, 3}
    BY <2>1, <1>2, <2>2, <2>3 DEF IsEntry
  <2> HIDE DEF g
  <2>6. g.esp \in Nat /\ g.ss \in StacksOf(t)
    BY <2>1, EntryTypes
  <2>7. e.from.ss = g.ss => g.esp <= e.from.esp
    BY <1>1, <1>4, <1>10, <2>1, <2>2, <2>3 DEF Live, g
  <2>8. ASSUME NEW j \in i .. n + 1, us[j].ss = g.ss PROVE g.esp <= After(us, c, j).esp
    <3>1. CASE j = n + 1
      <4>1. After(us, c, j) = c /\ e.ss = g.ss
        BY <1>1, <2>8, <3>1 DEF After, e
      <4>2. ~ Switched(e)
        BY <1>6, <2>4, <2>5, <4>1 DEF IsTransfer
      <4>3. g.esp <= e.from.esp /\ e.from.esp <= e.esp
        BY <1>6, <2>7, <4>1, <4>2 DEF Switched
      <4> QED BY <1>4, <1>6, <2>6, <4>1, <4>3
    <3>2. CASE j # n + 1
      <4>1. j \in i .. n /\ j \in 1 .. n /\ vs[j].ss = g.ss /\ Len(vs) = n
        BY <1>1, <2>8, <3>2
      <4>2. g.esp <= After(vs, d, j).esp
        BY <1>10, <2>1, <4>1 DEF Live, g
      <4>3. CASE j = n
        BY <1>4, <1>5, <2>3, <4>1, <4>2, <4>3 DEF e
      <4>4. CASE j # n
        BY <1>1, <1>5, <4>1, <4>2, <4>4 DEF After
      <4> QED BY <4>3, <4>4
    <3> QED BY <3>1, <3>2
  <2>9. Frame(g, s[g.ss.index])
    BY <1>1, <2>1, <2>8 DEF Live, IsHistory, g
  <2>10. SameWords(r[g.ss.index], s[g.ss.index], g.esp)
    <3>1. CASE g.ss = d.ss
      <4>1. g.esp <= d.esp
        BY <1>4, <2>7, <3>1
      <4>2. SameWords(r[g.ss.index], s[g.ss.index], d.esp)
        BY <1>4, <2>4, <2>6, <3>1 DEF Agree, SameWords
      <4> QED BY <1>4, <1>6, <2>6, <4>1, <4>2 DEF SameWords
    <3>2. CASE g.ss # d.ss
      BY <1>4, <2>4, <2>6, <3>2 DEF Agree, SameWords
    <3> QED BY <3>1, <3>2
  <2>11. Frame(g, r[g.ss.index])
    BY <2>1, <2>9, <2>10, FrameStays
  <2> QED BY <2>1, <2>11 DEF g
<1>11. \A i, j \in 1 .. n : i <= j => vs[j].ss.rpl <= vs[i].ss.rpl
  BY <1>1, <1>5, <1>9
<1>12. IsHistory(t, vs, d, r)
  BY <1>1, <1>8, <1>10, <1>11 DEF IsHistory
<1> QED BY <1>12 DEF vs

\* The frame of an entry whose return selector is changed is that of the entry
\* that is no longer intact.
LEMMA FrameChanges ==
    ASSUME NEW t, NEW e, NEW i, IsEntry(t, e, i), e.kind # "task", ~ e.from.f.vm,
           NEW s, NEW r, Frame(e, s),
           NEW x \in Returns, x.rpl = e.from.cs.rpl, SameBut(r, s, e.esp, e.esp - 1, x)
    PROVE  IsEntry(t, [e EXCEPT !.intact = FALSE], i) /\ Frame([e EXCEPT !.intact = FALSE], r)
<1> DEFINE o == IF e.kind = "call" THEN e.params + 2 ELSE 3
           f == [e EXCEPT !.intact = FALSE]
<1>1. /\ IsTransfer(t, e) /\ e.esp \in Nat /\ e.params \in Nat
      /\ FrameSize(e) \in Nat /\ FrameSize(e) <= e.esp /\ 2 <= FrameSize(e)
  BY EntryTypes
<1>2. /\ f.kind = e.kind /\ f.from = e.from /\ f.params = e.params /\ f.ss = e.ss
      /\ f.esp = e.esp /\ f.intact = FALSE
      /\ f = [y \in {"kind", "from", "params", "intact", "ss", "esp"} |-> f[y]]
  <2>1. e = [y \in {"kind", "from", "params", "intact", "ss", "esp"} |-> e[y]]
    BY DEF IsEntry
  <2> QED BY <2>1
<1> HIDE DEF f
<1>3. Switched(f) = Switched(e) /\ FrameSize(f) = FrameSize(e)
  BY <1>2 DEF Switched, FrameSize
<1>4. IsTransfer(t, f)
  BY <1>1, <1>2, <1>3 DEF IsTransfer
<1>5. IsEntry(t, f, i)
  <2>1. e.ss.rpl \in {0, 3}
    BY DEF IsEntry
  <2> QED BY <1>1, <1>2, <1>4, <2>1 DEF IsEntry
<1>6. ASSUME NEW k \in 1 .. FrameSize(e), k # 2 PROVE Word(f, r, k) = Word(e, s, k)
  <2>1. e.esp + 1 - k \in 1 .. e.esp /\ e.esp + 1 - k # e.esp - 1
    BY <1>1, <1>6
  <2> QED BY <1>2, <2>1 DEF Word, SameBut
<1>7. Word(f, r, 2) = x
  <2>1. e.esp + 1 - 2 = e.esp - 1
    BY <1>1
  <2> QED BY <1>2, <2>1 DEF Word, SameBut
<1>8. /\ 1 \in 1 .. FrameSize(e)
      /\ (e.kind = "interrupt" => 3 \in 1 .. FrameSize(e))
      /\ (Switched(e) => o + 1 \in 1 .. FrameSize(e) /\ o + 2 \in 1 .. FrameSize(e))
      /\ o + 1 # 2 /\ o + 2 # 2
  BY <1>1 DEF FrameSize
<1> HIDE DEF o
<1>9. /\ Word(e, s, 1) = [ip |-> e.from.ip]
      /\ e.kind = "interrupt" => Word(e, s, 3) = e.from.f
      /\ Switched(e) => /\ Word(e, s, o + 1) = [esp |-> e.from.esp + e.params]
                        /\ Word(e, s, o + 2) = e.from.ss
  BY DEF Frame, o
<1>10. /\ Word(f, r, 1) = [ip |-> e.from.ip]
       /\ e.kind = "interrupt" => Word(f, r, 3) = e.from.f
       /\ Switched(e) => /\ Word(f, r, o + 1) = [esp |-> e.from.esp + e.params]
                         /\ Word(f, r, o + 2) = e.from.ss
  <2>1. Word(f, r, 1) = Word(e, s, 1)
    BY <1>1, <1>6, <1>8
  <2>2. e.kind = "interrupt" => Word(f, r, 3) = Word(e, s, 3)
    BY <1>1, <1>6, <1>8
  <2>3. Switched(e) => Word(f, r, o + 1) = Word(e, s, o + 1) /\ Word(f, r, o + 2) = Word(e, s, o + 2)
    BY <1>1, <1>6, <1>8
  <2> QED BY <1>9, <2>1, <2>2, <2>3
<1>11. o = IF f.kind = "call" THEN f.params + 2 ELSE 3
  BY <1>2 DEF o
<1>12. Frame(f, r)
  BY <1>2, <1>3, <1>7, <1>10, <1>11 DEF Frame
<1> QED BY <1>5, <1>12 DEF f

LEMMA HistoryWeakens ==
    ASSUME NEW t \in DOMAIN Tasks, NEW us, NEW c, NEW s, NEW r,
           IsHistory(t, us, c, s), us # <<>>, NEW e, e = Last(us), e.kind # "task",
           ~ e.from.f.vm, c.esp = e.esp,
           NEW x \in Returns, x.rpl = e.from.cs.rpl,
           SameBut(r[e.ss.index], s[e.ss.index], e.esp, e.esp - 1, x),
           \A y \in StacksOf(t) : y # e.ss => r[y.index] = s[y.index]
    PROVE  IsHistory(t, Append(Front(us), [e EXCEPT !.intact = FALSE]), c, r)
<1> DEFINE n == Len(us) - 1
           f  == [e EXCEPT !.intact = FALSE]
           fs == Front(us)
           vs == Append(fs, f)
<1>1. /\ IsSeq(fs) /\ Len(us) = n + 1 /\ n \in Nat /\ Len(fs) = n /\ e = us[n + 1]
      /\ \A i \in 1 .. n : fs[i] = us[i]
  BY Shorter DEF IsHistory
<1> HIDE DEF f, n, fs
<1>2. /\ IsSeq(vs) /\ Len(vs) = n + 1 /\ vs[n + 1] = f
      /\ \A i \in 1 .. n : vs[i] = fs[i]
  BY <1>1, Longer
<1> HIDE DEF vs
<1>3. ASSUME NEW i \in 1 .. n + 1
      PROVE  /\ IsEntry(t, us[i], i) /\ After(us, c, i).ss = us[i].ss
             /\ KeepsFlags(us[i], After(us, c, i))
  BY <1>1 DEF IsHistory
<1>4. n + 1 \in 1 .. n + 1 /\ IsEntry(t, e, n + 1)
  BY <1>1, <1>3
<1>5. /\ IsTransfer(t, e) /\ e.from.esp \in Nat /\ e.esp \in Nat /\ e.params \in Nat
      /\ FrameSize(e) \in Nat /\ 2 <= FrameSize(e)
      /\ (~ Switched(e) => e.from.esp + FrameSize(e) = e.esp)
      /\ e.ss \in StacksOf(t) /\ e.from.ss \in StacksOf(t) /\ e.ss.rpl \in {0, 3}
  BY <1>4, EntryTypes
<1>6. Live(us, c, n + 1)
  <2> SUFFICES ASSUME NEW j \in n + 1 .. Len(us) PROVE us[n + 1].esp <= After(us, c, j).esp
    BY DEF Live
  <2>1. j = Len(us)
    BY <1>1
  <2> QED BY <1>1, <1>5, <2>1 DEF After
<1>7. Frame(e, s[e.ss.index])
  BY <1>1, <1>4, <1>6 DEF IsHistory
<1>8. IsEntry(t, f, n + 1) /\ Frame(f, r[e.ss.index])
  BY <1>4, <1>7, FrameChanges DEF f
<1>9. /\ f.kind = e.kind /\ f.from = e.from /\ f.params = e.params /\ f.ss = e.ss /\ f.esp = e.esp
  BY <1>4 DEF IsEntry, f
<1>10. ASSUME NEW i \in 1 .. n + 1
       PROVE  /\ vs[i].ss = us[i].ss /\ vs[i].esp = us[i].esp /\ vs[i].from = us[i].from
              /\ vs[i].kind = us[i].kind /\ (i # n + 1 => vs[i] = us[i] /\ i \in 1 .. n)
  <2>1. i # n + 1 => i \in 1 .. n
    BY <1>1
  <2> QED BY <1>1, <1>2, <1>9, <2>1
<1>11. ASSUME NEW i \in 1 .. n + 1 PROVE After(vs, c, i) = After(us, c, i)
  <2>1. i # n + 1 => i + 1 \in 1 .. n + 1
    BY <1>1
  <2> QED BY <1>1, <1>2, <1>10, <2>1 DEF After
<1>12. ASSUME NEW i \in 1 .. n + 1
       PROVE  /\ IsEntry(t, vs[i], i) /\ After(vs, c, i).ss = vs[i].ss
              /\ KeepsFlags(vs[i], After(vs, c, i))
  <2>1. IsEntry(t, vs[i], i)
    BY <1>2, <1>3, <1>8, <1>10
  <2> QED BY <1>3, <1>10, <1>11, <2>1 DEF KeepsFlags, Switched
<1>13. ASSUME NEW i \in 1 .. n + 1, NEW j \in 1 .. n + 1, i <= j
       PROVE  us[j].ss.rpl <= us[i].ss.rpl
  BY <1>1, <1>13 DEF IsHistory
<1>14. ASSUME NEW i \in 1 .. n + 1, vs[i].kind # "task", Live(vs, c, i)
       PROVE  Frame(vs[i], r[vs[i].ss.index])
  <2>1. CASE i = n + 1
    BY <1>2, <1>8, <1>9, <2>1
  <2>2. CASE i # n + 1
    <3> DEFINE g == us[i]
    <3>1. vs[i] = g /\ i \in 1 .. n /\ IsEntry(t, g, i) /\ g.kind # "task"
      BY <1>3, <1>10, <1>14, <2>2
    <3>2. i <= n + 1 /\ i <= n /\ n <= n + 1 /\ n \in 1 .. n + 1 /\ n \in i .. n + 1 /\ n # n + 1
      BY <1>1, <3>1
    <3>3. us[n].ss = e.from.ss /\ After(us, c, n) = e.from
      BY <1>1, <1>3, <3>2 DEF After
    <3>4. e.from.ss.rpl <= g.ss.rpl /\ g.ss.rpl \in {0, 3} /\ e.from.ss.rpl \in {0, 3}
      BY <1>3, <1>13, <3>1, <3>2, <3>3 DEF IsEntry
    <3>5. ASSUME NEW j \in i .. n + 1, us[j].ss = us[i].ss PROVE us[i].esp <= After(us, c, j).esp
      <4>1. j \in 1 .. n + 1 /\ vs[j].ss = vs[i].ss /\ vs[i].esp = us[i].esp
        BY <1>1, <1>10, <3>5
      <4>2. vs[i].esp <= After(vs, c, j).esp
        BY <1>2, <1>14, <4>1 DEF Live
      <4> QED BY <1>11, <4>1, <4>2
    <3>6. Live(us, c, i)
      BY <1>1, <3>5 DEF Live
    <3>7. Frame(g, s[g.ss.index])
      BY <1>1, <3>1, <3>6 DEF IsHistory
    <3> HIDE DEF g
    <3>8. g.esp \in Nat /\ g.ss \in StacksOf(t)
      BY <3>1, EntryTypes
    <3>9. SameWords(r[g.ss.index], s[g.ss.index], g.esp)
      <4>1. CASE g.ss = e.ss
        <5>1. ~ Switched(e)
          BY <1>5, <3>4, <4>1 DEF IsTransfer
        <5>2. us[n].ss = g.ss
          BY <3>3, <4>1, <5>1 DEF Switched
        <5>3. g.esp <= e.from.esp
          BY <3>2, <3>3, <3>5, <5>2 DEF g
        <5>4. \A k \in 1 .. g.esp : k \in 1 .. e.esp /\ k # e.esp - 1
          BY <1>5, <3>8, <5>1, <5>3
        <5> QED BY <4>1, <5>4 DEF SameWords, SameBut
      <4>2. CASE g.ss # e.ss
        BY <3>8, <4>2 DEF SameWords
      <4> QED BY <4>1, <4>2
    <3>10. IsEntry(t, g, i) /\ g.kind # "task"
      BY <3>1
    <3>11. Frame(g, r[g.ss.index])
      BY <3>7, <3>9, <3>10, FrameStays
    <3> QED BY <3>1, <3>11
  <2> QED BY <2>1, <2>2
<1>15. \A i, j \in 1 .. n + 1 : i <= j => vs[j].ss.rpl <= vs[i].ss.rpl
  BY <1>10, <1>13
<1>16. IsHistory(t, vs, c, r)
  BY <1>2, <1>12, <1>14, <1>15 DEF IsHistory
<1> QED BY <1>16 DEF vs, fs, f

-----------------------------------------------------------------------------
(* Machines. *)

Fields == {"ip", "f", "cs", "ss", "ds", "cpl", "insn_ip", "exception_pending", "reset",
           "stack", "tr", "busy", "tss", "link", "idt"}

HasStacks(n) ==
    /\ n = [x \in Fields |-> n[x]] /\ n.tr \in DOMAIN Tasks /\ n.ss \in StacksOf(n.tr)
    /\ n.stack = [y \in StackNames |-> n.stack[y]] /\ \A y \in StackNames : IsSeq(n.stack[y])

\* A processor that runs.
IsMachine(n) ==
    /\ HasStacks(n)
    /\ n.reset = FALSE /\ n.exception_pending \in BOOLEAN /\ n.idt \in Idts
    /\ n.busy \in [DOMAIN Tasks -> BOOLEAN] /\ n.link \in [DOMAIN Tasks -> DOMAIN Tasks]
    /\ n.tss = [t \in DOMAIN Tasks \ {n.tr} |-> n.tss[t]]
    /\ n.f \in [if : BOOLEAN, nt : BOOLEAN, vm : BOOLEAN]
    /\ IF n.f.vm THEN n.cs = Real /\ n.ss = Real /\ n.ds = Real ELSE Fit(n.cs, n.ss, n.ds)
    /\ n.cpl = IF n.f.vm THEN 3 ELSE n.cs.rpl

\* What a transfer leaves alone.
SameRest(d, n) ==
    /\ d.tr = n.tr /\ d.busy = n.busy /\ d.link = n.link /\ d.tss = n.tss /\ d.idt = n.idt
    /\ d.exception_pending = n.exception_pending /\ d.reset = n.reset /\ d.insn_ip = n.insn_ip

SameRegisters(d, n) ==
    d.ip = n.ip /\ d.f = n.f /\ d.cs = n.cs /\ d.ss = n.ss /\ d.ds = n.ds /\ d.cpl = n.cpl

LEMMA FitRings ==
    ASSUME NEW cs, NEW ss, NEW ds, Fit(cs, ss, ds)
    PROVE  /\ cs.rpl \in {0, 3} /\ ss.rpl = cs.rpl /\ ss.index \in DOMAIN Table
           /\ cs.index \in DOMAIN Table /\ cs = Sel(cs.index, cs.rpl)
<1>1. Names(cs, {"code", "conforming"}) /\ Names(ss, {"data"}) /\ SegmentFault("ss", ss, cs.rpl) = "none"
  BY DEF Fit
<1>2. ss.rpl = cs.rpl
  BY <1>1 DEF SegmentFault
<1> QED BY <1>1, <1>2 DEF Names, IsSelector

LEMMA MachineTypes ==
    ASSUME NEW n, IsMachine(n)
    PROVE  /\ n.cpl \in {0, 3} /\ n.ss.rpl = n.cpl /\ n.ss.index \in StackNames
           /\ IsSeq(Stack(n)) /\ Esp(n) \in Nat /\ n.tr \in DOMAIN Tasks /\ n.ss \in StacksOf(n.tr)
           /\ n.f = Flags(n.f.if, n.f.nt, n.f.vm)
           /\ n.f.if \in BOOLEAN /\ n.f.nt \in BOOLEAN /\ n.f.vm \in BOOLEAN
           /\ IsContext(Context(n))
<1>1. n.tr \in DOMAIN Tasks /\ n.ss \in StacksOf(n.tr)
  BY DEF IsMachine, HasStacks
<1>2. n.ss.index \in StackNames
  BY <1>1, StackOf
<1>3. IsSeq(Stack(n))
  BY <1>2 DEF IsMachine, HasStacks, Stack
<1>4. Esp(n) \in Nat
  BY <1>3, LenProperties DEF IsSeq, Esp
<1>5. /\ n.f \in [if : BOOLEAN, nt : BOOLEAN, vm : BOOLEAN]
      /\ IF n.f.vm THEN n.cs = Real /\ n.ss = Real /\ n.ds = Real ELSE Fit(n.cs, n.ss, n.ds)
      /\ n.cpl = IF n.f.vm THEN 3 ELSE n.cs.rpl
  BY DEF IsMachine
<1>6. n.f = Flags(n.f.if, n.f.nt, n.f.vm)
      /\ n.f.if \in BOOLEAN /\ n.f.nt \in BOOLEAN /\ n.f.vm \in BOOLEAN
  BY <1>5 DEF Flags
<1>7. n.cpl \in {0, 3} /\ n.ss.rpl = n.cpl
  <2>1. CASE n.f.vm
    BY <1>5, <2>1 DEF Real, Sel
  <2>2. CASE ~ n.f.vm
    BY <1>5, <2>2, FitRings
  <2> QED BY <2>1, <2>2
<1>8. IsContext(Context(n))
  BY <1>4, <1>5 DEF IsContext, Context
<1> QED BY <1>1, <1>2, <1>3, <1>4, <1>6, <1>7, <1>8

LEMMA PushIs ==
    ASSUME NEW n, HasStacks(n), NEW w, IsSeq(w)
    PROVE  LET d == Push(n, w)
           IN  /\ HasStacks(d) /\ SameRest(d, n) /\ SameRegisters(d, n)
               /\ Stack(d) = Stack(n) \o w
               /\ \A y \in StackNames : y # n.ss.index => d.stack[y] = n.stack[y]
<1> DEFINE d == Push(n, w)
<1>1. /\ n = [x \in Fields |-> n[x]] /\ n.tr \in DOMAIN Tasks /\ n.ss \in StacksOf(n.tr)
      /\ n.stack = [y \in StackNames |-> n.stack[y]] /\ \A y \in StackNames : IsSeq(n.stack[y])
  BY DEF HasStacks
<1>2. n.ss.index \in StackNames
  BY <1>1, StackOf
<1>3. /\ d = [x \in Fields |-> d[x]] /\ SameRest(d, n) /\ SameRegisters(d, n)
      /\ d.stack = [n.stack EXCEPT ![n.ss.index] = @ \o w]
  BY <1>1 DEF Push, Fields, SameRest, SameRegisters
<1> HIDE DEF d
<1>4. IsSeq(n.stack[n.ss.index] \o w)
  BY <1>1, <1>2, Appended
<1>5. /\ d.stack = [y \in StackNames |-> d.stack[y]] /\ \A y \in StackNames : IsSeq(d.stack[y])
      /\ \A y \in StackNames : y # n.ss.index => d.stack[y] = n.stack[y]
      /\ d.stack[n.ss.index] = n.stack[n.ss.index] \o w
  BY <1>1, <1>2, <1>3, <1>4
<1>6. d.ss = n.ss /\ d.tr = n.tr
  BY <1>3 DEF SameRegisters, SameRest
<1>7. HasStacks(d)
  BY <1>1, <1>3, <1>5, <1>6 DEF HasStacks
<1>8. Stack(d) = Stack(n) \o w
  BY <1>5, <1>6 DEF Stack
<1> QED BY <1>3, <1>5, <1>7, <1>8 DEF d

LEMMA CutIs ==
    ASSUME NEW n, HasStacks(n), NEW k \in Nat
    PROVE  LET d == WithEsp(n, k)
           IN  /\ HasStacks(d) /\ SameRest(d, n) /\ SameRegisters(d, n)
               /\ Esp(d) = k /\ SameWords(Stack(d), Stack(n), k)
               /\ \A y \in StackNames : y # n.ss.index => d.stack[y] = n.stack[y]
<1> DEFINE d == WithEsp(n, k)
<1>1. /\ n = [x \in Fields |-> n[x]] /\ n.tr \in DOMAIN Tasks /\ n.ss \in StacksOf(n.tr)
      /\ n.stack = [y \in StackNames |-> n.stack[y]] /\ \A y \in StackNames : IsSeq(n.stack[y])
  BY DEF HasStacks
<1>2. n.ss.index \in StackNames
  BY <1>1, StackOf
<1>3. /\ d = [x \in Fields |-> d[x]] /\ SameRest(d, n) /\ SameRegisters(d, n)
      /\ d.stack = [n.stack EXCEPT ![n.ss.index] = SubSeq(@, 1, k)]
  BY <1>1 DEF WithEsp, Fields, SameRest, SameRegisters
<1> HIDE DEF d
<1> DEFINE s == SubSeq(n.stack[n.ss.index], 1, k)
<1>4. IsSeq(s) /\ Len(s) = k /\ SameWords(s, n.stack[n.ss.index], k)
  BY Shortened DEF SameWords
<1>5. d.stack = [n.stack EXCEPT ![n.ss.index] = s]
  BY <1>3
<1> HIDE DEF s
<1>6. /\ d.stack = [y \in StackNames |-> d.stack[y]] /\ \A y \in StackNames : IsSeq(d.stack[y])
      /\ \A y \in StackNames : y # n.ss.index => d.stack[y] = n.stack[y]
      /\ d.stack[n.ss.index] = s
  BY <1>1, <1>2, <1>4, <1>5
<1>7. d.ss = n.ss /\ d.tr = n.tr
  BY <1>3 DEF SameRegisters, SameRest
<1>8. HasStacks(d)
  BY <1>1, <1>3, <1>6, <1>7 DEF HasStacks
<1>9. Esp(d) = k /\ SameWords(Stack(d), Stack(n), k)
  BY <1>4, <1>6, <1>7 DEF Stack, Esp
<1> QED BY <1>3, <1>6, <1>8, <1>9 DEF d

\* d is b after a transfer that pushed w, on the same stack or on that of ring 0.
Pushes(b, d, w) ==
    /\ IsMachine(d) /\ SameRest(d, b)
    /\ d.ss # b.ss => b.ss.rpl = 3 /\ d.ss = Tasks[b.tr].ss0
    /\ Stack(d) = IF d.ss = b.ss THEN Stack(b) \o w ELSE w
    /\ \A y \in StackNames : y # d.ss.index => d.stack[y] = b.stack[y]

LEMMA PushesWords ==
    ASSUME NEW b, IsMachine(b), NEW d, NEW w, IsSeq(w), Pushes(b, d, w)
    PROVE  /\ Len(w) \in Nat /\ Esp(d) = (IF d.ss = b.ss THEN Esp(b) ELSE 0) + Len(w)
           /\ \A k \in 1 .. Len(w) : WordAt(d, k) = w[Len(w) + 1 - k]
           /\ d.tr = b.tr /\ d.ss.rpl <= b.ss.rpl
           /\ Agree(d.stack, b.stack, b.tr, b.ss.rpl, b.ss, Esp(b))
           /\ \A u \in DOMAIN Tasks \ {b.tr} : \A y \in StacksOf(u) : d.stack[y.index] = b.stack[y.index]
<1>1. /\ IsMachine(d) /\ d.tr = b.tr /\ (d.ss # b.ss => b.ss.rpl = 3 /\ d.ss = Tasks[b.tr].ss0)
      /\ Stack(d) = IF d.ss = b.ss THEN Stack(b) \o w ELSE w
      /\ \A y \in StackNames : y # d.ss.index => d.stack[y] = b.stack[y]
  BY DEF Pushes, SameRest
<1>2. /\ b.tr \in DOMAIN Tasks /\ b.ss \in StacksOf(b.tr) /\ IsSeq(Stack(b)) /\ Esp(b) \in Nat
      /\ b.ss.rpl \in {0, 3}
  BY MachineTypes
<1>3. d.ss \in StacksOf(b.tr) /\ d.ss.rpl \in {0, 3}
  BY <1>1, MachineTypes
<1>4. Len(w) \in Nat
  BY LenProperties DEF IsSeq
<1>5. Esp(d) = (IF d.ss = b.ss THEN Esp(b) ELSE 0) + Len(w)
  BY <1>1, <1>2, <1>4, Appended DEF Esp
<1>6. ASSUME NEW k \in 1 .. Len(w) PROVE WordAt(d, k) = w[Len(w) + 1 - k]
  <2>1. Len(w) + 1 - k \in 1 .. Len(w)
    BY <1>4
  <2>2. CASE d.ss = b.ss
    <3>1. Esp(d) + 1 - k = Len(Stack(b)) + (Len(w) + 1 - k)
      BY <1>2, <1>4, <1>5, <2>2 DEF Esp
    <3>2. (Stack(b) \o w)[Len(Stack(b)) + (Len(w) + 1 - k)] = w[Len(w) + 1 - k]
      BY <1>2, <2>1, Appended
    <3> QED BY <1>1, <2>2, <3>1, <3>2 DEF WordAt
  <2>3. CASE d.ss # b.ss
    BY <1>1, <1>4, <1>5, <2>3 DEF WordAt
  <2> QED BY <2>2, <2>3
<1>7. d.ss.rpl <= b.ss.rpl
  BY <1>1, <1>2, <1>3
<1>8. ASSUME NEW y \in StacksOf(b.tr), y.rpl >= b.ss.rpl
      PROVE  IF y = b.ss THEN SameWords(d.stack[y.index], b.stack[y.index], Esp(b))
             ELSE d.stack[y.index] = b.stack[y.index]
  <2>1. y.index \in StackNames
    BY <1>2, StackOf
  <2>2. CASE y = d.ss
    <3>1. y = b.ss
      <4> SUFFICES ASSUME y # b.ss PROVE FALSE
        OBVIOUS
      <4>1. b.ss.rpl = 3 /\ y = Tasks[b.tr].ss0
        BY <1>1, <2>2
      <4>2. y.rpl = 0
        BY <1>2, <4>1, ProtectedModeAssumption DEF TasksAssumption, SegmentFault
      <4> QED BY <1>8, <4>1, <4>2
    <3>2. d.stack[y.index] = Stack(b) \o w /\ b.stack[y.index] = Stack(b)
      BY <1>1, <2>2, <3>1 DEF Stack
    <3>3. SameWords(Stack(b) \o w, Stack(b), Esp(b))
      BY <1>2, Appended DEF SameWords, Esp
    <3> QED BY <3>1, <3>2, <3>3
  <2>3. CASE y # d.ss
    <3>1. y.index # d.ss.index
      BY <1>2, <1>3, <2>3, StacksDiffer
    <3>2. d.stack[y.index] = b.stack[y.index]
      BY <1>1, <2>1, <3>1
    <3> QED BY <3>2 DEF SameWords
  <2> QED BY <2>2, <2>3
<1>9. ASSUME NEW u \in DOMAIN Tasks \ {b.tr}, NEW y \in StacksOf(u)
      PROVE  d.stack[y.index] = b.stack[y.index]
  <2>1. y.index \in StackNames /\ y.index # d.ss.index
    BY <1>2, <1>3, StackOf, StacksDiffer
  <2> QED BY <1>1, <2>1
<1>10. Agree(d.stack, b.stack, b.tr, b.ss.rpl, b.ss, Esp(b))
  BY <1>8 DEF Agree
<1> QED BY <1>1, <1>4, <1>5, <1>6, <1>7, <1>9, <1>10

LEMMA Ring0Is ==
    ASSUME NEW n, HasStacks(n)
    PROVE  LET d == ToRing0(n)
           IN  /\ HasStacks(d) /\ SameRest(d, n) /\ d.ss = Tasks[n.tr].ss0 /\ d.cpl = 0
               /\ d.ip = n.ip /\ d.f = n.f /\ d.cs = n.cs /\ d.ds = n.ds
               /\ Stack(d) = <<>>
               /\ \A y \in StackNames : y # d.ss.index => d.stack[y] = n.stack[y]
<1> DEFINE d == ToRing0(n)
           s == Tasks[n.tr].ss0
<1>1. /\ n = [x \in Fields |-> n[x]] /\ n.tr \in DOMAIN Tasks
      /\ n.stack = [y \in StackNames |-> n.stack[y]] /\ \A y \in StackNames : IsSeq(n.stack[y])
  BY DEF HasStacks
<1>2. s \in StacksOf(n.tr)
  BY DEF StacksOf
<1> HIDE DEF s
<1>3. s.index \in StackNames
  BY <1>1, <1>2, StackOf
<1>4. /\ d = [x \in Fields |-> d[x]] /\ SameRest(d, n) /\ d.ss = s /\ d.cpl = 0
      /\ d.ip = n.ip /\ d.f = n.f /\ d.cs = n.cs /\ d.ds = n.ds
      /\ d.stack = [n.stack EXCEPT ![s.index] = <<>>]
  BY <1>1 DEF ToRing0, Fields, SameRest, s
<1> HIDE DEF d
<1>5. IsSeq(<<>>)
  BY EmptySeq DEF IsSeq
<1>6. /\ d.stack = [y \in StackNames |-> d.stack[y]] /\ \A y \in StackNames : IsSeq(d.stack[y])
      /\ \A y \in StackNames : y # s.index => d.stack[y] = n.stack[y]
      /\ d.stack[s.index] = <<>>
  BY <1>1, <1>3, <1>4, <1>5
<1>7. HasStacks(d)
  BY <1>1, <1>2, <1>4, <1>6 DEF HasStacks, SameRest
<1> QED BY <1>4, <1>6, <1>7 DEF d, s, Stack

Exceptions == {"UD", "DF", "TS", "NP", "SS", "GP"}

LEMMA GateLeads ==
    ASSUME NEW b, IsMachine(b), NEW v, NEW software, GateFault(b, v, software) = "none"
    PROVE  LET g == b.idt[v]
               level == GateLevel(b, g)
               cs == Sel(g.target.index, level)
           IN  /\ g.type \in {"interrupt", "trap"} /\ level \in {0, 3} /\ level <= b.cpl
               /\ (b.f.vm => level = 0) /\ (g.type = "interrupt" => level = 0)
               /\ (v \in Exceptions => g.type = "interrupt")
               /\ Names(cs, {"code", "conforming"}) /\ SegmentFault("cs", cs, level) = "none"
<1> DEFINE g == b.idt[v]
           level == GateLevel(b, g)
           cs == Sel(g.target.index, level)
           x == g.target.index
<1>1. v \in DOMAIN b.idt /\ b.idt \in Idts
  <2>1. v \in DOMAIN b.idt
    BY DEF GateFault
  <2> QED BY <2>1 DEF IsMachine
<1>2. /\ g.type \in {"interrupt", "trap"}
      /\ \/ x = "null" \/ IsKernelCode(g.target)
         \/ /\ g.type = "trap" /\ Names(g.target, {"code", "conforming"})
            /\ DescriptorOf(g.target).dpl \in {0, 3}
      /\ (v \in Exceptions => g.type = "interrupt")
  BY <1>1, ProtectedModeAssumption DEF IdtAssumption, Exceptions
<1>3. /\ x # "null" /\ DescriptorOf(g.target).present
      /\ ~ (b.f.vm /\ level # 0) /\ ~ (~ b.f.vm /\ level > b.cpl)
  BY <1>1, <1>2 DEF GateFault
<1>4. /\ x \in DOMAIN Table /\ Table[x].type \in {"code", "conforming"} /\ Table[x].present
      /\ Table[x].dpl \in {0, 3} /\ (Table[x].type = "conforming" => Table[x].dpl = 0)
      /\ g.type = "interrupt" => Table[x].type = "code" /\ Table[x].dpl = 0
  <2>1. x \in DOMAIN Table /\ Table[x].type \in {"code", "conforming"}
        /\ Table[x].dpl \in {0, 3} /\ (g.type = "interrupt" => Table[x].type = "code" /\ Table[x].dpl = 0)
    BY <1>2, <1>3 DEF IsKernelCode, Names, DescriptorOf
  <2> QED BY <1>3, <2>1, ProtectedModeAssumption DEF TableAssumption, DescriptorOf
<1>5. b.cpl \in {0, 3} /\ b.f.vm \in BOOLEAN
  BY MachineTypes
<1>6. level = IF Table[x].type = "conforming" THEN b.cpl ELSE Table[x].dpl
  BY DEF GateLevel, IsConforming, DescriptorOf
<1> HIDE DEF level, g
<1>7. level \in {0, 3} /\ level <= b.cpl /\ (b.f.vm => level = 0) /\ (g.type = "interrupt" => level = 0)
  BY <1>3, <1>4, <1>5, <1>6
<1>8. cs.index = x /\ cs.rpl = level /\ cs = Sel(cs.index, cs.rpl)
  BY DEF Sel
<1>9. Names(cs, {"code", "conforming"})
  BY <1>4, <1>7, <1>8 DEF Names, IsSelector, DescriptorOf
<1>10. DescriptorOf(cs) = Table[x] /\ cs.index # "null"
  BY <1>3, <1>8 DEF DescriptorOf
<1> HIDE DEF cs
<1>11. IF IsConforming(cs) THEN Table[x].dpl <= level ELSE Table[x].type = "code" /\ Table[x].dpl = level
  BY <1>4, <1>5, <1>6, <1>7, <1>10 DEF IsConforming
<1>12. SegmentFault("cs", cs, level) = "none"
  BY <1>4, <1>10, <1>11 DEF SegmentFault
<1> QED BY <1>2, <1>7, <1>9, <1>12 DEF level, g, cs

\* The words below an error code, the last one on top.
InterruptWords(b, switched) ==
    IF b.f.vm THEN <<b.ds, b.ss, [esp |-> Esp(b)], b.f, b.cs, [ip |-> b.ip]>>
    ELSE IF switched THEN <<b.ss, [esp |-> Esp(b)], b.f, b.cs, [ip |-> b.ip]>>
    ELSE <<b.f, b.cs, [ip |-> b.ip]>>

LEMMA InterruptFrame ==
    ASSUME NEW b, NEW err, IsSeq(err)
    PROVE  LET frame == <<b.f>> \o Address(b) \o err
           IN  /\ frame = <<b.f, b.cs, [ip |-> b.ip]>> \o err
               /\ Outer(b) \o frame = <<b.ss, [esp |-> Esp(b)], b.f, b.cs, [ip |-> b.ip]>> \o err
               /\ <<b.ds>> \o Outer(b) \o frame =
                     <<b.ds, b.ss, [esp |-> Esp(b)], b.f, b.cs, [ip |-> b.ip]>> \o err
<1> DEFINE e == [esp |-> Esp(b)]
           i == [ip |-> b.ip]
           frame == <<b.f>> \o Address(b) \o err
<1>1. \A x : IsSeq(<<x>>)
  <2> TAKE x
  <2>1. <<x>> \in Seq({x})
    OBVIOUS
  <2> QED BY <2>1 DEF IsSeq
<1>2. \A x, y : IsSeq(<<x, y>>)
  <2> TAKE x, y
  <2>1. <<x, y>> \in Seq({x, y})
    OBVIOUS
  <2> QED BY <2>1 DEF IsSeq
<1>3. \A x, y, z : IsSeq(<<x, y, z>>)
  <2> TAKE x, y, z
  <2>1. <<x, y, z>> \in Seq({x, y, z})
    OBVIOUS
  <2> QED BY <2>1 DEF IsSeq
<1>4. \A x, y, z, u, v : IsSeq(<<x, y, z, u, v>>)
  <2> TAKE x, y, z, u, v
  <2>1. <<x, y, z, u, v>> \in Seq({x, y, z, u, v})
    OBVIOUS
  <2> QED BY <2>1 DEF IsSeq
<1> HIDE DEF e, i
<1>5. Address(b) = <<b.cs, i>> /\ Outer(b) = <<b.ss, e>>
  BY DEF Address, Outer, e, i
<1>6. <<b.f>> \o <<b.cs, i>> = <<b.f, b.cs, i>>
  BY JoinThree
<1>7. frame = <<b.f, b.cs, i>> \o err
  BY <1>5, <1>6
<1>8. Outer(b) \o frame = <<b.ss, e, b.f, b.cs, i>> \o err
  <2> DEFINE o == Outer(b)
             p == <<b.f, b.cs, i>>
  <2>1. IsSeq(o) /\ IsSeq(p) /\ o = <<b.ss, e>> /\ frame = p \o err
    BY <1>2, <1>3, <1>5, <1>7
  <2>2. o \o p = <<b.ss, e, b.f, b.cs, i>>
    BY <2>1, JoinFive
  <2> HIDE DEF o, p, frame
  <2>3. o \o frame = (o \o p) \o err
    BY <2>1, JoinMany
  <2> QED BY <2>2, <2>3 DEF o
<1>9. <<b.ds>> \o Outer(b) \o frame = <<b.ds, b.ss, e, b.f, b.cs, i>> \o err
  <2> DEFINE top == <<b.f, b.cs, i>> \o err
  <2>1. IsSeq(top) /\ IsSeq(<<b.ds>>) /\ IsSeq(Outer(b))
    BY <1>1, <1>2, <1>3, <1>5, Appended
  <2> HIDE DEF top
  <2>2. (<<b.ds>> \o Outer(b)) \o top = <<b.ds>> \o (Outer(b) \o top)
    BY <2>1, JoinMany
  <2>3. Outer(b) \o top = <<b.ss, e, b.f, b.cs, i>> \o err
    BY <1>7, <1>8 DEF top
  <2>4. <<b.ds>> \o (<<b.ss, e, b.f, b.cs, i>> \o err) = (<<b.ds>> \o <<b.ss, e, b.f, b.cs, i>>) \o err
    BY <1>1, <1>4, JoinMany
  <2>5. <<b.ds>> \o <<b.ss, e, b.f, b.cs, i>> = <<b.ds, b.ss, e, b.f, b.cs, i>>
    BY JoinSix
  <2> QED BY <1>7, <2>2, <2>3, <2>4, <2>5 DEF top
<1> QED BY <1>7, <1>8, <1>9 DEF e, i

LEMMA WordsAreSeq ==
    ASSUME NEW b, NEW switched, NEW err, IsSeq(err)
    PROVE  LET w == InterruptWords(b, switched)
           IN  IsSeq(w) /\ IsSeq(w \o err) /\ Len(w \o err) = Len(w) + Len(err)
               /\ Len(w) = IF b.f.vm THEN 6 ELSE IF switched THEN 5 ELSE 3
<1> DEFINE w == InterruptWords(b, switched)
<1>1. IsSeq(w) /\ Len(w) = IF b.f.vm THEN 6 ELSE IF switched THEN 5 ELSE 3
  <2> DEFINE e == [esp |-> Esp(b)]
             i == [ip |-> b.ip]
             S == {b.ds, b.ss, e, b.f, b.cs, i}
  <2>1. w = IF b.f.vm THEN <<b.ds, b.ss, e, b.f, b.cs, i>>
            ELSE IF switched THEN <<b.ss, e, b.f, b.cs, i>> ELSE <<b.f, b.cs, i>>
    BY DEF InterruptWords
  <2> HIDE DEF e, i, w
  <2>2. CASE b.f.vm
    <3>1. w = <<b.ds, b.ss, e, b.f, b.cs, i>> /\ w \in Seq(S) /\ Len(w) = 6
      BY <2>1, <2>2
    <3> QED BY <2>2, <3>1 DEF IsSeq
  <2>3. CASE ~ b.f.vm /\ switched
    <3>1. w = <<b.ss, e, b.f, b.cs, i>> /\ w \in Seq(S) /\ Len(w) = 5
      BY <2>1, <2>3
    <3> QED BY <2>3, <3>1 DEF IsSeq
  <2>4. CASE ~ b.f.vm /\ ~ switched
    <3>1. w = <<b.f, b.cs, i>> /\ w \in Seq(S) /\ Len(w) = 3
      BY <2>1, <2>4
    <3> QED BY <2>4, <3>1 DEF IsSeq
  <2> QED BY <2>2, <2>3, <2>4
<1> HIDE DEF w
<1>2. IsSeq(w \o err) /\ Len(w \o err) = Len(w) + Len(err)
  BY <1>1, Appended
<1> QED BY <1>1, <1>2 DEF w

\* d is b after an interrupt or exception with the error code err.
Interrupts(b, d, err) ==
    /\ IsSeq(err) /\ Pushes(b, d, InterruptWords(b, d.ss # b.ss) \o err)
    /\ d.f.nt = FALSE /\ d.f.vm = FALSE /\ (b.f.vm => d.ss # b.ss)
    /\ d.f.if = b.f.if \/ d.ss.rpl = 0

LEMMA DeliveredIs ==
    ASSUME NEW b, IsMachine(b), NEW v, NEW software, GateFault(b, v, software) = "none",
           NEW err, IsSeq(err)
    PROVE  LET d == Delivered(b, v, err)
           IN  /\ Interrupts(b, d, err)
               /\ b.idt[v].type = "interrupt" => d.f.if = FALSE
<1> DEFINE d == Delivered(b, v, err)
           g == b.idt[v]
           level == GateLevel(b, g)
           cs == Sel(g.target.index, level)
           frame == <<b.f>> \o Address(b) \o err
           new == IF b.f.vm
                  THEN Push([ToRing0(b) EXCEPT !.ds = Null], <<b.ds>> \o Outer(b) \o frame)
                  ELSE IF level # b.cpl THEN Push(ToRing0(b), Outer(b) \o frame)
                  ELSE Push(b, frame)
           w == InterruptWords(b, new.ss # b.ss) \o err
           s0 == Tasks[b.tr].ss0
<1>1. /\ g.type \in {"interrupt", "trap"} /\ level \in {0, 3} /\ level <= b.cpl
      /\ (b.f.vm => level = 0) /\ (g.type = "interrupt" => level = 0)
      /\ Names(cs, {"code", "conforming"}) /\ SegmentFault("cs", cs, level) = "none"
  BY GateLeads
<1>2. d = [new EXCEPT !.f = Flags(new.f.if /\ g.type # "interrupt", FALSE, FALSE),
                      !.cs = cs, !.cpl = level, !.ip = 0]
  BY <1>1 DEF Delivered
<1>3. /\ b.cpl \in {0, 3} /\ b.ss.rpl = b.cpl /\ b.ss.index \in StackNames
      /\ IsSeq(Stack(b)) /\ b.tr \in DOMAIN Tasks /\ b.f.vm \in BOOLEAN /\ b.f.if \in BOOLEAN /\ HasStacks(b)
  BY MachineTypes DEF IsMachine
<1>4. /\ b.f.vm => b.cpl = 3 /\ b.ss = Real
      /\ ~ b.f.vm => Fit(b.cs, b.ss, b.ds) /\ b.cpl = b.cs.rpl
  BY DEF IsMachine
<1>5. /\ s0.rpl = 0 /\ Names(s0, {"data"}) /\ SegmentFault("ss", s0, 0) = "none" /\ s0 # Real
  <2>1. Names(s0, {"data"}) /\ SegmentFault("ss", s0, 0) = "none"
    BY <1>3, ProtectedModeAssumption DEF TasksAssumption
  <2>2. s0.rpl = 0
    BY <2>1 DEF SegmentFault
  <2> QED BY <2>1, <2>2 DEF Real, Sel
<1> DEFINE ds == IF b.f.vm THEN Null ELSE b.ds
           Good(n, p) ==
               /\ HasStacks(n) /\ SameRest(n, b) /\ n.f = b.f /\ n.ds = ds
               /\ \A y \in StackNames : y # n.ss.index => n.stack[y] = b.stack[y]
               /\ \/ n.ss = b.ss /\ level = b.cpl /\ b.f.vm = FALSE /\ Stack(n) = Stack(b) \o p
                  \/ n.ss = s0 /\ level = 0 /\ b.cpl = 3 /\ Stack(n) = p
<1> HIDE DEF level, g, cs, d, s0
<1>6. Good(new, w)
  <2>1. CASE b.f.vm
    <3> DEFINE r == [ToRing0(b) EXCEPT !.ds = Null]
               p == <<b.ds, b.ss, [esp |-> Esp(b)], b.f, b.cs, [ip |-> b.ip]>> \o err
    <3>1. new = Push(r, p)
      BY <2>1, InterruptFrame
    <3>2. /\ HasStacks(r) /\ SameRest(r, b) /\ r.ss = s0 /\ r.f = b.f /\ r.ds = Null /\ Stack(r) = <<>>
          /\ \A y \in StackNames : y # r.ss.index => r.stack[y] = b.stack[y]
      <4> DEFINE q == ToRing0(b)
      <4>1. /\ HasStacks(q) /\ SameRest(q, b) /\ q.ss = s0 /\ q.f = b.f /\ Stack(q) = <<>>
            /\ \A y \in StackNames : y # q.ss.index => q.stack[y] = b.stack[y]
        BY <1>3, Ring0Is DEF s0
      <4> HIDE DEF q
      <4>2. r = [q EXCEPT !.ds = Null]
        BY DEF q
      <4> HIDE DEF r
      <4>3. q = [x \in Fields |-> q[x]]
        BY <4>1 DEF HasStacks
      <4>4. /\ r = [x \in Fields |-> r[x]] /\ r.ds = Null /\ r.stack = q.stack /\ r.ss = q.ss
            /\ r.f = q.f /\ SameRest(r, q)
        BY <4>2, <4>3 DEF Fields, SameRest
      <4> QED BY <4>1, <4>4 DEF HasStacks, SameRest, Stack
    <3>3. IsSeq(p) /\ p = InterruptWords(b, TRUE) \o err
      <4>1. p = InterruptWords(b, TRUE) \o err
        BY <2>1 DEF InterruptWords
      <4> HIDE DEF p
      <4> QED BY <4>1, WordsAreSeq
    <3> HIDE DEF r, p, new, w
    <3>4. /\ HasStacks(new) /\ SameRest(new, r) /\ SameRegisters(new, r) /\ Stack(new) = <<>> \o p
          /\ \A y \in StackNames : y # r.ss.index => new.stack[y] = r.stack[y]
      BY <3>1, <3>2, <3>3, PushIs
    <3>5. <<>> \o p = p
      BY <3>3, JoinMany
    <3>6. new.ss = s0 /\ new.ss # b.ss /\ new.f = b.f /\ new.ds = Null
      BY <1>4, <1>5, <2>1, <3>2, <3>4 DEF SameRegisters
    <3>7. w = p
      BY <3>3, <3>6 DEF w
    <3> QED BY <1>1, <1>4, <2>1, <3>2, <3>4, <3>5, <3>6, <3>7 DEF SameRest
  <2>2. CASE ~ b.f.vm /\ level # b.cpl
    <3> DEFINE r == ToRing0(b)
               p == <<b.ss, [esp |-> Esp(b)], b.f, b.cs, [ip |-> b.ip]>> \o err
    <3>1. new = Push(r, p)
      BY <2>2, InterruptFrame
    <3>2. /\ HasStacks(r) /\ SameRest(r, b) /\ r.ss = s0 /\ r.f = b.f /\ r.ds = b.ds /\ Stack(r) = <<>>
          /\ \A y \in StackNames : y # r.ss.index => r.stack[y] = b.stack[y]
      BY <1>3, Ring0Is DEF s0
    <3>3. IsSeq(p) /\ p = InterruptWords(b, TRUE) \o err
      <4>1. p = InterruptWords(b, TRUE) \o err
        BY <2>2 DEF InterruptWords
      <4> HIDE DEF p
      <4> QED BY <4>1, WordsAreSeq
    <3> HIDE DEF r, p, new, w
    <3>4. /\ HasStacks(new) /\ SameRest(new, r) /\ SameRegisters(new, r) /\ Stack(new) = <<>> \o p
          /\ \A y \in StackNames : y # r.ss.index => new.stack[y] = r.stack[y]
      BY <3>1, <3>2, <3>3, PushIs
    <3>5. <<>> \o p = p
      BY <3>3, JoinMany
    <3>6. level = 0 /\ b.cpl = 3
      BY <1>1, <1>3, <2>2
    <3>7. new.ss = s0 /\ new.ss # b.ss /\ new.f = b.f /\ new.ds = b.ds
      BY <1>3, <1>5, <3>2, <3>4, <3>6 DEF SameRegisters
    <3>8. w = p
      BY <3>3, <3>7 DEF w
    <3> QED BY <2>2, <3>2, <3>4, <3>5, <3>6, <3>7, <3>8 DEF SameRest
  <2>3. CASE ~ b.f.vm /\ level = b.cpl
    <3> DEFINE p == <<b.f, b.cs, [ip |-> b.ip]>> \o err
    <3>1. new = Push(b, p)
      BY <2>3, InterruptFrame
    <3>2. IsSeq(p) /\ p = InterruptWords(b, FALSE) \o err
      <4>1. p = InterruptWords(b, FALSE) \o err
        BY <2>3 DEF InterruptWords
      <4> HIDE DEF p
      <4> QED BY <4>1, WordsAreSeq
    <3> HIDE DEF p, new, w
    <3>3. /\ HasStacks(new) /\ SameRest(new, b) /\ SameRegisters(new, b) /\ Stack(new) = Stack(b) \o p
          /\ \A y \in StackNames : y # b.ss.index => new.stack[y] = b.stack[y]
      BY <1>3, <3>1, <3>2, PushIs
    <3>4. new.ss = b.ss /\ new.f = b.f /\ new.ds = b.ds
      BY <3>3 DEF SameRegisters
    <3>5. w = p
      BY <3>2, <3>4 DEF w
    <3> QED BY <1>3, <2>3, <3>3, <3>4, <3>5
  <2> QED BY <2>1, <2>2, <2>3
<1> HIDE DEF new
<1>7. /\ d = [x \in Fields |-> d[x]] /\ SameRest(d, new) /\ d.ss = new.ss /\ d.stack = new.stack
      /\ d.ds = new.ds /\ d.cs = cs /\ d.cpl = level
      /\ d.f = Flags(new.f.if /\ g.type # "interrupt", FALSE, FALSE)
  <2>1. new = [x \in Fields |-> new[x]]
    BY <1>6 DEF HasStacks
  <2> QED BY <1>2, <2>1 DEF Fields, SameRest
<1> HIDE DEF w
<1>8. d.f \in [if : BOOLEAN, nt : BOOLEAN, vm : BOOLEAN] /\ d.f.nt = FALSE /\ d.f.vm = FALSE
      /\ (g.type = "interrupt" => d.f.if = FALSE) /\ (g.type # "interrupt" => d.f.if = b.f.if)
  <2>1. new.f.if = b.f.if
    BY <1>6
  <2> DEFINE if == new.f.if /\ g.type # "interrupt"
  <2>2. d.f = [if |-> if, nt |-> FALSE, vm |-> FALSE]
    BY <1>7 DEF Flags
  <2>3. if \in BOOLEAN /\ (g.type = "interrupt" => if = FALSE) /\ (g.type # "interrupt" => if = b.f.if)
    BY <1>3, <2>1
  <2> HIDE DEF if
  <2> QED BY <2>2, <2>3
<1>9. Fit(cs, d.ss, d.ds) /\ d.ss.rpl = level
  <2>1. cs.rpl = level
    BY DEF cs, Sel
  <2>2. CASE new.ss = b.ss /\ level = b.cpl /\ b.f.vm = FALSE
    <3>1. Fit(b.cs, b.ss, b.ds) /\ level = b.cs.rpl /\ d.ss = b.ss /\ d.ds = b.ds
      BY <1>4, <1>6, <1>7, <2>2
    <3> QED BY <1>1, <1>3, <2>1, <2>2, <3>1 DEF Fit
  <2>3. CASE new.ss = s0 /\ level = 0 /\ b.cpl = 3
    <3>1. d.ss = s0 /\ d.ds = ds
      BY <1>6, <1>7, <2>3
    <3>2. \/ ds = Null
          \/ ds.index \in DOMAIN Table /\ (IsConforming(ds) \/ 0 <= DescriptorOf(ds).dpl)
      <4> SUFFICES ASSUME ~ b.f.vm
                   PROVE ds = Null \/ (ds.index \in DOMAIN Table /\ (IsConforming(ds) \/ 0 <= DescriptorOf(ds).dpl))
        OBVIOUS
      <4>1. b.ds = Null \/ b.ds.index \in DOMAIN Table
        BY <1>4 DEF Fit
      <4>2. b.ds.index \in DOMAIN Table => 0 <= DescriptorOf(b.ds).dpl
        BY ProtectedModeAssumption DEF TableAssumption, DescriptorOf
      <4> QED BY <4>1, <4>2
    <3> HIDE DEF ds
    <3> QED BY <1>1, <1>5, <2>1, <2>3, <3>1, <3>2 DEF Fit
  <2> QED BY <1>6, <2>2, <2>3
<1>10. HasStacks(d) /\ SameRest(d, b)
  BY <1>6, <1>7 DEF HasStacks, SameRest
<1>11. d.tr = b.tr /\ d.busy = b.busy /\ d.link = b.link /\ d.tss = b.tss /\ d.idt = b.idt
       /\ d.exception_pending = b.exception_pending /\ d.reset = b.reset
  BY <1>10 DEF SameRest
<1>12. /\ b.reset = FALSE /\ b.exception_pending \in BOOLEAN /\ b.idt \in Idts
       /\ b.busy \in [DOMAIN Tasks -> BOOLEAN] /\ b.link \in [DOMAIN Tasks -> DOMAIN Tasks]
       /\ b.tss = [t \in DOMAIN Tasks \ {b.tr} |-> b.tss[t]]
  BY DEF IsMachine
<1>13. d.cpl = IF d.f.vm THEN 3 ELSE d.cs.rpl
  BY <1>7, <1>8 DEF cs, Sel
<1>14. IsMachine(d)
  BY <1>7, <1>8, <1>9, <1>10, <1>11, <1>12, <1>13 DEF IsMachine
<1>15. w = InterruptWords(b, d.ss # b.ss) \o err
  BY <1>7 DEF w
<1>16. /\ (d.ss # b.ss => b.ss.rpl = 3 /\ d.ss = s0)
       /\ Stack(d) = IF d.ss = b.ss THEN Stack(b) \o w ELSE w
       /\ \A y \in StackNames : y # d.ss.index => d.stack[y] = b.stack[y]
       /\ (b.f.vm => d.ss # b.ss)
  <2>1. d.ss = new.ss /\ Stack(d) = Stack(new)
    BY <1>7 DEF Stack
  <2>2. CASE new.ss = b.ss /\ level = b.cpl /\ b.f.vm = FALSE /\ Stack(new) = Stack(b) \o w
    BY <1>6, <1>7, <2>1, <2>2
  <2>3. CASE new.ss = s0 /\ level = 0 /\ b.cpl = 3 /\ Stack(new) = w
    <3>1. d.ss # b.ss
      BY <1>3, <1>5, <2>1, <2>3
    <3> QED BY <1>3, <1>6, <1>7, <2>1, <2>3, <3>1
  <2> QED BY <1>6, <2>2, <2>3
<1>17. Pushes(b, d, w)
  BY <1>10, <1>14, <1>16 DEF Pushes, s0
<1>18. g.type = "interrupt" => d.ss.rpl = 0
  BY <1>1, <1>9
<1>19. Interrupts(b, d, err)
  <2>1. d.f.if = b.f.if \/ d.ss.rpl = 0
    BY <1>1, <1>8, <1>18
  <2> QED BY <1>8, <1>15, <1>16, <1>17, <2>1 DEF Interrupts
<1> QED BY <1>8, <1>19 DEF d, g

\* Where the words of an interrupt's frame are.
LEMMA InterruptWordsAre ==
    ASSUME NEW b, b.f.vm \in BOOLEAN, NEW switched \in BOOLEAN
    PROVE  LET w == InterruptWords(b, switched)
               k == Len(w)
           IN  /\ k = IF b.f.vm THEN 6 ELSE IF switched THEN 5 ELSE 3
               /\ w[k] = [ip |-> b.ip] /\ w[k - 1] = b.cs /\ w[k - 2] = b.f
               /\ (b.f.vm \/ switched) => w[k - 3] = [esp |-> Esp(b)] /\ w[k - 4] = b.ss
               /\ b.f.vm => w[k - 5] = b.ds
<1> DEFINE e == [esp |-> Esp(b)]
           i == [ip |-> b.ip]
           w == InterruptWords(b, switched)
<1>1. w = IF b.f.vm THEN <<b.ds, b.ss, e, b.f, b.cs, i>>
          ELSE IF switched THEN <<b.ss, e, b.f, b.cs, i>> ELSE <<b.f, b.cs, i>>
  BY DEF InterruptWords
<1> HIDE DEF e, i, w
<1>2. CASE b.f.vm
  <2>1. w = <<b.ds, b.ss, e, b.f, b.cs, i>> /\ Len(w) = 6
    BY <1>1, <1>2
  <2>2. w[6] = i /\ w[5] = b.cs /\ w[4] = b.f /\ w[3] = e /\ w[2] = b.ss /\ w[1] = b.ds
    BY <2>1
  <2> QED BY <1>2, <2>1, <2>2 DEF e, i, w
<1>3. CASE ~ b.f.vm /\ switched
  <2>1. w = <<b.ss, e, b.f, b.cs, i>> /\ Len(w) = 5
    BY <1>1, <1>3
  <2>2. w[5] = i /\ w[4] = b.cs /\ w[3] = b.f /\ w[2] = e /\ w[1] = b.ss
    BY <2>1
  <2>3. /\ w[Len(w)] = i /\ w[Len(w) - 1] = b.cs /\ w[Len(w) - 2] = b.f
        /\ w[Len(w) - 3] = e /\ w[Len(w) - 4] = b.ss
    BY <2>1, <2>2
  <2> HIDE DEF e
  <2> QED BY <1>3, <2>1, <2>3 DEF e, i, w
<1>4. CASE ~ b.f.vm /\ ~ switched
  <2>1. w = <<b.f, b.cs, i>> /\ Len(w) = 3
    BY <1>1, <1>4
  <2>2. w[3] = i /\ w[2] = b.cs /\ w[1] = b.f
    BY <2>1
  <2> QED BY <1>4, <2>1, <2>2 DEF e, i, w
<1> QED BY <1>2, <1>3, <1>4

HoldsFrame(b, d, k) ==
    /\ k \in Nat
    /\ Esp(d) = (IF d.ss = b.ss THEN Esp(b) + 3 ELSE IF b.f.vm THEN 6 ELSE 5) + k
    /\ WordAt(d, k + 1) = [ip |-> b.ip] /\ WordAt(d, k + 2) = b.cs /\ WordAt(d, k + 3) = b.f
    /\ d.ss # b.ss => WordAt(d, k + 4) = [esp |-> Esp(b)] /\ WordAt(d, k + 5) = b.ss
    /\ b.f.vm => WordAt(d, k + 6) = b.ds

LEMMA FrameIs ==
    ASSUME NEW b, IsMachine(b), NEW d, NEW err, Interrupts(b, d, err)
    PROVE  /\ HoldsFrame(b, d, Len(err))
           /\ \A i \in 1 .. Len(err) : WordAt(d, i) = err[Len(err) + 1 - i]
<1> DEFINE k == Len(err)
           switched == d.ss # b.ss
           w == InterruptWords(b, switched)
           n == Len(w)
<1>1. IsSeq(err) /\ Pushes(b, d, w \o err) /\ (b.f.vm => switched)
  BY DEF Interrupts
<1>2. /\ n = IF b.f.vm THEN 6 ELSE IF switched THEN 5 ELSE 3
      /\ w[n] = [ip |-> b.ip] /\ w[n - 1] = b.cs /\ w[n - 2] = b.f
      /\ (b.f.vm \/ switched) => w[n - 3] = [esp |-> Esp(b)] /\ w[n - 4] = b.ss
      /\ b.f.vm => w[n - 5] = b.ds
  <2>1. b.f.vm \in BOOLEAN /\ switched \in BOOLEAN
    BY MachineTypes
  <2> HIDE DEF switched
  <2> QED BY <2>1, InterruptWordsAre
<1>3. IsSeq(w) /\ IsSeq(w \o err)
  BY <1>1, WordsAreSeq
<1> HIDE DEF w
<1>4. /\ k \in Nat /\ n \in Nat /\ Len(w \o err) = n + k
      /\ \A i \in 1 .. n : (w \o err)[i] = w[i] /\ \A j \in 1 .. k : (w \o err)[n + j] = err[j]
  BY <1>1, <1>3, Appended
<1> DEFINE x == w \o err
<1> HIDE DEF x
<1>5. /\ Esp(d) = (IF switched THEN 0 ELSE Esp(b)) + Len(x)
      /\ \A i \in 1 .. Len(x) : WordAt(d, i) = x[Len(x) + 1 - i]
  <2>1. IsSeq(x) /\ Pushes(b, d, x)
    BY <1>1, <1>3 DEF x
  <2>2. /\ Esp(d) = (IF d.ss = b.ss THEN Esp(b) ELSE 0) + Len(x)
        /\ \A i \in 1 .. Len(x) : WordAt(d, i) = x[Len(x) + 1 - i]
    BY <2>1, PushesWords
  <2> QED BY <2>2
<1>6. Len(x) = n + k /\ \A i \in 1 .. n : x[i] = w[i]
  BY <1>2, <1>4 DEF x
<1>7. ASSUME NEW j \in 1 .. k PROVE x[n + j] = err[j]
  BY <1>4 DEF x
<1> HIDE DEF n, k
<1>8. ASSUME NEW i \in 1 .. n PROVE WordAt(d, k + i) = w[n + 1 - i]
  <2>1. k + i \in 1 .. Len(x) /\ Len(x) + 1 - (k + i) = n + 1 - i /\ n + 1 - i \in 1 .. n
    BY <1>4, <1>6
  <2> QED BY <1>5, <1>6, <2>1
<1>9. ASSUME NEW i \in 1 .. k PROVE WordAt(d, i) = err[k + 1 - i]
  <2>1. i \in 1 .. Len(x) /\ Len(x) + 1 - i = n + (k + 1 - i) /\ k + 1 - i \in 1 .. k
    BY <1>4, <1>6
  <2> QED BY <1>5, <1>7, <2>1
<1>10. b.f.vm \in BOOLEAN /\ Esp(b) \in Nat
  BY MachineTypes
<1>11. n = IF ~ switched THEN 3 ELSE IF b.f.vm THEN 6 ELSE 5
  BY <1>1, <1>2, <1>10
<1> HIDE DEF switched
<1>12. Esp(d) = (IF ~ switched THEN Esp(b) + 3 ELSE IF b.f.vm THEN 6 ELSE 5) + k
  BY <1>4, <1>5, <1>6, <1>10, <1>11
<1>13. WordAt(d, k + 1) = w[n] /\ WordAt(d, k + 2) = w[n - 1] /\ WordAt(d, k + 3) = w[n - 2]
  <2>1. 1 \in 1 .. n /\ 2 \in 1 .. n /\ 3 \in 1 .. n /\ n + 1 - 1 = n /\ n + 1 - 2 = n - 1 /\ n + 1 - 3 = n - 2
    BY <1>11
  <2> QED BY <1>8, <2>1
<1>14. switched => WordAt(d, k + 4) = w[n - 3] /\ WordAt(d, k + 5) = w[n - 4]
  <2> SUFFICES ASSUME switched PROVE WordAt(d, k + 4) = w[n - 3] /\ WordAt(d, k + 5) = w[n - 4]
    OBVIOUS
  <2>1. 4 \in 1 .. n /\ 5 \in 1 .. n /\ n + 1 - 4 = n - 3 /\ n + 1 - 5 = n - 4
    BY <1>11
  <2> QED BY <1>8, <2>1
<1>15. b.f.vm => WordAt(d, k + 6) = w[n - 5]
  <2> SUFFICES ASSUME b.f.vm PROVE WordAt(d, k + 6) = w[n - 5]
    OBVIOUS
  <2>1. 6 \in 1 .. n /\ n + 1 - 6 = n - 5
    BY <1>1, <1>11
  <2> QED BY <1>8, <2>1
<1>16. HoldsFrame(b, d, k)
  BY <1>2, <1>4, <1>12, <1>13, <1>14, <1>15 DEF HoldsFrame, switched
<1> QED BY <1>9, <1>16 DEF k

LEMMA LeftIs ==
    ASSUME NEW b, IsMachine(b)
    PROVE  LET c == Left(b, FALSE)
           IN  /\ IsContext(c) /\ c.ip = b.ip /\ c.f = b.f /\ c.cs = b.cs /\ c.ss = b.ss
               /\ c.esp = Esp(b) /\ c.ds = IF b.f.vm THEN b.ds ELSE Null
               /\ [c EXCEPT !.esp = @ - 0] = c
<1> DEFINE c == Left(b, FALSE)
           ds == IF b.f.vm THEN b.ds ELSE Null
<1>1. Context(b) = [ip |-> b.ip, f |-> b.f, cs |-> b.cs, ss |-> b.ss, ds |-> b.ds, esp |-> Esp(b)]
  BY DEF Context
<1>2. Esp(b) \in Nat /\ b.f.vm \in BOOLEAN
  BY MachineTypes
<1>3. c = [ip |-> b.ip, f |-> b.f, cs |-> b.cs, ss |-> b.ss, ds |-> ds, esp |-> Esp(b)]
  <2>1. CASE b.f.vm
    BY <1>1, <2>1 DEF Left
  <2>2. CASE ~ b.f.vm
    BY <1>1, <2>2 DEF Left
  <2> QED BY <2>1, <2>2
<1> HIDE DEF c, ds
<1>4. /\ b.f \in [if : BOOLEAN, nt : BOOLEAN, vm : BOOLEAN]
      /\ IF b.f.vm THEN b.cs = Real /\ b.ss = Real /\ b.ds = Real ELSE Fit(b.cs, b.ss, b.ds)
  BY DEF IsMachine
<1>5. IF b.f.vm THEN b.cs = Real /\ b.ss = Real /\ ds = Real ELSE Fit(b.cs, b.ss, ds)
  BY <1>4 DEF Fit, ds
<1>6. IsContext(c)
  <2>1. c = [ip |-> c.ip, f |-> c.f, cs |-> c.cs, ss |-> c.ss, ds |-> c.ds, esp |-> c.esp]
    BY <1>3
  <2>2. c.f = b.f /\ c.cs = b.cs /\ c.ss = b.ss /\ c.ds = ds /\ c.esp = Esp(b)
    BY <1>3
  <2>3. IF c.f.vm THEN {c.cs, c.ss, c.ds} = {Real} ELSE Fit(c.cs, c.ss, c.ds)
    BY <1>5, <2>2
  <2> QED BY <1>2, <1>4, <2>1, <2>2, <2>3 DEF IsContext
<1>7. [c EXCEPT !.esp = @ - 0] = c
  <2>1. c.esp - 0 = c.esp /\ c = [x \in {"ip", "f", "cs", "ss", "ds", "esp"} |-> c[x]]
    BY <1>2, <1>3
  <2> QED BY <2>1
<1>8. /\ c.ip = b.ip /\ c.f = b.f /\ c.cs = b.cs /\ c.ss = b.ss /\ c.esp = Esp(b)
      /\ c.ds = IF b.f.vm THEN b.ds ELSE Null
  BY <1>3 DEF ds
<1> QED BY <1>6, <1>7, <1>8 DEF c

IsError(err) == err = <<>> \/ \E x : err = <<[error |-> x]>>

LEMMA ErrorIs ==
    ASSUME NEW b, IsMachine(b), NEW d, NEW err, IsError(err), Interrupts(b, d, err)
    PROVE  (IF HasErrorCode(d) THEN 1 ELSE 0) = Len(err)
<1>1. Esp(b) \in Nat
  BY MachineTypes
<1>2. CASE err = <<>>
  <2>1. Len(err) = 0
    BY <1>2
  <2>2. WordAt(d, 1) = [ip |-> b.ip]
    <3>1. HoldsFrame(b, d, Len(err))
      BY FrameIs
    <3>2. WordAt(d, Len(err) + 1) = [ip |-> b.ip]
      BY <3>1 DEF HoldsFrame
    <3> QED BY <2>1, <3>2
  <2>3. ~ HasErrorCode(d)
    BY <2>2 DEF HasErrorCode
  <2> QED BY <2>1, <2>3
<1>3. ASSUME NEW x, err = <<[error |-> x]>> PROVE (IF HasErrorCode(d) THEN 1 ELSE 0) = Len(err)
  <2> DEFINE y == [error |-> x]
  <2>1. Len(err) = 1 /\ err[1] = y
    BY <1>3
  <2>2. WordAt(d, 1) = y
    <3>1. 1 \in 1 .. Len(err) /\ Len(err) + 1 - 1 = 1
      BY <2>1
    <3>2. \A i \in 1 .. Len(err) : WordAt(d, i) = err[Len(err) + 1 - i]
      BY FrameIs
    <3> HIDE DEF y
    <3> QED BY <2>1, <3>1, <3>2
  <2>3. Esp(d) > 0
    <3>1. Esp(d) = (IF d.ss = b.ss THEN Esp(b) + 3 ELSE IF b.f.vm THEN 6 ELSE 5) + Len(err)
      <4>1. HoldsFrame(b, d, Len(err))
        BY FrameIs
      <4> QED BY <4>1 DEF HoldsFrame
    <3> QED BY <1>1, <2>1, <3>1
  <2>4. "error" \in DOMAIN WordAt(d, 1)
    BY <2>2
  <2>5. HasErrorCode(d)
    BY <2>3, <2>4 DEF HasErrorCode
  <2> QED BY <2>1, <2>5
<1> QED BY <1>2, <1>3 DEF IsError

\* What is left on an interrupt or exception can be returned to.
LEMMA InterruptEntry ==
    ASSUME NEW b, IsMachine(b), NEW d, NEW err, IsError(err), Interrupts(b, d, err), NEW i
    PROVE  LET e == [kind |-> "interrupt", from |-> Left(b, FALSE), params |-> 0, intact |-> TRUE,
                     ss |-> d.ss, esp |-> Esp(d) - (IF HasErrorCode(d) THEN 1 ELSE 0)]
           IN  IsEntry(b.tr, e, i) /\ KeepsFlags(e, Context(d)) /\ Frame(e, Stack(d))
<1> DEFINE c == Left(b, FALSE)
           k == Len(err)
           e == [kind |-> "interrupt", from |-> c, params |-> 0, intact |-> TRUE,
                 ss |-> d.ss, esp |-> Esp(d) - k]
<1>1. /\ IsContext(c) /\ c.ip = b.ip /\ c.f = b.f /\ c.cs = b.cs /\ c.ss = b.ss
      /\ c.esp = Esp(b) /\ c.ds = IF b.f.vm THEN b.ds ELSE Null
  BY LeftIs
<1>2. /\ k \in Nat
      /\ Esp(d) = (IF d.ss = b.ss THEN Esp(b) + 3 ELSE IF b.f.vm THEN 6 ELSE 5) + k
      /\ WordAt(d, k + 1) = [ip |-> b.ip] /\ WordAt(d, k + 2) = b.cs /\ WordAt(d, k + 3) = b.f
      /\ d.ss # b.ss => WordAt(d, k + 4) = [esp |-> Esp(b)] /\ WordAt(d, k + 5) = b.ss
      /\ b.f.vm => WordAt(d, k + 6) = b.ds
  <2>1. HoldsFrame(b, d, k)
    BY FrameIs
  <2> HIDE DEF k
  <2> QED BY <2>1 DEF HoldsFrame
<1>3. /\ IsMachine(d) /\ d.tr = b.tr /\ (d.ss # b.ss => b.ss.rpl = 3 /\ d.ss = Tasks[b.tr].ss0)
      /\ d.f.nt = FALSE /\ (b.f.vm => d.ss # b.ss) /\ (d.f.if = b.f.if \/ d.ss.rpl = 0)
      /\ d.f.vm = FALSE
  BY DEF Interrupts, Pushes, SameRest
<1>4. /\ b.tr \in DOMAIN Tasks /\ b.ss \in StacksOf(b.tr) /\ Esp(b) \in Nat /\ b.f.vm \in BOOLEAN
      /\ d.ss \in StacksOf(b.tr) /\ d.ss.rpl \in {0, 3} /\ d.ss.rpl = d.cpl /\ Esp(d) \in Nat
  BY <1>3, MachineTypes
<1> HIDE DEF c, k
<1>5. /\ e.kind = "interrupt" /\ e.from = c /\ e.params = 0 /\ e.intact = TRUE /\ e.ss = d.ss
      /\ e.esp = Esp(d) - k
      /\ e = [x \in {"kind", "from", "params", "intact", "ss", "esp"} |-> e[x]]
  OBVIOUS
<1> HIDE DEF e
<1>6. Switched(e) <=> d.ss # b.ss
  BY <1>1, <1>5 DEF Switched
<1>7. FrameSize(e) = IF d.ss = b.ss THEN 3 ELSE IF b.f.vm THEN 6 ELSE 5
  <2>1. e.kind # "call" /\ e.from.f.vm = b.f.vm
    BY <1>1, <1>5
  <2> QED BY <1>3, <1>6, <2>1 DEF FrameSize
<1>8. e.esp = (IF Switched(e) THEN 0 ELSE e.from.esp) + FrameSize(e)
  <2>1. e.from.esp = Esp(b) /\ e.esp = Esp(d) - k
    BY <1>1, <1>5
  <2> HIDE DEF e
  <2> QED BY <1>2, <1>4, <1>6, <1>7, <2>1
<1>9. Names(d.ss, {"data"})
  <2>1. d.f.vm = FALSE
    BY <1>3
  <2> QED BY <1>3, <2>1 DEF IsMachine, Fit
<1>10. Switched(e) => e.from.ss.rpl = 3 /\ e.ss.rpl = 0
  <2>1. SegmentFault("ss", Tasks[b.tr].ss0, 0) = "none" /\ Names(Tasks[b.tr].ss0, {"data"})
    BY <1>4, ProtectedModeAssumption DEF TasksAssumption
  <2>2. Tasks[b.tr].ss0.rpl = 0
    BY <2>1 DEF SegmentFault
  <2> QED BY <1>1, <1>3, <1>5, <1>6, <2>2
<1>11. IsTransfer(b.tr, e)
  BY <1>1, <1>4, <1>5, <1>8, <1>9, <1>10 DEF IsTransfer
<1>12. IsEntry(b.tr, e, i)
  <2>1. e.kind # "task" /\ e.params \in Nat
    BY <1>5
  <2>3. e.intact \in BOOLEAN
    BY <1>5
  <2>2. e.ss.rpl \in {0, 3}
    BY <1>4, <1>5
  <2> QED BY <1>5, <1>11, <2>1, <2>2, <2>3 DEF IsEntry
<1>13. KeepsFlags(e, Context(d))
  <2>1. Context(d).f = d.f /\ e.from.f.if = b.f.if
    BY <1>1, <1>5 DEF Context
  <2>2. e.ss.rpl > Iopl => d.f.if = b.f.if
    BY <1>3, <1>4, <1>5, ProtectedModeAssumption
  <2> QED BY <1>3, <1>5, <2>1, <2>2 DEF KeepsFlags
<1>14. Frame(e, Stack(d))
  <2>1. ASSUME NEW j \in Nat PROVE Word(e, Stack(d), j) = WordAt(d, k + j)
    <3>1. e.esp + 1 - j = Esp(d) + 1 - (k + j)
      BY <1>2, <1>4, <1>5
    <3> QED BY <3>1 DEF Word, WordAt
  <2>2. /\ Word(e, Stack(d), 1) = [ip |-> b.ip] /\ Word(e, Stack(d), 2) = b.cs
        /\ Word(e, Stack(d), 3) = b.f
    BY <1>2, <2>1
  <2>3. Switched(e) => /\ Word(e, Stack(d), 3 + 1) = [esp |-> e.from.esp + e.params]
                       /\ Word(e, Stack(d), 3 + 2) = e.from.ss
    <3>1. e.from.esp + e.params = Esp(b) /\ e.from.ss = b.ss
      BY <1>1, <1>4, <1>5
    <3>2. Word(e, Stack(d), 3 + 1) = WordAt(d, k + 4) /\ Word(e, Stack(d), 3 + 2) = WordAt(d, k + 5)
      BY <2>1
    <3> QED BY <1>2, <1>6, <3>1, <3>2
  <2>4. b.f.vm => Word(e, Stack(d), 3 + 3) = b.ds
    <3>1. Word(e, Stack(d), 3 + 3) = WordAt(d, k + 6)
      BY <2>1
    <3> QED BY <1>2, <3>1
  <2>5. e.from.ip = b.ip /\ e.from.f = b.f /\ e.from.cs = b.cs /\ (b.f.vm => e.from.ds = b.ds)
    BY <1>1, <1>5
  <2> QED BY <1>5, <2>2, <2>3, <2>4, <2>5 DEF Frame
<1>15. k = IF HasErrorCode(d) THEN 1 ELSE 0
  BY ErrorIs DEF k
<1> QED BY <1>12, <1>13, <1>14, <1>15 DEF e, c

\* d is b after a far call with k parameters.
IsCall(b, d, k) ==
    /\ k \in Nat /\ k <= Esp(b) /\ d.f = b.f /\ b.f.vm = FALSE
    /\ \E w : /\ IsSeq(w) /\ Pushes(b, d, w) /\ Len(w) = IF d.ss = b.ss THEN 2 ELSE k + 4
              /\ w[Len(w)] = [ip |-> b.ip] /\ w[Len(w) - 1] = b.cs
              /\ d.ss # b.ss => w[1] = b.ss /\ w[2] = [esp |-> Esp(b)]

LEMMA CallEntry ==
    ASSUME NEW b, IsMachine(b), NEW d, NEW k, IsCall(b, d, k), NEW i
    PROVE  LET e == [kind |-> "call", from |-> [Left(b, FALSE) EXCEPT !.esp = @ - k],
                     params |-> k, intact |-> TRUE,
                     ss |-> d.ss, esp |-> Esp(d) - (IF HasErrorCode(d) THEN 1 ELSE 0)]
           IN  IsEntry(b.tr, e, i) /\ KeepsFlags(e, Context(d)) /\ Frame(e, Stack(d))
<1> DEFINE l == Left(b, FALSE)
           c == [l EXCEPT !.esp = @ - k]
           e == [kind |-> "call", from |-> c, params |-> k, intact |-> TRUE,
                 ss |-> d.ss, esp |-> Esp(d)]
<1>1. k \in Nat /\ k <= Esp(b) /\ d.f = b.f /\ b.f.vm = FALSE
  BY DEF IsCall
<1>2. PICK w : /\ IsSeq(w) /\ Pushes(b, d, w) /\ Len(w) = IF d.ss = b.ss THEN 2 ELSE k + 4
               /\ w[Len(w)] = [ip |-> b.ip] /\ w[Len(w) - 1] = b.cs
               /\ d.ss # b.ss => w[1] = b.ss /\ w[2] = [esp |-> Esp(b)]
  BY DEF IsCall
<1>3. /\ Len(w) \in Nat /\ Esp(d) = (IF d.ss = b.ss THEN Esp(b) ELSE 0) + Len(w)
      /\ \A j \in 1 .. Len(w) : WordAt(d, j) = w[Len(w) + 1 - j]
  BY <1>2, PushesWords
<1>4. /\ IsMachine(d) /\ d.tr = b.tr /\ (d.ss # b.ss => b.ss.rpl = 3 /\ d.ss = Tasks[b.tr].ss0)
  BY <1>2 DEF Pushes, SameRest
<1>5. /\ b.tr \in DOMAIN Tasks /\ b.ss \in StacksOf(b.tr) /\ Esp(b) \in Nat
      /\ d.ss \in StacksOf(b.tr) /\ d.ss.rpl \in {0, 3} /\ Esp(d) \in Nat
  BY <1>4, MachineTypes
<1>6. /\ IsContext(l) /\ l.ip = b.ip /\ l.f = b.f /\ l.cs = b.cs /\ l.ss = b.ss
      /\ l.esp = Esp(b) /\ l.ds = Null
  BY <1>1, LeftIs
<1> HIDE DEF l
<1>7. /\ l = [ip |-> l.ip, f |-> l.f, cs |-> l.cs, ss |-> l.ss, ds |-> l.ds, esp |-> l.esp]
      /\ l.f \in [if : BOOLEAN, nt : BOOLEAN, vm : BOOLEAN] /\ Fit(l.cs, l.ss, l.ds)
  BY <1>1, <1>6 DEF IsContext
<1>8. /\ c = [ip |-> c.ip, f |-> c.f, cs |-> c.cs, ss |-> c.ss, ds |-> c.ds, esp |-> c.esp]
      /\ c.ip = b.ip /\ c.f = b.f /\ c.cs = b.cs /\ c.ss = b.ss /\ c.ds = Null
      /\ c.esp = Esp(b) - k
  BY <1>6, <1>7
<1> HIDE DEF c
<1>9. IsContext(c)
  <2>1. c.esp \in Nat
    BY <1>1, <1>5, <1>8
  <2> QED BY <1>1, <1>6, <1>7, <1>8, <2>1 DEF IsContext
<1>10. /\ e.kind = "call" /\ e.from = c /\ e.params = k /\ e.intact = TRUE /\ e.ss = d.ss
       /\ e.esp = Esp(d)
       /\ e = [x \in {"kind", "from", "params", "intact", "ss", "esp"} |-> e[x]]
  OBVIOUS
<1> HIDE DEF e
<1>11. Switched(e) <=> d.ss # b.ss
  BY <1>8, <1>10 DEF Switched
<1>12. FrameSize(e) = (k + 2) + (IF d.ss = b.ss THEN 0 ELSE 2)
  <2>1. e.from.f.vm = FALSE
    BY <1>1, <1>8, <1>10
  <2> QED BY <1>1, <1>10, <1>11, <2>1 DEF FrameSize
<1>13. e.esp = (IF Switched(e) THEN 0 ELSE e.from.esp) + FrameSize(e)
  <2>1. e.from.esp = Esp(b) - k /\ e.esp = Esp(d)
    BY <1>8, <1>10
  <2> QED BY <1>1, <1>2, <1>3, <1>5, <1>11, <1>12, <2>1
<1>14. Names(d.ss, {"data"})
  <2>1. d.f.vm = FALSE
    BY <1>1
  <2> QED BY <1>4, <2>1 DEF IsMachine, Fit
<1>15. Switched(e) => e.from.ss.rpl = 3 /\ e.ss.rpl = 0
  <2>1. SegmentFault("ss", Tasks[b.tr].ss0, 0) = "none" /\ Names(Tasks[b.tr].ss0, {"data"})
    BY <1>5, ProtectedModeAssumption DEF TasksAssumption
  <2>2. Tasks[b.tr].ss0.rpl = 0
    BY <2>1 DEF SegmentFault
  <2> QED BY <1>4, <1>8, <1>10, <1>11, <2>2
<1>16. IsTransfer(b.tr, e)
  <2>1. e.from.ss \in StacksOf(b.tr) /\ e.ss \in StacksOf(b.tr) /\ Names(e.ss, {"data"})
    BY <1>5, <1>8, <1>10, <1>14
  <2>2. /\ e.kind \in {"call", "interrupt"} /\ e.kind # "interrupt" /\ IsContext(e.from)
        /\ e.from.ds = Null /\ ~ e.from.f.vm
    BY <1>1, <1>8, <1>9, <1>10
  <2> QED BY <1>13, <1>15, <2>1, <2>2 DEF IsTransfer
<1>17. IsEntry(b.tr, e, i)
  <2>1. e.kind # "task" /\ e.params \in Nat
    BY <1>1, <1>10
  <2>2. e.intact \in BOOLEAN
    BY <1>10
  <2>3. e.ss.rpl \in {0, 3}
    BY <1>5, <1>10
  <2> QED BY <1>10, <1>16, <2>1, <2>2, <2>3 DEF IsEntry
<1>18. KeepsFlags(e, Context(d))
  <2>1. Context(d).f = b.f /\ e.from.f = b.f /\ e.kind = "call"
    BY <1>1, <1>8, <1>10 DEF Context
  <2> QED BY <2>1 DEF KeepsFlags
<1>19. Frame(e, Stack(d))
  <2>1. ASSUME NEW j \in 1 .. Len(w) PROVE Word(e, Stack(d), j) = w[Len(w) + 1 - j]
    <3>1. e.esp + 1 - j = Esp(d) + 1 - j
      BY <1>10
    <3> QED BY <1>3, <3>1 DEF Word, WordAt
  <2>2. 1 \in 1 .. Len(w) /\ 2 \in 1 .. Len(w) /\ Len(w) + 1 - 1 = Len(w) /\ Len(w) + 1 - 2 = Len(w) - 1
    BY <1>1, <1>2, <1>3
  <2>3. Word(e, Stack(d), 1) = [ip |-> e.from.ip] /\ Word(e, Stack(d), 2) = e.from.cs
    BY <1>2, <1>8, <1>10, <2>1, <2>2
  <2>4. Switched(e) => /\ Word(e, Stack(d), (k + 2) + 1) = [esp |-> e.from.esp + e.params]
                       /\ Word(e, Stack(d), (k + 2) + 2) = e.from.ss
    <3> SUFFICES ASSUME Switched(e)
                 PROVE  /\ Word(e, Stack(d), (k + 2) + 1) = [esp |-> e.from.esp + e.params]
                        /\ Word(e, Stack(d), (k + 2) + 2) = e.from.ss
      OBVIOUS
    <3>1. /\ (k + 2) + 1 \in 1 .. Len(w) /\ Len(w) + 1 - ((k + 2) + 1) = 2
          /\ (k + 2) + 2 \in 1 .. Len(w) /\ Len(w) + 1 - ((k + 2) + 2) = 1
      BY <1>1, <1>2, <1>11
    <3>2. e.from.esp + e.params = Esp(b) /\ e.from.ss = b.ss
      BY <1>1, <1>5, <1>8, <1>10
    <3>3. w[1] = b.ss /\ w[2] = [esp |-> Esp(b)]
      BY <1>2, <1>11
    <3> QED BY <2>1, <3>1, <3>2, <3>3
  <2>5. e.from.f.vm = FALSE /\ e.kind = "call" /\ e.intact = TRUE /\ e.params = k
    BY <1>1, <1>8, <1>10
  <2> QED BY <2>3, <2>4, <2>5 DEF Frame
<1>20. ~ HasErrorCode(d)
  <2>1. WordAt(d, 1) = [ip |-> b.ip]
    BY <1>1, <1>2, <1>3
  <2> QED BY <2>1 DEF HasErrorCode
<1>21. Esp(d) - (IF HasErrorCode(d) THEN 1 ELSE 0) = Esp(d)
  BY <1>5, <1>20
<1> QED BY <1>17, <1>18, <1>19, <1>21 DEF e, c, l

-----------------------------------------------------------------------------
(* The tasks. *)

\* The state a task has or will be continued with.
ContextIn(n, t) == IF t = n.tr THEN Context(n) ELSE n.tss[t]

\* The busy tasks are a chain of callers, the current task at its end.
IsChain(tr, busy, link) ==
    /\ busy[tr] /\ \A t \in DOMAIN Tasks : busy[t] => busy[link[t]]
    /\ \A t \in DOMAIN Tasks : busy[t] /\ t # tr =>
          \E u \in DOMAIN Tasks \ {t} : busy[u] /\ link[u] = t
    /\ \A t \in DOMAIN Tasks : busy[t] /\ link[t] # t => link[t] # tr
    /\ \A t, u \in DOMAIN Tasks :
          busy[t] /\ busy[u] /\ link[t] # t /\ link[u] # u /\ link[t] = link[u] => t = u

Nested(n) ==
    /\ n.tr \in DOMAIN Tasks
    /\ n.busy \in [DOMAIN Tasks -> BOOLEAN] /\ n.link \in [DOMAIN Tasks -> DOMAIN Tasks]
    /\ IsChain(n.tr, n.busy, n.link)

\* A task whose NT flag is or will be set was called, and by whom its history says.
IsLinked(n, t, e) ==
    IF e.kind = "task" THEN n.link[t] # t /\ e.from = n.tss[n.link[t]]
    ELSE e.from.f.nt => n.link[t] # t

GoodTask(n, us, t) ==
    LET c == ContextIn(n, t)
    IN  /\ IsContext(c) /\ c.ss \in StacksOf(t) /\ IsHistory(t, us[t], c, n.stack)
        /\ IF n.busy[t]
           THEN /\ c.f.nt => n.link[t] # t
                /\ \A i \in 1 .. Len(us[t]) : IsLinked(n, t, us[t][i])
           ELSE us[t] = <<>>

Running(n, us) ==
    /\ IsMachine(n) /\ Nested(n) /\ us = [t \in DOMAIN Tasks |-> us[t]]
    /\ \A t \in DOMAIN Tasks : GoodTask(n, us, t)

\* What a return from a call leaves to IRET: the NT flag.
KeepsTasks(us, c) ==
    \A i \in 1 .. Len(us) : IF us[i].kind = "task" THEN us[i].from.f.nt = FALSE
                            ELSE us[i].kind = "call" => After(us, c, i).f.nt = us[i].from.f.nt
AllKeep(n, us) == \A t \in DOMAIN Tasks : KeepsTasks(us[t], ContextIn(n, t))

\* A transfer within the task.
SameTasks(d, n) == d.tr = n.tr /\ d.busy = n.busy /\ d.link = n.link /\ d.tss = n.tss
SameElsewhere(d, n) ==
    \A u \in DOMAIN Tasks \ {n.tr} : \A y \in StacksOf(u) : d.stack[y.index] = n.stack[y.index]

LEMMA NestedStays ==
    ASSUME NEW n, Nested(n), NEW d, SameTasks(d, n)
    PROVE  Nested(d)
BY DEF Nested, SameTasks

LEMMA TaskChanges ==
    ASSUME NEW n, NEW us, Running(n, us), NEW d, IsMachine(d), SameTasks(d, n), SameElsewhere(d, n),
           NEW x, IsHistory(n.tr, x, Context(d), d.stack),
           d.f.nt => n.link[n.tr] # n.tr, \A i \in 1 .. Len(x) : IsLinked(n, n.tr, x[i])
    PROVE  Running(d, [us EXCEPT ![n.tr] = x])
<1> DEFINE vs == [us EXCEPT ![n.tr] = x]
<1>1. /\ IsMachine(n) /\ Nested(n) /\ us = [t \in DOMAIN Tasks |-> us[t]]
      /\ \A t \in DOMAIN Tasks : GoodTask(n, us, t)
  BY DEF Running
<1>2. d.tr = n.tr /\ d.busy = n.busy /\ d.link = n.link /\ d.tss = n.tss
  BY DEF SameTasks
<1>3. n.tr \in DOMAIN Tasks /\ n.busy[n.tr]
  BY <1>1 DEF Nested, IsChain
<1>4. /\ vs = [t \in DOMAIN Tasks |-> vs[t]] /\ vs[n.tr] = x
      /\ \A t \in DOMAIN Tasks \ {n.tr} : vs[t] = us[t]
  BY <1>1, <1>3
<1> HIDE DEF vs
<1>5. ASSUME NEW t \in DOMAIN Tasks PROVE GoodTask(d, vs, t)
  <2> DEFINE c == ContextIn(d, t)
  <2>1. ASSUME NEW e PROVE IsLinked(d, t, e) <=> IsLinked(n, t, e)
    BY <1>2 DEF IsLinked
  <2>2. CASE t = n.tr
    <3>1. c = Context(d)
      BY <1>2, <2>2 DEF ContextIn
    <3> HIDE DEF c
    <3>2. IsContext(c) /\ c.ss \in StacksOf(t) /\ c.f = d.f
      <4>1. IsContext(c) /\ d.ss \in StacksOf(t)
        BY <1>2, <2>2, <3>1, MachineTypes
      <4> QED BY <3>1, <4>1 DEF Context
    <3>3. IsHistory(t, vs[t], c, d.stack)
      BY <1>4, <2>2, <3>1
    <3>4. \A i \in 1 .. Len(vs[t]) : IsLinked(d, t, vs[t][i])
      BY <1>4, <2>1, <2>2
    <3>5. d.busy[t] /\ (c.f.nt => d.link[t] # t)
      BY <1>2, <1>3, <2>2, <3>2
    <3> QED BY <3>2, <3>3, <3>4, <3>5 DEF GoodTask, c
  <2>3. CASE t # n.tr
    <3>1. c = ContextIn(n, t)
      BY <1>2, <2>3 DEF ContextIn
    <3> HIDE DEF c
    <3>2. /\ IsContext(c) /\ c.ss \in StacksOf(t) /\ IsHistory(t, us[t], c, n.stack)
          /\ IF n.busy[t]
             THEN /\ c.f.nt => n.link[t] # t
                  /\ \A i \in 1 .. Len(us[t]) : IsLinked(n, t, us[t][i])
             ELSE us[t] = <<>>
      BY <1>1, <3>1 DEF GoodTask
    <3>3. vs[t] = us[t]
      BY <1>4, <2>3
    <3>4. IsHistory(t, us[t], c, d.stack)
      <4>1. Agree(d.stack, n.stack, t, 0, c.ss, c.esp)
        BY <2>3 DEF SameElsewhere, Agree, SameWords
      <4>2. c.esp \in Nat
        BY <3>2 DEF IsContext
      <4>3. c.esp <= c.esp
        BY <4>2
      <4> QED BY <3>2, <4>1, <4>2, <4>3, HistoryStays
    <3>5. IF d.busy[t]
          THEN /\ c.f.nt => d.link[t] # t
               /\ \A i \in 1 .. Len(vs[t]) : IsLinked(d, t, vs[t][i])
          ELSE vs[t] = <<>>
      BY <1>2, <2>1, <3>2, <3>3
    <3> QED BY <3>2, <3>3, <3>4, <3>5 DEF GoodTask, c
  <2> QED BY <2>2, <2>3
<1>6. Nested(d)
  BY <1>1, NestedStays
<1> QED BY <1>4, <1>5, <1>6 DEF Running, vs

LEMMA TasksChange ==
    ASSUME NEW n, NEW us, Running(n, us), AllKeep(n, us), NEW d, SameTasks(d, n),
           NEW x, KeepsTasks(x, Context(d))
    PROVE  AllKeep(d, [us EXCEPT ![n.tr] = x])
<1> DEFINE vs == [us EXCEPT ![n.tr] = x]
<1>1. n.tr \in DOMAIN Tasks /\ us = [t \in DOMAIN Tasks |-> us[t]]
  BY DEF Running, Nested
<1>2. vs[n.tr] = x /\ \A t \in DOMAIN Tasks \ {n.tr} : vs[t] = us[t]
  BY <1>1
<1> HIDE DEF vs
<1>3. ASSUME NEW t \in DOMAIN Tasks PROVE KeepsTasks(vs[t], ContextIn(d, t))
  <2>1. CASE t = n.tr
    <3>1. ContextIn(d, t) = Context(d)
      BY <2>1 DEF ContextIn, SameTasks
    <3> QED BY <1>2, <2>1, <3>1
  <2>2. CASE t # n.tr
    <3>1. ContextIn(d, t) = ContextIn(n, t)
      BY <2>2 DEF ContextIn, SameTasks
    <3> QED BY <1>2, <2>2, <3>1 DEF AllKeep
  <2> QED BY <2>1, <2>2
<1> QED BY <1>3 DEF AllKeep, vs

\* The current task's own state.
LEMMA Current ==
    ASSUME NEW n, NEW us, Running(n, us)
    PROVE  LET t == n.tr
               c == Context(n)
           IN  /\ t \in DOMAIN Tasks /\ IsMachine(n) /\ IsContext(c) /\ Nested(n)
               /\ c.ss = n.ss /\ c.f = n.f /\ c.esp = Esp(n) /\ Esp(n) \in Nat
               /\ IsHistory(t, us[t], c, n.stack) /\ IsSeq(us[t])
               /\ n.f.nt => n.link[t] # t
               /\ \A i \in 1 .. Len(us[t]) : IsLinked(n, t, us[t][i])
               /\ us = [us EXCEPT ![t] = us[t]]
<1> DEFINE t == n.tr
           c == Context(n)
<1>1. IsMachine(n) /\ Nested(n) /\ GoodTask(n, us, t) /\ t \in DOMAIN Tasks /\ n.busy[t]
      /\ us = [u \in DOMAIN Tasks |-> us[u]]
  BY DEF Running, Nested, IsChain
<1>2. c = ContextIn(n, t)
  BY DEF ContextIn
<1>3. c.ss = n.ss /\ c.f = n.f /\ c.esp = Esp(n)
  BY DEF Context
<1>4. IsContext(c) /\ Esp(n) \in Nat
  BY <1>1, MachineTypes
<1> HIDE DEF c
<1>5. /\ IsHistory(t, us[t], c, n.stack) /\ (c.f.nt => n.link[t] # t)
      /\ \A i \in 1 .. Len(us[t]) : IsLinked(n, t, us[t][i])
  BY <1>1, <1>2 DEF GoodTask
<1>6. us = [us EXCEPT ![t] = us[t]]
  BY <1>1
<1>7. IsSeq(us[t])
  BY <1>5 DEF IsHistory
<1> QED BY <1>1, <1>3, <1>4, <1>5, <1>6, <1>7 DEF c

LEMMA KeepsStay ==
    ASSUME NEW us, NEW c, NEW d, KeepsTasks(us, c), d.f.nt = c.f.nt
    PROVE  KeepsTasks(us, d)
<1> SUFFICES ASSUME NEW i \in 1 .. Len(us)
             PROVE  IF us[i].kind = "task" THEN us[i].from.f.nt = FALSE
                    ELSE us[i].kind = "call" => After(us, d, i).f.nt = us[i].from.f.nt
  BY DEF KeepsTasks
<1>1. IF us[i].kind = "task" THEN us[i].from.f.nt = FALSE
      ELSE us[i].kind = "call" => After(us, c, i).f.nt = us[i].from.f.nt
  BY DEF KeepsTasks
<1>2. After(us, c, i).f.nt = After(us, d, i).f.nt
  BY DEF After
<1> QED BY <1>1, <1>2

LEMMA KeepsGrow ==
    ASSUME NEW us, IsSeq(us), NEW c, NEW d, NEW e, KeepsTasks(us, c),
           us # <<>> => e.from.f.nt = c.f.nt,
           IF e.kind = "task" THEN e.from.f.nt = FALSE ELSE e.kind = "call" => d.f.nt = e.from.f.nt
    PROVE  KeepsTasks(Append(us, e), d)
<1> DEFINE n == Len(us)
           vs == Append(us, e)
<1>1. n \in Nat /\ Len(vs) = n + 1 /\ vs[n + 1] = e /\ \A i \in 1 .. n : vs[i] = us[i]
  BY Longer
<1> HIDE DEF vs
<1>2. ASSUME NEW i \in 1 .. n + 1
      PROVE  IF vs[i].kind = "task" THEN vs[i].from.f.nt = FALSE
             ELSE vs[i].kind = "call" => After(vs, d, i).f.nt = vs[i].from.f.nt
  <2>1. CASE i = n + 1
    BY <1>1, <2>1 DEF After
  <2>2. CASE i # n + 1
    <3>1. i \in 1 .. n /\ vs[i] = us[i] /\ us # <<>>
      <4>1. i \in 1 .. n
        BY <1>1, <2>2
      <4>2. us # <<>>
        <5>1. Len(<<>>) = 0
          OBVIOUS
        <5> QED BY <1>1, <4>1, <5>1
      <4> QED BY <1>1, <4>1, <4>2
    <3>2. IF us[i].kind = "task" THEN us[i].from.f.nt = FALSE
          ELSE us[i].kind = "call" => After(us, c, i).f.nt = us[i].from.f.nt
      BY <3>1 DEF KeepsTasks
    <3>3. After(us, c, i).f.nt = After(vs, d, i).f.nt
      <4>1. CASE i = n
        <5>1. After(us, c, i) = c /\ After(vs, d, i) = e.from
          BY <1>1, <4>1 DEF After
        <5> QED BY <3>1, <5>1
      <4>2. CASE i # n
        <5>1. i + 1 \in 1 .. n /\ i # n + 1
          BY <1>1, <3>1, <4>2
        <5> QED BY <1>1, <4>2, <5>1 DEF After
      <4> QED BY <4>1, <4>2
    <3> QED BY <3>1, <3>2, <3>3
  <2> QED BY <2>1, <2>2
<1> QED BY <1>1, <1>2 DEF KeepsTasks, vs

LEMMA KeepsShrink ==
    ASSUME NEW us, IsSeq(us), us # <<>>, NEW c, NEW d, KeepsTasks(us, c),
           d.f.nt = Last(us).from.f.nt
    PROVE  KeepsTasks(Front(us), d)
<1> DEFINE n == Len(us)
           vs == Front(us)
<1>1. n \in Nat \ {0} /\ Len(vs) = n - 1 /\ Last(us) = us[n] /\ \A i \in 1 .. n - 1 : vs[i] = us[i]
  BY Shorter
<1> HIDE DEF vs
<1>2. ASSUME NEW i \in 1 .. n - 1
      PROVE  IF vs[i].kind = "task" THEN vs[i].from.f.nt = FALSE
             ELSE vs[i].kind = "call" => After(vs, d, i).f.nt = vs[i].from.f.nt
  <2>1. i \in 1 .. n /\ vs[i] = us[i] /\ i # n
    BY <1>1
  <2>2. IF us[i].kind = "task" THEN us[i].from.f.nt = FALSE
        ELSE us[i].kind = "call" => After(us, c, i).f.nt = us[i].from.f.nt
    BY <2>1 DEF KeepsTasks
  <2>3. After(us, c, i).f.nt = After(vs, d, i).f.nt
    <3>1. CASE i = n - 1
      <4>1. i + 1 = n
        BY <1>1, <3>1
      <4>2. After(us, c, i) = us[n].from /\ After(vs, d, i) = d
        BY <1>1, <2>1, <3>1, <4>1 DEF After
      <4> QED BY <1>1, <4>2
    <3>2. CASE i # n - 1
      <4>1. i + 1 \in 1 .. n - 1
        BY <1>1, <3>2
      <4> QED BY <1>1, <2>1, <3>2, <4>1 DEF After
    <3> QED BY <3>1, <3>2
  <2> QED BY <2>1, <2>2, <2>3
<1> QED BY <1>1, <1>2 DEF KeepsTasks, vs

-----------------------------------------------------------------------------
(* Within a task, the machine goes on, enters something or returns from it. *)

LEMMA Stays ==
    ASSUME NEW n, NEW us, Running(n, us), NEW d, IsMachine(d), SameTasks(d, n), SameElsewhere(d, n),
           d.ss = n.ss, d.f = n.f, Esp(d) <= Esp(n), Agree(d.stack, n.stack, n.tr, 0, d.ss, Esp(d))
    PROVE  Running(d, us) /\ (AllKeep(n, us) => AllKeep(d, us))
<1> DEFINE t == n.tr
           c == Context(n)
           x == us[t]
<1>1. /\ t \in DOMAIN Tasks /\ c.ss = n.ss /\ c.f = n.f /\ c.esp = Esp(n) /\ Esp(n) \in Nat
      /\ IsHistory(t, x, c, n.stack)
      /\ n.f.nt => n.link[t] # t
      /\ \A i \in 1 .. Len(x) : IsLinked(n, t, x[i])
      /\ us = [us EXCEPT ![t] = x]
  BY Current
<1>2. Context(d).ss = n.ss /\ Context(d).f = n.f /\ Context(d).esp = Esp(d) /\ Esp(d) \in Nat
  BY MachineTypes DEF Context
<1> HIDE DEF c, x
<1>3. IsHistory(t, x, Context(d), d.stack)
  <2> DEFINE e == Context(d)
  <2>1. e.ss = c.ss /\ e.f = c.f /\ e.esp \in Nat /\ e.esp <= c.esp /\ c.esp \in Nat
    BY <1>1, <1>2
  <2>2. Agree(d.stack, n.stack, t, 0, e.ss, e.esp)
    BY <1>2
  <2> HIDE DEF e
  <2>3. IsHistory(t, x, e, d.stack)
    BY <1>1, <2>1, <2>2, HistoryStays
  <2> QED BY <2>3 DEF e
<1>4. d.f.nt => n.link[t] # t
  BY <1>1
<1>5. Running(d, [us EXCEPT ![t] = x])
  BY <1>1, <1>3, <1>4, TaskChanges
<1>6. AllKeep(n, us) => AllKeep(d, [us EXCEPT ![t] = x])
  <2> SUFFICES ASSUME AllKeep(n, us) PROVE AllKeep(d, [us EXCEPT ![t] = x])
    OBVIOUS
  <2>1. KeepsTasks(x, c)
    BY <1>1 DEF AllKeep, ContextIn, c, x
  <2>2. Context(d).f.nt = c.f.nt
    BY <1>1, <1>2
  <2>3. KeepsTasks(x, Context(d))
    BY <2>1, <2>2, KeepsStay
  <2> QED BY <2>3, TasksChange
<1> QED BY <1>1, <1>5, <1>6

\* e describes how d was entered from n.
EntersTask(n, d, e, i) ==
    /\ IsEntry(n.tr, e, i) /\ e.kind # "task" /\ d.ss = e.ss
    /\ KeepsFlags(e, Context(d)) /\ Frame(e, Stack(d))
    /\ e.from.ss = n.ss /\ e.from.f = n.f /\ e.from.esp <= Esp(n) /\ e.ss.rpl <= n.ss.rpl
    /\ d.f.nt => n.f.nt
    /\ Agree(d.stack, n.stack, n.tr, n.ss.rpl, n.ss, Esp(n))

LEMMA EntersIs ==
    ASSUME NEW n, NEW us, Running(n, us), NEW d, IsMachine(d), SameTasks(d, n), SameElsewhere(d, n),
           NEW e, EntersTask(n, d, e, Len(us[n.tr]) + 1)
    PROVE  /\ Running(d, [us EXCEPT ![n.tr] = Append(@, e)])
           /\ AllKeep(n, us) /\ (e.kind = "call" => d.f.nt = n.f.nt) =>
                 AllKeep(d, [us EXCEPT ![n.tr] = Append(@, e)])
<1> DEFINE t == n.tr
           c == Context(n)
           y == Context(d)
           x == us[t]
           l == Len(x)
<1>1. /\ t \in DOMAIN Tasks /\ c.ss = n.ss /\ c.f = n.f /\ c.esp = Esp(n) /\ Esp(n) \in Nat
      /\ IsHistory(t, x, c, n.stack) /\ IsSeq(x)
      /\ n.f.nt => n.link[t] # t
      /\ \A i \in 1 .. Len(x) : IsLinked(n, t, x[i])
  BY Current
<1>2. /\ IsEntry(t, e, l + 1) /\ e.kind # "task" /\ d.ss = e.ss
      /\ KeepsFlags(e, y) /\ Frame(e, Stack(d))
      /\ e.from.ss = n.ss /\ e.from.f = n.f /\ e.from.esp <= Esp(n) /\ e.ss.rpl <= n.ss.rpl
      /\ d.f.nt => n.f.nt
      /\ Agree(d.stack, n.stack, t, n.ss.rpl, n.ss, Esp(n))
  BY DEF EntersTask
<1>3. y.ss = d.ss /\ y.f = d.f
  BY DEF Context
<1> HIDE DEF c, x, y, l
<1>4. e.from.esp \in Nat
  BY <1>2, EntryTypes
<1>5. Frame(e, d.stack[e.ss.index])
  BY <1>2 DEF Stack
<1>6. IsHistory(t, Append(x, e), y, d.stack)
  <2>1. /\ e.from.ss = c.ss /\ e.from.f = c.f /\ e.from.esp <= c.esp /\ e.ss.rpl <= c.ss.rpl
        /\ Agree(d.stack, n.stack, t, c.ss.rpl, c.ss, c.esp) /\ c.esp \in Nat
    BY <1>1, <1>2
  <2>2. y.ss = e.ss /\ IsEntry(t, e, Len(x) + 1)
    BY <1>2, <1>3 DEF l
  <2> QED BY <1>1, <1>2, <1>4, <1>5, <2>1, <2>2, HistoryGrows
<1>7. \A i \in 1 .. Len(Append(x, e)) : IsLinked(n, t, Append(x, e)[i])
  <2>1. IsLinked(n, t, e)
    BY <1>1, <1>2 DEF IsLinked
  <2>2. /\ Len(x) \in Nat /\ Len(Append(x, e)) = Len(x) + 1 /\ Append(x, e)[Len(x) + 1] = e
        /\ \A i \in 1 .. Len(x) : Append(x, e)[i] = x[i]
    BY <1>1, Longer
  <2> QED BY <1>1, <2>1, <2>2
<1>8. Running(d, [us EXCEPT ![t] = Append(x, e)])
  <2>1. d.f.nt => n.link[t] # t
    BY <1>1, <1>2
  <2> QED BY <1>6, <1>7, <2>1, TaskChanges DEF y
<1>9. AllKeep(n, us) /\ (e.kind = "call" => d.f.nt = n.f.nt) => AllKeep(d, [us EXCEPT ![t] = Append(x, e)])
  <2> SUFFICES ASSUME AllKeep(n, us), e.kind = "call" => d.f.nt = n.f.nt
               PROVE AllKeep(d, [us EXCEPT ![t] = Append(x, e)])
    OBVIOUS
  <2>1. KeepsTasks(x, c)
    BY <1>1 DEF AllKeep, ContextIn, c, x
  <2>2. e.from.f.nt = c.f.nt /\ (e.kind = "call" => y.f.nt = e.from.f.nt)
    BY <1>1, <1>2, <1>3
  <2>3. KeepsTasks(Append(x, e), y)
    BY <1>1, <1>2, <2>1, <2>2, KeepsGrow
  <2> QED BY <2>3, TasksChange DEF y
<1> QED BY <1>8, <1>9 DEF x

\* d is n, returned from e.
ReturnsTo(n, d, e) ==
    /\ e.kind # "task" /\ Esp(n) = e.esp /\ d.ss = e.from.ss /\ Esp(d) = e.from.esp
    /\ d.f.if = e.from.f.if /\ d.f.vm = e.from.f.vm /\ (d.f.nt => e.from.f.nt)
    /\ Agree(d.stack, n.stack, n.tr, d.ss.rpl, d.ss, Esp(d))

LEMMA ReturnsIs ==
    ASSUME NEW n, NEW us, Running(n, us), NEW d, IsMachine(d), SameTasks(d, n), SameElsewhere(d, n),
           us[n.tr] # <<>>, NEW e, e = Last(us[n.tr]), ReturnsTo(n, d, e)
    PROVE  /\ Running(d, [us EXCEPT ![n.tr] = Front(us[n.tr])])
           /\ AllKeep(n, us) /\ d.f.nt = e.from.f.nt =>
                 AllKeep(d, [us EXCEPT ![n.tr] = Front(us[n.tr])])
<1> DEFINE t == n.tr
           c == Context(n)
           y == Context(d)
           x == us[t]
<1>1. /\ t \in DOMAIN Tasks /\ c.ss = n.ss /\ c.f = n.f /\ c.esp = Esp(n) /\ Esp(n) \in Nat
      /\ IsHistory(t, x, c, n.stack) /\ IsSeq(x)
      /\ n.f.nt => n.link[t] # t
      /\ \A i \in 1 .. Len(x) : IsLinked(n, t, x[i])
  BY Current
<1>2. /\ e.kind # "task" /\ Esp(n) = e.esp /\ d.ss = e.from.ss /\ Esp(d) = e.from.esp
      /\ d.f.if = e.from.f.if /\ d.f.vm = e.from.f.vm /\ (d.f.nt => e.from.f.nt)
      /\ Agree(d.stack, n.stack, t, d.ss.rpl, d.ss, Esp(d))
  BY DEF ReturnsTo
<1>3. y.ss = d.ss /\ y.f = d.f /\ y.esp = Esp(d)
  BY DEF Context
<1> HIDE DEF c, x, y
<1>4. x # <<>> /\ e = Last(x)
  BY DEF x
<1>5. IsHistory(t, Front(x), y, d.stack)
  <2>1. /\ c.esp = Last(x).esp /\ y.ss = Last(x).from.ss /\ y.esp = Last(x).from.esp
        /\ y.f.if = Last(x).from.f.if /\ y.f.vm = Last(x).from.f.vm
        /\ (y.f.nt => Last(x).from.f.nt) /\ Last(x).kind # "task"
        /\ Agree(d.stack, n.stack, t, y.ss.rpl, y.ss, y.esp)
    BY <1>1, <1>2, <1>3, <1>4
  <2> QED BY <1>1, <1>4, <2>1, HistoryShrinks
<1>6. /\ Len(x) \in Nat \ {0} /\ Len(Front(x)) = Len(x) - 1 /\ Last(x) = x[Len(x)]
      /\ \A i \in 1 .. Len(x) - 1 : Front(x)[i] = x[i]
  BY <1>1, <1>4, Shorter
<1>7. \A i \in 1 .. Len(Front(x)) : IsLinked(n, t, Front(x)[i])
  BY <1>1, <1>6
<1>8. d.f.nt => n.link[t] # t
  <2>1. IsLinked(n, t, e)
    BY <1>1, <1>4, <1>6
  <2> QED BY <1>2, <2>1 DEF IsLinked
<1>9. Running(d, [us EXCEPT ![t] = Front(x)])
  BY <1>5, <1>7, <1>8, TaskChanges DEF y
<1>10. AllKeep(n, us) /\ d.f.nt = e.from.f.nt => AllKeep(d, [us EXCEPT ![t] = Front(x)])
  <2> SUFFICES ASSUME AllKeep(n, us), d.f.nt = e.from.f.nt PROVE AllKeep(d, [us EXCEPT ![t] = Front(x)])
    OBVIOUS
  <2>1. KeepsTasks(x, c)
    BY <1>1 DEF AllKeep, ContextIn, c, x
  <2>2. y.f.nt = Last(x).from.f.nt
    BY <1>3, <1>4
  <2>3. KeepsTasks(Front(x), y)
    BY <1>1, <1>4, <2>1, <2>2, KeepsShrink
  <2> QED BY <2>3, TasksChange DEF y
<1> QED BY <1>9, <1>10 DEF x

-----------------------------------------------------------------------------
(* From one task to another. *)

\* d is n after a switch to task u.
SwitchesTo(n, d, u) ==
    LET c == n.tss[u]
    IN  /\ IsMachine(d) /\ d.tr = u /\ d.exception_pending = n.exception_pending
        /\ d.tss = [t \in DOMAIN Tasks \ {u} |-> ContextIn(n, t)]
        /\ Context(d) = [c EXCEPT !.f = [c.f EXCEPT !.nt = d.f.nt]]
        /\ SameWords(d.stack[c.ss.index], n.stack[c.ss.index], c.esp)
        /\ \A y \in StackNames : y # c.ss.index => d.stack[y] = n.stack[y]

LEMMA SwitchIs ==
    ASSUME NEW n, NEW us, Running(n, us), NEW task, task.index \in DOMAIN Tasks \ {n.tr},
           NEW call \in BOOLEAN
    PROVE  LET d == TaskSwitched(n, task, call, ~ call, <<>>)
               u == task.index
           IN  /\ SwitchesTo(n, d, u) /\ d.f.nt = call
               /\ d.busy = BusyAfter(n, u, call) /\ d.link = [n.link EXCEPT ![u] = IF call THEN n.tr ELSE @]
<1> DEFINE u == task.index
           new == n.tss[u]
           f == [new.f EXCEPT !.nt = call]
           tss == [t \in DOMAIN Tasks \ {u} |-> ContextIn(n, t)]
           busy == BusyAfter(n, u, call)
           link == [n.link EXCEPT ![u] = IF call THEN n.tr ELSE @]
           loaded == [n EXCEPT !.tss = tss, !.tr = u, !.busy = busy, !.link = link, !.f = f,
                               !.cs = new.cs, !.ss = new.ss, !.ds = new.ds, !.cpl = new.cs.rpl,
                               !.ip = new.ip]
           d == Push(WithEsp(loaded, new.esp), <<>>)
<1>1. /\ IsMachine(n) /\ n.tr \in DOMAIN Tasks /\ Nested(n)
      /\ IsContext(new) /\ new.ss \in StacksOf(u)
  <2>1. IsMachine(n) /\ Nested(n) /\ GoodTask(n, us, u)
    BY DEF Running
  <2>2. new = ContextIn(n, u)
    BY DEF ContextIn
  <2> QED BY <2>1, <2>2 DEF GoodTask, Nested
<1>2. TaskSwitched(n, task, call, ~ call, <<>>) = d
  <2> DEFINE f0 == [new.f EXCEPT !.nt = call \/ (~ (~ call) /\ @)]
             tss0 == [t \in DOMAIN Tasks \ {u} |-> IF t = n.tr THEN Context(n) ELSE n.tss[t]]
             loaded0 == [n EXCEPT !.tss = tss0, !.tr = u, !.busy = busy, !.link = link, !.f = f0,
                                  !.cs = new.cs, !.ss = new.ss, !.ds = new.ds, !.cpl = new.cs.rpl,
                                  !.ip = new.ip]
  <2>1. (call \/ (~ (~ call) /\ new.f.nt)) = call
    OBVIOUS
  <2>2. f0 = f
    BY <2>1
  <2>3. tss0 = tss
    BY DEF ContextIn
  <2>4. TaskSwitched(n, task, call, ~ call, <<>>) = Push(WithEsp(loaded0, new.esp), <<>>)
    BY DEF TaskSwitched
  <2> HIDE DEF f0, f, tss0, tss, busy, link
  <2>5. loaded0 = loaded
    BY <2>2, <2>3
  <2> HIDE DEF loaded0, loaded
  <2> QED BY <2>4, <2>5
<1>3. /\ n = [x \in Fields |-> n[x]] /\ n.reset = FALSE /\ n.exception_pending \in BOOLEAN /\ n.idt \in Idts
      /\ n.stack = [y \in StackNames |-> n.stack[y]] /\ \A y \in StackNames : IsSeq(n.stack[y])
      /\ n.busy \in [DOMAIN Tasks -> BOOLEAN] /\ n.link \in [DOMAIN Tasks -> DOMAIN Tasks]
  BY <1>1 DEF IsMachine, HasStacks
<1>4. busy \in [DOMAIN Tasks -> BOOLEAN]
  BY <1>3 DEF BusyAfter
<1>5. link \in [DOMAIN Tasks -> DOMAIN Tasks]
  BY <1>1, <1>3
<1>6. /\ new = [ip |-> new.ip, f |-> new.f, cs |-> new.cs, ss |-> new.ss, ds |-> new.ds, esp |-> new.esp]
      /\ new.f \in [if : BOOLEAN, nt : BOOLEAN, vm : BOOLEAN] /\ new.esp \in Nat
      /\ IF new.f.vm THEN {new.cs, new.ss, new.ds} = {Real} ELSE Fit(new.cs, new.ss, new.ds)
  BY <1>1 DEF IsContext
<1>7. tss = [t \in DOMAIN Tasks \ {u} |-> tss[t]]
  OBVIOUS
<1>8. f \in [if : BOOLEAN, nt : BOOLEAN, vm : BOOLEAN] /\ f.vm = new.f.vm /\ f.nt = call
  BY <1>6
<1> HIDE DEF f, tss, busy, link, new
<1>9. /\ loaded = [x \in Fields |-> loaded[x]]
      /\ loaded.tss = tss /\ loaded.tr = u /\ loaded.busy = busy /\ loaded.link = link
      /\ loaded.f = f /\ loaded.cs = new.cs /\ loaded.ss = new.ss /\ loaded.ds = new.ds
      /\ loaded.cpl = new.cs.rpl /\ loaded.ip = new.ip
      /\ loaded.stack = n.stack /\ loaded.reset = n.reset /\ loaded.idt = n.idt
      /\ loaded.exception_pending = n.exception_pending
  BY <1>3 DEF Fields
<1> HIDE DEF loaded
<1>10. HasStacks(loaded)
  BY <1>1, <1>3, <1>9 DEF HasStacks
<1> DEFINE cut == WithEsp(loaded, new.esp)
<1>11. /\ HasStacks(cut) /\ SameRest(cut, loaded) /\ SameRegisters(cut, loaded)
       /\ Esp(cut) = new.esp /\ SameWords(Stack(cut), Stack(loaded), new.esp)
       /\ \A y \in StackNames : y # loaded.ss.index => cut.stack[y] = loaded.stack[y]
  BY <1>6, <1>10, CutIs
<1> HIDE DEF cut
<1>12. IsSeq(<<>>)
  BY EmptySeq DEF IsSeq
<1>13. /\ HasStacks(d) /\ SameRest(d, cut) /\ SameRegisters(d, cut)
       /\ Stack(d) = Stack(cut) \o <<>>
       /\ \A y \in StackNames : y # cut.ss.index => d.stack[y] = cut.stack[y]
  BY <1>11, <1>12, PushIs DEF cut
<1> HIDE DEF d
<1>14. /\ d.tss = tss /\ d.tr = u /\ d.busy = busy /\ d.link = link
       /\ d.f = f /\ d.cs = new.cs /\ d.ss = new.ss /\ d.ds = new.ds
       /\ d.cpl = new.cs.rpl /\ d.ip = new.ip /\ d.reset = FALSE /\ d.idt = n.idt
       /\ d.exception_pending = n.exception_pending
  BY <1>3, <1>9, <1>11, <1>13 DEF SameRest, SameRegisters
<1>15. cut.ss = new.ss /\ loaded.ss = new.ss
  BY <1>9, <1>11 DEF SameRegisters
<1>16. Stack(d) = Stack(cut)
  <2>1. IsSeq(Stack(cut))
    <3>1. new.ss.index \in StackNames
      BY <1>1, StackOf
    <3> QED BY <1>11, <1>15, <3>1 DEF HasStacks, Stack
  <2> QED BY <1>12, <1>13, <2>1, JoinMany
<1>17. Esp(d) = new.esp /\ SameWords(Stack(d), n.stack[new.ss.index], new.esp)
  BY <1>9, <1>11, <1>15, <1>16 DEF Esp, Stack
<1>18. \A y \in StackNames : y # new.ss.index => d.stack[y] = n.stack[y]
  BY <1>9, <1>11, <1>13, <1>15
<1>19. /\ IF d.f.vm THEN d.cs = Real /\ d.ss = Real /\ d.ds = Real ELSE Fit(d.cs, d.ss, d.ds)
       /\ d.cpl = IF d.f.vm THEN 3 ELSE d.cs.rpl
  <2>1. CASE new.f.vm
    <3>1. new.cs = Real /\ new.ss = Real /\ new.ds = Real
      BY <1>6, <2>1
    <3>2. Real.rpl = 3
      BY DEF Real, Sel
    <3> QED BY <1>8, <1>14, <2>1, <3>1, <3>2
  <2>2. CASE ~ new.f.vm
    BY <1>6, <1>8, <1>14, <2>2
  <2> QED BY <2>1, <2>2
<1>20. d.tss = [t \in DOMAIN Tasks \ {d.tr} |-> d.tss[t]]
  BY <1>7, <1>14
<1>21. IsMachine(d)
  BY <1>3, <1>4, <1>5, <1>8, <1>13, <1>14, <1>19, <1>20 DEF IsMachine
<1>22. Context(d) = [new EXCEPT !.f = f] /\ d.f.nt = call
  <2>1. Context(d) = [ip |-> new.ip, f |-> f, cs |-> new.cs, ss |-> new.ss, ds |-> new.ds, esp |-> new.esp]
    BY <1>14, <1>17 DEF Context
  <2> QED BY <1>6, <1>8, <1>14, <2>1
<1>23. SwitchesTo(n, d, u)
  <2>1. SameWords(d.stack[new.ss.index], n.stack[new.ss.index], new.esp)
    BY <1>14, <1>17 DEF Stack
  <2> QED BY <1>14, <1>18, <1>21, <1>22, <2>1 DEF SwitchesTo, new, f, tss
<1> QED BY <1>2, <1>14, <1>22, <1>23 DEF d, busy, link

LEMMA OtherTask ==
    ASSUME NEW n, NEW us, Running(n, us), NEW u \in DOMAIN Tasks \ {n.tr}, NEW d,
           SwitchesTo(n, d, u), NEW t \in DOMAIN Tasks \ {u}
    PROVE  LET c == ContextIn(n, t)
           IN  /\ ContextIn(d, t) = c /\ IsContext(c) /\ c.ss \in StacksOf(t)
               /\ IsHistory(t, us[t], c, d.stack)
<1> DEFINE c == ContextIn(n, t)
<1>1. GoodTask(n, us, t) /\ GoodTask(n, us, u)
  BY DEF Running
<1>2. n.tss[u].ss \in StacksOf(u)
  BY <1>1 DEF GoodTask, ContextIn
<1>3. IsContext(c) /\ c.ss \in StacksOf(t) /\ IsHistory(t, us[t], c, n.stack)
  BY <1>1 DEF GoodTask
<1>4. /\ d.tr = u /\ d.tss = [x \in DOMAIN Tasks \ {u} |-> ContextIn(n, x)]
      /\ \A y \in StackNames : y # n.tss[u].ss.index => d.stack[y] = n.stack[y]
  BY DEF SwitchesTo
<1>5. ContextIn(d, t) = c
  BY <1>4 DEF ContextIn
<1> HIDE DEF c
<1>6. ASSUME NEW y \in StacksOf(t) PROVE d.stack[y.index] = n.stack[y.index]
  <2>1. y.index \in StackNames /\ y.index # n.tss[u].ss.index
    BY <1>2, StackOf, StacksDiffer
  <2> QED BY <1>4, <2>1
<1>7. Agree(d.stack, n.stack, t, 0, c.ss, c.esp)
  BY <1>6 DEF Agree, SameWords
<1>8. c.esp \in Nat /\ c.esp <= c.esp
  BY <1>3 DEF IsContext
<1>9. IsHistory(t, us[t], c, d.stack)
  BY <1>3, <1>7, <1>8, HistoryStays
<1> QED BY <1>3, <1>5, <1>9 DEF c

LEMMA NewTask ==
    ASSUME NEW n, NEW us, Running(n, us), NEW u \in DOMAIN Tasks \ {n.tr}, NEW d,
           SwitchesTo(n, d, u)
    PROVE  LET c == n.tss[u]
               x == Context(d)
           IN  /\ ContextIn(d, u) = x /\ IsContext(x) /\ x.ss \in StacksOf(u) /\ x.f.nt = d.f.nt
               /\ d.ss = x.ss /\ d.f = x.f /\ GoodTask(n, us, u) /\ c = ContextIn(n, u)
               /\ (c.f.nt = x.f.nt => x = c)
               /\ (x.f.nt => c.f.nt) => IsHistory(u, us[u], x, d.stack)
<1> DEFINE c == n.tss[u]
           x == Context(d)
<1>1. GoodTask(n, us, u)
  BY DEF Running
<1>2. c = ContextIn(n, u)
  BY DEF ContextIn
<1>3. IsContext(c) /\ c.ss \in StacksOf(u) /\ IsHistory(u, us[u], c, n.stack)
  BY <1>1, <1>2 DEF GoodTask
<1>4. /\ IsMachine(d) /\ d.tr = u /\ x = [c EXCEPT !.f = [c.f EXCEPT !.nt = d.f.nt]]
      /\ SameWords(d.stack[c.ss.index], n.stack[c.ss.index], c.esp)
      /\ \A y \in StackNames : y # c.ss.index => d.stack[y] = n.stack[y]
  BY DEF SwitchesTo
<1>5. ContextIn(d, u) = x
  BY <1>4 DEF ContextIn
<1>6. d.ss = x.ss /\ d.f = x.f
  BY DEF Context
<1>7. IsContext(x)
  BY <1>4, MachineTypes
<1> HIDE DEF x, c
<1>8. /\ c = [ip |-> c.ip, f |-> c.f, cs |-> c.cs, ss |-> c.ss, ds |-> c.ds, esp |-> c.esp]
      /\ c.f \in [if : BOOLEAN, nt : BOOLEAN, vm : BOOLEAN] /\ c.esp \in Nat
  BY <1>3 DEF IsContext
<1>9. x.ss = c.ss /\ x.esp = c.esp /\ x.f.nt = d.f.nt /\ x.f.if = c.f.if /\ x.f.vm = c.f.vm
  BY <1>4, <1>8
<1>10. c.f.nt = x.f.nt => x = c
  <2> SUFFICES ASSUME c.f.nt = x.f.nt PROVE x = c
    OBVIOUS
  <2>1. [c.f EXCEPT !.nt = d.f.nt] = c.f
    BY <1>8, <1>9
  <2> QED BY <1>4, <1>8, <2>1
<1>11. Agree(d.stack, n.stack, u, 0, x.ss, x.esp)
  <2>1. ASSUME NEW y \in StacksOf(u), y # x.ss PROVE d.stack[y.index] = n.stack[y.index]
    <3>1. y.index \in StackNames /\ y.index # c.ss.index
      BY <1>3, <1>9, <2>1, StackOf, StacksDiffer
    <3> QED BY <1>4, <3>1
  <2> QED BY <1>4, <1>9, <2>1 DEF Agree
<1>12. (x.f.nt => c.f.nt) => IsHistory(u, us[u], x, d.stack)
  <2> SUFFICES ASSUME x.f.nt => c.f.nt PROVE IsHistory(u, us[u], x, d.stack)
    OBVIOUS
  <2>2. x.esp \in Nat /\ x.esp <= c.esp
    BY <1>8, <1>9
  <2> QED BY <1>3, <1>8, <1>9, <1>11, <2>2, HistoryStays
<1>13. x.ss \in StacksOf(u)
  BY <1>3, <1>9
<1> QED BY <1>1, <1>2, <1>5, <1>6, <1>7, <1>9, <1>10, <1>12, <1>13 DEF x, c

LEMMA NoHistory ==
    ASSUME NEW t, NEW c, NEW s
    PROVE  IsHistory(t, <<>>, c, s) /\ KeepsTasks(<<>>, c)
<1>1. IsSeq(<<>>)
  BY EmptySeq DEF IsSeq
<1>2. \A i \in 1 .. Len(<<>>) : FALSE
  OBVIOUS
<1>3. IsHistory(t, <<>>, c, s)
  BY <1>1, <1>2, Zenon DEF IsHistory
<1>4. KeepsTasks(<<>>, c)
  BY <1>2, Zenon DEF KeepsTasks
<1> QED BY <1>3, <1>4

\* A called task joins the chain of callers at its end.
LEMMA ChainGrows ==
    ASSUME NEW tr \in DOMAIN Tasks, NEW busy \in [DOMAIN Tasks -> BOOLEAN],
           NEW link \in [DOMAIN Tasks -> DOMAIN Tasks], IsChain(tr, busy, link),
           NEW u \in DOMAIN Tasks, ~ busy[u],
           NEW busy2, busy2 = [t \in DOMAIN Tasks |-> t = u \/ busy[t]],
           NEW link2, link2 = [link EXCEPT ![u] = tr]
    PROVE  IsChain(u, busy2, link2)
<1>1. /\ busy[tr] /\ \A t \in DOMAIN Tasks : busy[t] => busy[link[t]]
      /\ \A t \in DOMAIN Tasks : busy[t] /\ t # tr =>
            \E v \in DOMAIN Tasks \ {t} : busy[v] /\ link[v] = t
      /\ \A t \in DOMAIN Tasks : busy[t] /\ link[t] # t => link[t] # tr
      /\ \A t, v \in DOMAIN Tasks :
            busy[t] /\ busy[v] /\ link[t] # t /\ link[v] # v /\ link[t] = link[v] => t = v
  BY DEF IsChain
<1>2. /\ \A t \in DOMAIN Tasks : busy2[t] <=> t = u \/ busy[t]
      /\ \A t \in DOMAIN Tasks : link2[t] = IF t = u THEN tr ELSE link[t]
      /\ \A t \in DOMAIN Tasks : link[t] \in DOMAIN Tasks
      /\ u # tr
  BY <1>1
<1>3. busy2[u] /\ \A t \in DOMAIN Tasks : busy2[t] => busy2[link2[t]]
  BY <1>1, <1>2
<1>4. ASSUME NEW t \in DOMAIN Tasks, busy2[t], t # u
      PROVE  \E v \in DOMAIN Tasks \ {t} : busy2[v] /\ link2[v] = t
  <2>1. CASE t = tr
    <3>1. u \in DOMAIN Tasks \ {t} /\ busy2[u] /\ link2[u] = t
      BY <1>2, <2>1
    <3> QED BY <3>1
  <2>2. CASE t # tr
    <3>1. PICK v \in DOMAIN Tasks \ {t} : busy[v] /\ link[v] = t
      BY <1>1, <1>2, <1>4, <2>2
    <3>2. v # u
      BY <3>1
    <3> QED BY <1>2, <3>1, <3>2
  <2> QED BY <2>1, <2>2
<1>5. \A t \in DOMAIN Tasks : busy2[t] /\ link2[t] # t => link2[t] # u
  BY <1>1, <1>2
<1>6. \A t, v \in DOMAIN Tasks :
         busy2[t] /\ busy2[v] /\ link2[t] # t /\ link2[v] # v /\ link2[t] = link2[v] => t = v
  BY <1>1, <1>2
<1> QED BY <1>3, <1>4, <1>5, <1>6 DEF IsChain

\* A task that returns leaves the chain.
LEMMA ChainShrinks ==
    ASSUME NEW tr \in DOMAIN Tasks, NEW busy \in [DOMAIN Tasks -> BOOLEAN],
           NEW link \in [DOMAIN Tasks -> DOMAIN Tasks], IsChain(tr, busy, link),
           NEW u, u = link[tr], u # tr,
           NEW busy2, busy2 = [t \in DOMAIN Tasks |-> t = u \/ (busy[t] /\ t # tr)]
    PROVE  IsChain(u, busy2, link)
<1>1. /\ busy[tr] /\ \A t \in DOMAIN Tasks : busy[t] => busy[link[t]]
      /\ \A t \in DOMAIN Tasks : busy[t] /\ t # tr =>
            \E v \in DOMAIN Tasks \ {t} : busy[v] /\ link[v] = t
      /\ \A t \in DOMAIN Tasks : busy[t] /\ link[t] # t => link[t] # tr
      /\ \A t, v \in DOMAIN Tasks :
            busy[t] /\ busy[v] /\ link[t] # t /\ link[v] # v /\ link[t] = link[v] => t = v
  BY DEF IsChain
<1>2. /\ \A t \in DOMAIN Tasks : link[t] \in DOMAIN Tasks
      /\ \A t \in DOMAIN Tasks : busy2[t] <=> busy[t] /\ t # tr
  <2>1. \A t \in DOMAIN Tasks : link[t] \in DOMAIN Tasks
    OBVIOUS
  <2>2. busy[u]
    BY <1>1
  <2> QED BY <2>1, <2>2
<1>3. busy2[u] /\ \A t \in DOMAIN Tasks : busy2[t] => busy2[link[t]]
  BY <1>1, <1>2
<1>4. ASSUME NEW t \in DOMAIN Tasks, busy2[t], t # u
      PROVE  \E v \in DOMAIN Tasks \ {t} : busy2[v] /\ link[v] = t
  <2>1. PICK v \in DOMAIN Tasks \ {t} : busy[v] /\ link[v] = t
    BY <1>1, <1>2, <1>4
  <2>2. v # tr
    BY <1>4, <2>1
  <2> QED BY <1>2, <2>1, <2>2
<1>5. \A t \in DOMAIN Tasks : busy2[t] /\ link[t] # t => link[t] # u
  BY <1>1, <1>2
<1>6. \A t, v \in DOMAIN Tasks :
         busy2[t] /\ busy2[v] /\ link[t] # t /\ link[v] # v /\ link[t] = link[v] => t = v
  BY <1>1, <1>2
<1> QED BY <1>3, <1>4, <1>5, <1>6 DEF IsChain

TwoTasks == \A t, u, v \in DOMAIN Tasks : t = u \/ u = v \/ t = v

\* d is n after a call of task u, and after a return to it.
Called(n, d, u) ==
    /\ SwitchesTo(n, d, u) /\ d.f.nt = TRUE
    /\ d.busy = [t \in DOMAIN Tasks |-> t = u \/ n.busy[t]] /\ d.link = [n.link EXCEPT ![u] = n.tr]
Returned(n, d, u) ==
    /\ SwitchesTo(n, d, u) /\ d.f.nt = FALSE /\ d.link = n.link
    /\ d.busy = [t \in DOMAIN Tasks |-> t = u \/ (n.busy[t] /\ t # n.tr)]

IsTaskEntry(n, d, e) ==
    e = [kind |-> "task", from |-> Context(n), params |-> 0, intact |-> TRUE,
         ss |-> d.ss, esp |-> e.esp]

LEMMA TaskCalled ==
    ASSUME NEW n, NEW us, Running(n, us), NEW u \in DOMAIN Tasks, ~ n.busy[u],
           NEW d, Called(n, d, u), NEW e, IsTaskEntry(n, d, e)
    PROVE  /\ d.tr = u /\ u # n.tr /\ d.exception_pending = n.exception_pending /\ d.reset = FALSE
           /\ Running(d, [us EXCEPT ![u] = Append(@, e)])
           /\ AllKeep(n, us) /\ TwoTasks => AllKeep(d, [us EXCEPT ![u] = Append(@, e)])
<1> DEFINE vs == [us EXCEPT ![u] = Append(@, e)]
           x == Context(d)
<1>1. /\ IsMachine(n) /\ Nested(n) /\ us = [t \in DOMAIN Tasks |-> us[t]] /\ n.tr \in DOMAIN Tasks
      /\ n.busy \in [DOMAIN Tasks -> BOOLEAN] /\ n.link \in [DOMAIN Tasks -> DOMAIN Tasks]
      /\ IsChain(n.tr, n.busy, n.link)
  BY DEF Running, Nested
<1>2. n.busy[n.tr] /\ u \in DOMAIN Tasks \ {n.tr}
  BY <1>1 DEF IsChain
<1>4. /\ SwitchesTo(n, d, u) /\ d.f.nt = TRUE /\ d.link = [n.link EXCEPT ![u] = n.tr]
      /\ d.busy = [t \in DOMAIN Tasks |-> t = u \/ n.busy[t]]
  BY DEF Called
<1>5. /\ IsMachine(d) /\ d.tr = u /\ d.tss = [t \in DOMAIN Tasks \ {u} |-> ContextIn(n, t)]
      /\ d.exception_pending = n.exception_pending
  BY <1>4 DEF SwitchesTo
<1>6. d.busy = [t \in DOMAIN Tasks |-> t = u \/ n.busy[t]]
  BY <1>4
<1>7. Nested(d)
  <2>1. IsChain(u, [t \in DOMAIN Tasks |-> t = u \/ n.busy[t]], [n.link EXCEPT ![u] = n.tr])
    BY <1>1, ChainGrows
  <2>3. IsChain(u, d.busy, d.link)
    BY <1>4, <2>1
  <2>2. d.busy \in [DOMAIN Tasks -> BOOLEAN] /\ d.link \in [DOMAIN Tasks -> DOMAIN Tasks]
    BY <1>5 DEF IsMachine
  <2> QED BY <1>5, <2>2, <2>3 DEF Nested
<1>8. /\ ContextIn(d, u) = x /\ IsContext(x) /\ x.ss \in StacksOf(u) /\ x.f.nt = TRUE
      /\ d.ss = x.ss /\ GoodTask(n, us, u)
  <2>1. /\ ContextIn(d, u) = x /\ IsContext(x) /\ x.ss \in StacksOf(u) /\ x.f.nt = d.f.nt
        /\ d.ss = x.ss /\ GoodTask(n, us, u)
    BY <1>2, <1>4, NewTask
  <2> QED BY <1>4, <2>1
<1> HIDE DEF x
<1>9. us[u] = <<>>
  BY <1>8 DEF GoodTask
<1>10. /\ vs = [t \in DOMAIN Tasks |-> vs[t]] /\ vs[u] = Append(<<>>, e)
       /\ \A t \in DOMAIN Tasks \ {u} : vs[t] = us[t]
  BY <1>1, <1>9
<1> HIDE DEF vs
<1>11. /\ e.kind = "task" /\ e.from = Context(n) /\ e.intact = TRUE /\ e.params = 0 /\ e.ss = d.ss
       /\ e = [y \in {"kind", "from", "params", "intact", "ss", "esp"} |-> e[y]]
  BY DEF IsTaskEntry
<1>12. IsEntry(u, e, 1)
  <2>1. e.ss.rpl \in {0, 3} /\ e.params \in Nat
    BY <1>8, <1>11, StackOf
  <2>2. e.intact \in BOOLEAN
    BY <1>11
  <2> QED BY <1>11, <2>1, <2>2 DEF IsEntry
<1> DEFINE ss == <<>>
           s == d.stack
<1>13. IsHistory(u, ss, x, s) /\ KeepsTasks(ss, x) /\ Len(ss) + 1 = 1 /\ IsSeq(ss)
  BY NoHistory, EmptySeq DEF IsSeq
<1>14. vs[u] = Append(ss, e) /\ Len(vs[u]) = 1 /\ vs[u][1] = e
  <2>1. /\ Len(ss) \in Nat /\ Len(Append(ss, e)) = Len(ss) + 1 /\ Append(ss, e)[Len(ss) + 1] = e
    BY <1>13, Longer
  <2> QED BY <1>10, <1>13, <2>1
<1>15. ss = <<>>
  OBVIOUS
<1> HIDE DEF ss
<1>16. IsHistory(u, vs[u], x, s)
  <2>1. KeepsFlags(e, x)
    BY <1>11 DEF KeepsFlags
  <2>2. x.esp \in Nat /\ x.ss = e.ss /\ IsEntry(u, e, Len(ss) + 1)
    BY <1>8, <1>11, <1>12, <1>13 DEF IsContext
  <2>3. IsHistory(u, Append(ss, e), x, s)
    BY <1>2, <1>11, <1>13, <1>15, <2>1, <2>2, HistoryGrows
  <2> QED BY <1>14, <2>3
<1>17. d.link[u] = n.tr /\ \A t \in DOMAIN Tasks \ {u} : d.link[t] = n.link[t]
  BY <1>1, <1>2, <1>4
<1>18. GoodTask(d, vs, u)
  <2>1. d.tss[n.tr] = Context(n)
    BY <1>1, <1>2, <1>5 DEF ContextIn
  <2>2. IsLinked(d, u, e) /\ d.link[u] # u
    BY <1>2, <1>11, <1>17, <2>1 DEF IsLinked
  <2>3. d.busy[u]
    BY <1>6
  <2>4. \A i \in 1 .. Len(vs[u]) : IsLinked(d, u, vs[u][i])
    BY <1>14, <2>2
  <2> QED BY <1>8, <1>16, <2>2, <2>3, <2>4 DEF GoodTask
<1>19. ASSUME NEW t \in DOMAIN Tasks \ {u} PROVE GoodTask(d, vs, t) /\ ContextIn(d, t) = ContextIn(n, t)
  <2> DEFINE c == ContextIn(n, t)
  <2>1. /\ ContextIn(d, t) = c /\ IsContext(c) /\ c.ss \in StacksOf(t)
        /\ IsHistory(t, us[t], c, d.stack)
    BY <1>2, <1>4, OtherTask
  <2>2. GoodTask(n, us, t)
    BY DEF Running
  <2> HIDE DEF c
  <2>3. vs[t] = us[t] /\ d.link[t] = n.link[t] /\ (d.busy[t] <=> n.busy[t])
    BY <1>6, <1>10, <1>17
  <2>4. CASE n.busy[t]
    <3>1. /\ c.f.nt => n.link[t] # t
          /\ \A i \in 1 .. Len(us[t]) : IsLinked(n, t, us[t][i])
      BY <2>2, <2>4 DEF GoodTask, c
    <3>2. ASSUME NEW i \in 1 .. Len(us[t]) PROVE IsLinked(d, t, us[t][i])
      <4>1. IsLinked(n, t, us[t][i])
        BY <3>1
      <4>2. n.link[t] # t => d.tss[n.link[t]] = n.tss[n.link[t]]
        <5> SUFFICES ASSUME n.link[t] # t PROVE d.tss[n.link[t]] = n.tss[n.link[t]]
          OBVIOUS
        <5>1. n.link[t] \in DOMAIN Tasks /\ n.link[t] # n.tr /\ n.busy[n.link[t]]
          BY <1>1, <2>4 DEF IsChain
        <5>2. n.link[t] \in DOMAIN Tasks \ {u}
          BY <5>1
        <5> QED BY <1>5, <5>1, <5>2 DEF ContextIn
      <4> QED BY <2>3, <4>1, <4>2 DEF IsLinked
    <3> QED BY <2>1, <2>3, <2>4, <3>1, <3>2 DEF GoodTask, c
  <2>5. CASE ~ n.busy[t]
    <3>1. us[t] = <<>>
      BY <2>2, <2>5 DEF GoodTask
    <3> QED BY <2>1, <2>3, <2>5, <3>1 DEF GoodTask, c
  <2> QED BY <2>1, <2>4, <2>5 DEF c
<1>20. Running(d, vs)
  BY <1>5, <1>7, <1>10, <1>18, <1>19 DEF Running
<1>21. AllKeep(n, us) /\ TwoTasks => AllKeep(d, vs)
  <2> SUFFICES ASSUME AllKeep(n, us), TwoTasks PROVE AllKeep(d, vs)
    OBVIOUS
  <2>1. n.f.nt = FALSE
    <3>1. n.f.nt \in BOOLEAN
      BY <1>1, MachineTypes
    <3>2. n.f.nt => n.link[n.tr] # n.tr
      BY Current
    <3>3. n.busy[n.link[n.tr]] /\ n.link[n.tr] \in DOMAIN Tasks
      BY <1>1, <1>2 DEF IsChain
    <3>4. n.link[n.tr] # n.tr => FALSE
      BY <1>1, <1>2, <3>3 DEF TwoTasks
    <3> QED BY <3>1, <3>2, <3>4
  <2>2. e.from.f.nt = FALSE
    BY <1>11, <2>1 DEF Context
  <2>3. KeepsTasks(vs[u], x)
    <3>1. IF e.kind = "task" THEN e.from.f.nt = FALSE ELSE e.kind = "call" => x.f.nt = e.from.f.nt
      BY <1>11, <2>2
    <3>2. KeepsTasks(Append(ss, e), x)
      BY <1>13, <1>15, <3>1, KeepsGrow
    <3> QED BY <1>14, <3>2
  <2>4. ASSUME NEW t \in DOMAIN Tasks PROVE KeepsTasks(vs[t], ContextIn(d, t))
    <3>1. CASE t = u
      BY <1>8, <2>3, <3>1
    <3>2. CASE t # u
      BY <1>10, <1>19, <3>2 DEF AllKeep
    <3> QED BY <3>1, <3>2
  <2> QED BY <2>4 DEF AllKeep
<1>22. d.reset = FALSE
  BY <1>5 DEF IsMachine
<1> QED BY <1>2, <1>5, <1>20, <1>21, <1>22 DEF vs

Resumes(d, e) == Context(d) = e.from

LEMMA TaskReturned ==
    ASSUME NEW n, NEW us, Running(n, us), n.f.nt, us[n.tr] # <<>>,
           NEW e, e = Last(us[n.tr]), e.kind = "task", NEW d, Returned(n, d, n.link[n.tr])
    PROVE  /\ d.exception_pending = n.exception_pending /\ d.reset = FALSE
           /\ Running(d, [us EXCEPT ![n.tr] = Front(@)])
           /\ AllKeep(n, us) => /\ AllKeep(d, [us EXCEPT ![n.tr] = Front(@)])
                                /\ Resumes(d, e)
<1> DEFINE vs == [us EXCEPT ![n.tr] = Front(@)]
           x == Context(d)
           u == n.link[n.tr]
<1>1. /\ IsMachine(n) /\ Nested(n) /\ us = [t \in DOMAIN Tasks |-> us[t]] /\ n.tr \in DOMAIN Tasks
      /\ n.busy \in [DOMAIN Tasks -> BOOLEAN] /\ n.link \in [DOMAIN Tasks -> DOMAIN Tasks]
      /\ IsChain(n.tr, n.busy, n.link)
  BY DEF Running, Nested
<1>2. /\ IsHistory(n.tr, us[n.tr], Context(n), n.stack) /\ IsSeq(us[n.tr])
      /\ n.f.nt => u # n.tr
      /\ \A i \in 1 .. Len(us[n.tr]) : IsLinked(n, n.tr, us[n.tr][i])
  BY Current
<1>3. n.busy[n.tr] /\ n.busy[u] /\ u \in DOMAIN Tasks \ {n.tr}
  BY <1>1, <1>2 DEF IsChain
<1>4. /\ Len(us[n.tr]) \in Nat \ {0} /\ e = us[n.tr][Len(us[n.tr])]
      /\ IsSeq(Front(us[n.tr])) /\ Len(Front(us[n.tr])) = Len(us[n.tr]) - 1
  BY <1>2, Shorter
<1>5. IsEntry(n.tr, e, Len(us[n.tr])) /\ IsLinked(n, n.tr, e)
  BY <1>2, <1>4 DEF IsHistory
<1>6. Len(us[n.tr]) = 1 /\ e.from = n.tss[u]
  BY <1>5 DEF IsEntry, IsLinked
<1>7. Front(us[n.tr]) = <<>>
  <2>1. Len(Front(us[n.tr])) = 0
    BY <1>4, <1>6
  <2>2. PICK S : Front(us[n.tr]) \in Seq(S)
    BY <1>4 DEF IsSeq
  <2> QED BY <2>1, <2>2, EmptySeq
<1> HIDE DEF u
<1>9. /\ SwitchesTo(n, d, u) /\ d.f.nt = FALSE /\ d.link = n.link
      /\ d.busy = [t \in DOMAIN Tasks |-> t = u \/ (n.busy[t] /\ t # n.tr)]
  BY DEF Returned, u
<1>10. /\ IsMachine(d) /\ d.tr = u /\ d.tss = [t \in DOMAIN Tasks \ {u} |-> ContextIn(n, t)]
       /\ d.exception_pending = n.exception_pending
  BY <1>9 DEF SwitchesTo
<1>11. d.busy = [t \in DOMAIN Tasks |-> t = u \/ (n.busy[t] /\ t # n.tr)]
  BY <1>9
<1>12. Nested(d)
  <2>1. IsChain(u, d.busy, n.link)
    BY <1>1, <1>3, <1>11, ChainShrinks DEF u
  <2>2. d.busy \in [DOMAIN Tasks -> BOOLEAN] /\ d.link \in [DOMAIN Tasks -> DOMAIN Tasks]
    BY <1>10 DEF IsMachine
  <2>3. IsChain(d.tr, d.busy, d.link) /\ d.tr \in DOMAIN Tasks
    BY <1>3, <1>9, <1>10, <2>1
  <2> QED BY <2>2, <2>3 DEF Nested
<1>13. /\ ContextIn(d, u) = x /\ IsContext(x) /\ x.ss \in StacksOf(u) /\ x.f.nt = FALSE
       /\ GoodTask(n, us, u) /\ n.tss[u] = ContextIn(n, u)
       /\ (n.tss[u].f.nt = FALSE => x = n.tss[u])
       /\ IsHistory(u, us[u], x, d.stack)
  <2>1. /\ ContextIn(d, u) = x /\ IsContext(x) /\ x.ss \in StacksOf(u) /\ x.f.nt = d.f.nt
        /\ GoodTask(n, us, u) /\ n.tss[u] = ContextIn(n, u)
        /\ (n.tss[u].f.nt = x.f.nt => x = n.tss[u])
        /\ (x.f.nt => n.tss[u].f.nt) => IsHistory(u, us[u], x, d.stack)
    BY <1>3, <1>9, NewTask
  <2> QED BY <1>9, <2>1
<1> HIDE DEF x
<1>14. /\ vs = [t \in DOMAIN Tasks |-> vs[t]] /\ vs[n.tr] = <<>>
       /\ \A t \in DOMAIN Tasks \ {n.tr} : vs[t] = us[t]
  BY <1>1, <1>7
<1> HIDE DEF vs
<1>15. /\ \A t \in DOMAIN Tasks : n.link[t] \in DOMAIN Tasks
       /\ \A t \in DOMAIN Tasks : n.busy[t] /\ n.link[t] # t => n.link[t] # n.tr
       /\ \A t \in DOMAIN Tasks \ {n.tr} : n.busy[t] /\ n.link[t] # t => n.link[t] # u
  BY <1>1, <1>3 DEF IsChain, u
<1>16. ASSUME NEW t \in DOMAIN Tasks \ {n.tr}, n.busy[t], NEW y, IsLinked(n, t, y) PROVE IsLinked(d, t, y)
  <2>1. n.link[t] # t => d.tss[n.link[t]] = n.tss[n.link[t]]
    <3> SUFFICES ASSUME n.link[t] # t PROVE d.tss[n.link[t]] = n.tss[n.link[t]]
      OBVIOUS
    <3>1. n.link[t] \in DOMAIN Tasks \ {u} /\ n.link[t] # n.tr
      BY <1>15, <1>16
    <3> QED BY <1>10, <3>1 DEF ContextIn
  <2> QED BY <1>9, <1>16, <2>1 DEF IsLinked
<1>17. GoodTask(d, vs, u)
  <2>1. vs[u] = us[u] /\ d.busy[u]
    BY <1>3, <1>11, <1>14
  <2>2. \A i \in 1 .. Len(us[u]) : IsLinked(n, u, us[u][i])
    BY <1>3, <1>13 DEF GoodTask
  <2>3. \A i \in 1 .. Len(us[u]) : IsLinked(d, u, us[u][i])
    BY <1>3, <1>16, <2>2
  <2> QED BY <1>13, <2>1, <2>3 DEF GoodTask
<1>18. ASSUME NEW t \in DOMAIN Tasks \ {u} PROVE GoodTask(d, vs, t) /\ ContextIn(d, t) = ContextIn(n, t)
  <2> DEFINE c == ContextIn(n, t)
  <2>1. /\ ContextIn(d, t) = c /\ IsContext(c) /\ c.ss \in StacksOf(t)
        /\ IsHistory(t, us[t], c, d.stack)
    BY <1>3, <1>9, OtherTask
  <2>2. GoodTask(n, us, t)
    BY DEF Running
  <2> HIDE DEF c
  <2>3. CASE t = n.tr
    <3>1. vs[t] = <<>> /\ ~ d.busy[t]
      BY <1>3, <1>11, <1>14, <2>3
    <3>2. IsHistory(t, vs[t], c, d.stack)
      BY <3>1, NoHistory
    <3> QED BY <2>1, <3>1, <3>2 DEF GoodTask, c
  <2>4. CASE t # n.tr /\ n.busy[t]
    <3>1. /\ c.f.nt => n.link[t] # t
          /\ \A i \in 1 .. Len(us[t]) : IsLinked(n, t, us[t][i])
      BY <2>2, <2>4 DEF GoodTask, c
    <3>2. \A i \in 1 .. Len(us[t]) : IsLinked(d, t, us[t][i])
      BY <1>16, <2>4, <3>1
    <3>3. vs[t] = us[t] /\ d.busy[t] /\ d.link[t] = n.link[t]
      BY <1>9, <1>11, <1>14, <2>4
    <3> QED BY <2>1, <3>1, <3>2, <3>3 DEF GoodTask, c
  <2>5. CASE t # n.tr /\ ~ n.busy[t]
    <3>1. us[t] = <<>>
      BY <2>2, <2>5 DEF GoodTask
    <3>2. vs[t] = us[t] /\ ~ d.busy[t]
      BY <1>11, <1>14, <2>5
    <3> QED BY <2>1, <3>1, <3>2 DEF GoodTask, c
  <2> QED BY <2>1, <2>3, <2>4, <2>5 DEF c
<1>19. Running(d, vs)
  BY <1>10, <1>12, <1>14, <1>17, <1>18 DEF Running
<1>20. AllKeep(n, us) => AllKeep(d, vs) /\ x = e.from
  <2> SUFFICES ASSUME AllKeep(n, us) PROVE AllKeep(d, vs) /\ x = e.from
    OBVIOUS
  <2>1. e.from.f.nt = FALSE
    <3>1. KeepsTasks(us[n.tr], ContextIn(n, n.tr))
      BY <1>1 DEF AllKeep
    <3>2. 1 \in 1 .. Len(us[n.tr]) /\ us[n.tr][1] = e
      BY <1>4, <1>6
    <3> QED BY <3>1, <3>2 DEF KeepsTasks
  <2>2. x = n.tss[u]
    BY <1>6, <1>13, <2>1
  <2>3. ASSUME NEW t \in DOMAIN Tasks PROVE KeepsTasks(vs[t], ContextIn(d, t))
    <3>1. CASE t = n.tr
      BY <1>14, <3>1, NoHistory
    <3>2. CASE t = u
      <4>1. KeepsTasks(us[u], x) /\ vs[u] = us[u]
        BY <1>3, <1>13, <1>14, <2>2 DEF AllKeep
      <4> QED BY <1>13, <3>2, <4>1
    <3>3. CASE t # n.tr /\ t # u
      BY <1>14, <1>18, <3>3 DEF AllKeep
    <3> QED BY <3>1, <3>2, <3>3
  <2> QED BY <1>6, <2>2, <2>3 DEF AllKeep
<1>21. d.reset = FALSE
  BY <1>10 DEF IsMachine
<1>22. x = e.from <=> Resumes(d, e)
  BY DEF Resumes, x
<1> QED BY <1>10, <1>19, <1>20, <1>21, <1>22 DEF vs

-----------------------------------------------------------------------------
(* Instructions. *)

\* b is n, but perhaps for the instruction and whether it faulted.
Like(b, n) ==
    /\ b = [x \in Fields |-> b[x]] /\ b.exception_pending \in BOOLEAN
    /\ b.f = n.f /\ b.cs = n.cs /\ b.ss = n.ss /\ b.ds = n.ds /\ b.cpl = n.cpl /\ b.stack = n.stack
    /\ b.tr = n.tr /\ b.busy = n.busy /\ b.tss = n.tss /\ b.link = n.link /\ b.idt = n.idt
    /\ b.reset = n.reset

LEMMA LikeRuns ==
    ASSUME NEW n, NEW us, Running(n, us), NEW b, Like(b, n)
    PROVE  /\ IsMachine(b) /\ Running(b, us) /\ Stack(b) = Stack(n) /\ Esp(b) = Esp(n)
           /\ AllKeep(n, us) => AllKeep(b, us)
<1>1. /\ b = [x \in Fields |-> b[x]] /\ b.exception_pending \in BOOLEAN
      /\ b.f = n.f /\ b.cs = n.cs /\ b.ss = n.ss /\ b.ds = n.ds /\ b.cpl = n.cpl /\ b.stack = n.stack
      /\ b.tr = n.tr /\ b.busy = n.busy /\ b.tss = n.tss /\ b.link = n.link /\ b.idt = n.idt
      /\ b.reset = n.reset
  BY DEF Like
<1>2. IsMachine(n)
  BY DEF Running
<1>3. HasStacks(b)
  BY <1>1, <1>2 DEF IsMachine, HasStacks
<1>4. IsMachine(b)
  BY <1>1, <1>2, <1>3 DEF IsMachine
<1>5. Stack(b) = Stack(n) /\ Esp(b) = Esp(n) /\ Esp(b) \in Nat
  BY <1>1, <1>4, MachineTypes DEF Stack, Esp
<1>6. SameTasks(b, n) /\ SameElsewhere(b, n) /\ Agree(b.stack, n.stack, n.tr, 0, b.ss, Esp(b))
  BY <1>1 DEF SameTasks, SameElsewhere, Agree, SameWords
<1>7. Esp(b) <= Esp(n)
  BY <1>5
<1> QED BY <1>1, <1>4, <1>5, <1>6, <1>7, Stays

LEMMA Finishes ==
    ASSUME NEW d, IsMachine(d)
    PROVE  LET x == Finished(d)
           IN  Like(x, d) /\ x.exception_pending = d.exception_pending /\ Context(x) = Context(d)
<1> DEFINE x == Finished(d)
<1>1. d = [y \in Fields |-> d[y]] /\ d.exception_pending \in BOOLEAN
  BY DEF IsMachine, HasStacks
<1>2. /\ x = [y \in Fields |-> x[y]] /\ x.exception_pending = d.exception_pending /\ x.ip = d.ip
      /\ x.f = d.f /\ x.cs = d.cs /\ x.ss = d.ss /\ x.ds = d.ds /\ x.cpl = d.cpl /\ x.stack = d.stack
      /\ x.tr = d.tr /\ x.busy = d.busy /\ x.tss = d.tss /\ x.link = d.link /\ x.idt = d.idt
      /\ x.reset = d.reset
  BY <1>1 DEF Finished, Fields
<1> HIDE DEF x
<1>3. Like(x, d)
  BY <1>1, <1>2 DEF Like
<1>4. Context(x) = Context(d)
  BY <1>2 DEF Context, Esp, Stack
<1> QED BY <1>2, <1>3, <1>4 DEF x

\* The instruction that is executed, and the fault that takes it back.
LEMMA Fetches ==
    ASSUME NEW us, Running(m, us)
    PROVE  LET n == Fetched
               b == AtFault(Fetched)
           IN  /\ Like(n, m) /\ n.exception_pending = FALSE
               /\ Like(b, m) /\ b.exception_pending = TRUE /\ b.ip = m.ip /\ Context(b) = Context(m)
<1> DEFINE n == Fetched
           b == AtFault(n)
<1>1. m = [y \in Fields |-> m[y]]
  BY DEF Running, IsMachine, HasStacks
<1>2. /\ n = [y \in Fields |-> n[y]] /\ n.exception_pending = FALSE /\ n.insn_ip = m.ip
      /\ n.f = m.f /\ n.cs = m.cs /\ n.ss = m.ss /\ n.ds = m.ds /\ n.cpl = m.cpl /\ n.stack = m.stack
      /\ n.tr = m.tr /\ n.busy = m.busy /\ n.tss = m.tss /\ n.link = m.link /\ n.idt = m.idt
      /\ n.reset = m.reset
  BY <1>1 DEF Fetched, Fields
<1> HIDE DEF n
<1>3. /\ b = [y \in Fields |-> b[y]] /\ b.exception_pending = TRUE /\ b.ip = m.ip
      /\ b.f = m.f /\ b.cs = m.cs /\ b.ss = m.ss /\ b.ds = m.ds /\ b.cpl = m.cpl /\ b.stack = m.stack
      /\ b.tr = m.tr /\ b.busy = m.busy /\ b.tss = m.tss /\ b.link = m.link /\ b.idt = m.idt
      /\ b.reset = m.reset
  BY <1>2 DEF AtFault, Fields
<1> HIDE DEF b
<1>4. Like(n, m) /\ Like(b, m)
  BY <1>2, <1>3 DEF Like
<1>5. Context(b) = Context(m)
  BY <1>3 DEF Context, Esp, Stack
<1> QED BY <1>2, <1>3, <1>4, <1>5 DEF n, b

LEMMA Raised ==
    ASSUME NEW n, IsMachine(AtFault(n)), NEW v \in Exceptions
    PROVE  LET b == AtFault(n)
               d == Raise(n, v)
           IN  \/ d = TripleFault(b)
               \/ \E err : IsError(err) /\ Interrupts(b, d, err) /\ d.f.if = FALSE
<1> DEFINE b == AtFault(n)
           d == Raise(n, v)
<1> HIDE DEF b
<1>0. IsMachine(b)
  BY DEF b
<1>1. ASSUME NEW w \in Exceptions, GateFault(b, w, FALSE) = "none", NEW err, IsError(err)
      PROVE  LET x == Delivered(b, w, err)
             IN  Interrupts(b, x, err) /\ x.f.if = FALSE
  <2> DEFINE x == Delivered(b, w, err)
  <2>1. IsSeq(err)
    <3>1. CASE err = <<>>
      BY <3>1, EmptySeq DEF IsSeq
    <3>2. ASSUME NEW y, err = <<[error |-> y]>> PROVE IsSeq(err)
      <4> DEFINE z == [error |-> y]
      <4>1. <<z>> \in Seq({z})
        OBVIOUS
      <4> QED BY <3>2, <4>1 DEF IsSeq
    <3> QED BY <1>1, <3>1, <3>2 DEF IsError
  <2>2. Interrupts(b, x, err) /\ (b.idt[w].type = "interrupt" => x.f.if = FALSE)
    BY <1>0, <1>1, <2>1, DeliveredIs
  <2>3. b.idt[w].type = "interrupt"
    BY <1>0, <1>1, GateLeads
  <2> QED BY <2>2, <2>3
<1>2. CASE GateFault(b, v, FALSE) = "none"
  <2> DEFINE err == IF v \in HasError THEN <<[error |-> v]>> ELSE <<>>
  <2>1. d = Delivered(b, v, err)
    BY <1>2 DEF Raise, b
  <2>2. IsError(err)
    BY DEF IsError
  <2> HIDE DEF err, d
  <2> QED BY <1>1, <1>2, <2>1, <2>2 DEF d, b
<1>3. CASE GateFault(b, v, FALSE) # "none"
  <2>1. d = DoubleFault(b)
    BY <1>3 DEF Raise, b
  <2>2. CASE GateFault(b, "DF", FALSE) = "none"
    <3> DEFINE err == <<[error |-> "DF"]>>
    <3>1. d = Delivered(b, "DF", err)
      BY <2>1, <2>2 DEF DoubleFault
    <3>2. IsError(err) /\ "DF" \in Exceptions
      BY DEF IsError, Exceptions
    <3> HIDE DEF err, d
    <3> QED BY <1>1, <2>2, <3>1, <3>2 DEF d, b
  <2>3. CASE GateFault(b, "DF", FALSE) # "none"
    BY <2>1, <2>3 DEF DoubleFault, d, b
  <2> QED BY <2>2, <2>3
<1> QED BY <1>2, <1>3

\* A processor that was not reset can return from everything it was left by.
IsGood(n, us) ==
    /\ Nested(n) /\ n.reset \in BOOLEAN
    /\ n.reset = FALSE => /\ Running(n, us)
                          /\ n.exception_pending => n.f.if = FALSE
                          /\ TwoTasks => AllKeep(n, us)

Restartable(n, d) ==
    d.exception_pending /\ ~ d.reset =>
        /\ Esp(d) >= 3
        /\ Described(d, n.f.vm \/ d.cpl # n.cpl) =
              [ip |-> n.ip, cs |-> n.cs, f |-> n.f, ss |-> n.ss, esp |-> Esp(n)]
Restores(us, d, vs) ==
    \A t \in DOMAIN us : Len(vs[t]) < Len(us[t]) /\ Last(us[t]).intact =>
        LET from == Last(us[t]).from
        IN  Left(d, Last(us[t]).kind = "task") = from
GoodStep(n, us, d, vs) ==
    IsGood(d, vs) /\ Restartable(n, d) /\ (TwoTasks => Restores(us, d, vs))

\* What an interrupt or exception, and a call, leave to return from.
InterruptEntryOf(b, d) ==
    [kind |-> "interrupt", from |-> Left(b, FALSE), params |-> 0, intact |-> TRUE,
     ss |-> d.ss, esp |-> Esp(d) - (IF HasErrorCode(d) THEN 1 ELSE 0)]
CallEntryOf(b, d, k) ==
    [kind |-> "call", from |-> [Left(b, FALSE) EXCEPT !.esp = @ - k], params |-> k, intact |-> TRUE,
     ss |-> d.ss, esp |-> Esp(d) - (IF HasErrorCode(d) THEN 1 ELSE 0)]

LEMMA EntersByInterrupt ==
    ASSUME NEW b, NEW us, Running(b, us), NEW d, NEW err, IsError(err), Interrupts(b, d, err)
    PROVE  LET vs == [us EXCEPT ![b.tr] = Append(@, InterruptEntryOf(b, d))]
           IN  /\ Running(d, vs) /\ (AllKeep(b, us) => AllKeep(d, vs))
               /\ d.exception_pending = b.exception_pending /\ d.tr = b.tr
<1> DEFINE e == InterruptEntryOf(b, d)
           i == Len(us[b.tr]) + 1
           w == InterruptWords(b, d.ss # b.ss) \o err
<1>1. IsMachine(b)
  BY DEF Running
<1>2. /\ IsSeq(err) /\ Pushes(b, d, w) /\ d.f.nt = FALSE
  BY DEF Interrupts
<1>3. IsMachine(d) /\ SameTasks(d, b) /\ d.exception_pending = b.exception_pending
  BY <1>2 DEF Pushes, SameRest, SameTasks
<1>4. IsSeq(w)
  BY <1>2, WordsAreSeq
<1> HIDE DEF w, i
<1>5. /\ d.tr = b.tr /\ d.ss.rpl <= b.ss.rpl
      /\ Agree(d.stack, b.stack, b.tr, b.ss.rpl, b.ss, Esp(b))
      /\ SameElsewhere(d, b)
  BY <1>1, <1>2, <1>4, PushesWords DEF SameElsewhere
<1>6. IsEntry(b.tr, e, i) /\ KeepsFlags(e, Context(d)) /\ Frame(e, Stack(d))
  BY <1>1, InterruptEntry DEF InterruptEntryOf
<1>7. /\ e.kind = "interrupt" /\ e.ss = d.ss /\ e.from = Left(b, FALSE)
  BY DEF InterruptEntryOf
<1>8. e.from.f = b.f /\ e.from.ss = b.ss /\ e.from.esp = Esp(b) /\ Esp(b) \in Nat
  BY <1>1, <1>7, LeftIs, MachineTypes
<1> HIDE DEF e
<1>9. EntersTask(b, d, e, i)
  <2>1. e.from.esp <= Esp(b)
    BY <1>8
  <2> QED BY <1>2, <1>5, <1>6, <1>7, <1>8, <2>1 DEF EntersTask
<1>10. /\ Running(d, [us EXCEPT ![b.tr] = Append(@, e)])
       /\ AllKeep(b, us) /\ (e.kind = "call" => d.f.nt = b.f.nt) =>
             AllKeep(d, [us EXCEPT ![b.tr] = Append(@, e)])
  BY <1>3, <1>5, <1>9, EntersIs DEF i
<1> QED BY <1>3, <1>5, <1>7, <1>10 DEF e

LEMMA EntersByCall ==
    ASSUME NEW b, NEW us, Running(b, us), NEW d, NEW k, IsCall(b, d, k)
    PROVE  LET vs == [us EXCEPT ![b.tr] = Append(@, CallEntryOf(b, d, k))]
           IN  /\ Running(d, vs) /\ (AllKeep(b, us) => AllKeep(d, vs))
               /\ d.exception_pending = b.exception_pending /\ d.tr = b.tr
<1> DEFINE e == CallEntryOf(b, d, k)
           i == Len(us[b.tr]) + 1
<1>1. IsMachine(b)
  BY DEF Running
<1>2. PICK w : IsSeq(w) /\ Pushes(b, d, w)
  BY DEF IsCall
<1>3. IsMachine(d) /\ SameTasks(d, b) /\ d.exception_pending = b.exception_pending
  BY <1>2 DEF Pushes, SameRest, SameTasks
<1> HIDE DEF i
<1>5. /\ d.tr = b.tr /\ d.ss.rpl <= b.ss.rpl
      /\ Agree(d.stack, b.stack, b.tr, b.ss.rpl, b.ss, Esp(b))
      /\ SameElsewhere(d, b)
  BY <1>1, <1>2, PushesWords DEF SameElsewhere
<1>6. IsEntry(b.tr, e, i) /\ KeepsFlags(e, Context(d)) /\ Frame(e, Stack(d))
  BY <1>1, CallEntry DEF CallEntryOf
<1>7. /\ e.kind = "call" /\ e.ss = d.ss /\ e.from = [Left(b, FALSE) EXCEPT !.esp = @ - k]
  BY DEF CallEntryOf
<1>8. e.from.f = b.f /\ e.from.ss = b.ss /\ e.from.esp = Esp(b) - k
  <2> DEFINE l == Left(b, FALSE)
  <2>1. IsContext(l) /\ l.f = b.f /\ l.ss = b.ss /\ l.esp = Esp(b)
    BY <1>1, LeftIs
  <2> HIDE DEF l
  <2>2. l = [ip |-> l.ip, f |-> l.f, cs |-> l.cs, ss |-> l.ss, ds |-> l.ds, esp |-> l.esp]
    BY <2>1 DEF IsContext
  <2>3. e.from = [l EXCEPT !.esp = @ - k]
    BY <1>7 DEF l
  <2> HIDE DEF e
  <2> QED BY <2>1, <2>2, <2>3
<1> HIDE DEF e
<1>9. d.f = b.f /\ k \in Nat /\ Esp(b) \in Nat
  BY <1>1, MachineTypes DEF IsCall
<1>10. EntersTask(b, d, e, i)
  <2>1. e.from.esp <= Esp(b)
    BY <1>8, <1>9
  <2> QED BY <1>5, <1>6, <1>7, <1>8, <1>9, <2>1 DEF EntersTask
<1>11. /\ Running(d, [us EXCEPT ![b.tr] = Append(@, e)])
       /\ AllKeep(b, us) /\ (e.kind = "call" => d.f.nt = b.f.nt) =>
             AllKeep(d, [us EXCEPT ![b.tr] = Append(@, e)])
  BY <1>3, <1>5, <1>10, EntersIs DEF i
<1> QED BY <1>3, <1>5, <1>9, <1>11 DEF e

\* The handler finds the state before the instruction.
LEMMA FaultIsDescribed ==
    ASSUME NEW b, IsMachine(b), NEW d, NEW err, IsError(err), Interrupts(b, d, err)
    PROVE  /\ Esp(d) >= 3
           /\ Described(d, b.f.vm \/ d.cpl # b.cpl) =
                 [ip |-> b.ip, cs |-> b.cs, f |-> b.f, ss |-> b.ss, esp |-> Esp(b)]
<1> DEFINE k == Len(err)
           switched == b.f.vm \/ d.cpl # b.cpl
           i == [ip |-> b.ip]
           o == [esp |-> Esp(b)]
<1>1. HoldsFrame(b, d, k)
  BY FrameIs
<1>2. k = IF HasErrorCode(d) THEN 1 ELSE 0
  BY ErrorIs
<1> HIDE DEF k
<1>3. /\ k \in Nat
      /\ Esp(d) = (IF d.ss = b.ss THEN Esp(b) + 3 ELSE IF b.f.vm THEN 6 ELSE 5) + k
      /\ WordAt(d, k + 1) = i /\ WordAt(d, k + 2) = b.cs /\ WordAt(d, k + 3) = b.f
      /\ d.ss # b.ss => WordAt(d, k + 4) = o /\ WordAt(d, k + 5) = b.ss
  BY <1>1 DEF HoldsFrame
<1>4. i.ip = b.ip /\ o.esp = Esp(b) /\ Esp(b) \in Nat
  BY MachineTypes
<1> HIDE DEF i, o
<1>5. IsMachine(d) /\ (d.ss # b.ss => b.ss.rpl = 3 /\ d.ss = Tasks[b.tr].ss0) /\ (b.f.vm => d.ss # b.ss)
  BY DEF Interrupts, Pushes
<1>6. b.ss.rpl = b.cpl /\ d.ss.rpl = d.cpl /\ b.tr \in DOMAIN Tasks
  BY <1>5, MachineTypes
<1>7. Tasks[b.tr].ss0.rpl = 0
  <2>1. SegmentFault("ss", Tasks[b.tr].ss0, 0) = "none" /\ Names(Tasks[b.tr].ss0, {"data"})
    BY <1>6, ProtectedModeAssumption DEF TasksAssumption
  <2> QED BY <2>1 DEF SegmentFault
<1>8. switched <=> d.ss # b.ss
  BY <1>5, <1>6, <1>7
<1> HIDE DEF switched
<1>9. Esp(d) >= 3
  BY <1>3, <1>4
<1>10. /\ WordAt(d, k + 1).ip = b.ip
       /\ (IF switched THEN WordAt(d, k + 5) ELSE d.ss) = b.ss
       /\ (IF switched THEN WordAt(d, k + 4).esp ELSE Esp(d) - k - 3) = Esp(b)
  BY <1>3, <1>4, <1>8
<1>11. Described(d, switched) = [ip |-> b.ip, cs |-> b.cs, f |-> b.f, ss |-> b.ss, esp |-> Esp(b)]
  BY <1>2, <1>3, <1>10 DEF Described
<1> QED BY <1>9, <1>11 DEF switched

-----------------------------------------------------------------------------
(* Steps. *)

\* What is entered is not returned from.
LEMMA NothingReturns ==
    ASSUME NEW n, NEW us, Running(n, us), NEW d
    PROVE  /\ Restores(us, d, us)
           /\ \A u \in DOMAIN Tasks : \A e : Restores(us, d, [us EXCEPT ![u] = Append(@, e)])
<1>1. us = [t \in DOMAIN Tasks |-> us[t]]
  BY DEF Running
<1>2. \A t \in DOMAIN Tasks : IsSeq(us[t])
  BY DEF Running, GoodTask, IsHistory
<1>3. \A t \in DOMAIN Tasks : Len(us[t]) \in Nat
  BY <1>2, Longer
<1>4. Restores(us, d, us)
  BY <1>1, <1>3 DEF Restores
<1>5. ASSUME NEW u \in DOMAIN Tasks, NEW e PROVE Restores(us, d, [us EXCEPT ![u] = Append(@, e)])
  <2> DEFINE x == Append(us[u], e)
             vs == [us EXCEPT ![u] = x]
  <2>1. Len(x) = Len(us[u]) + 1
    BY <1>2, Longer
  <2> HIDE DEF x
  <2>2. ASSUME NEW t \in DOMAIN us PROVE ~ (Len(vs[t]) < Len(us[t]))
    <3>1. t \in DOMAIN Tasks /\ vs[t] = IF t = u THEN x ELSE us[t]
      BY <1>1, <2>2
    <3> QED BY <1>3, <2>1, <3>1
  <2>3. Restores(us, d, vs)
    BY <2>2 DEF Restores
  <2> QED BY <2>3 DEF x
<1> QED BY <1>4, <1>5

\* What is said of the end of an instruction is said of the next beginning.
LEMMA Ends ==
    ASSUME NEW us, NEW n, NEW d, NEW vs, Running(d, vs), d.exception_pending => d.f.if = FALSE,
           TwoTasks => AllKeep(d, vs), Restartable(n, d), TwoTasks => Restores(us, d, vs)
    PROVE  GoodStep(n, us, Finished(d), vs)
<1> DEFINE x == Finished(d)
<1>1. IsMachine(d) /\ Nested(d)
  BY DEF Running
<1>2. Like(x, d) /\ x.exception_pending = d.exception_pending /\ Context(x) = Context(d)
  BY <1>1, Finishes
<1> HIDE DEF x
<1>3. /\ IsMachine(x) /\ Running(x, vs) /\ Stack(x) = Stack(d) /\ Esp(x) = Esp(d)
      /\ AllKeep(d, vs) => AllKeep(x, vs)
  BY <1>2, LikeRuns
<1>4. x.f = d.f /\ x.ss = d.ss /\ x.cpl = d.cpl /\ x.reset = d.reset
  BY <1>2 DEF Like
<1>5. Nested(x) /\ x.reset = FALSE
  BY <1>3 DEF Running, IsMachine
<1>6. IsGood(x, vs)
  BY <1>2, <1>3, <1>4, <1>5 DEF IsGood
<1>7. \A k : WordAt(x, k) = WordAt(d, k)
  BY <1>3 DEF WordAt
<1>8. HasErrorCode(x) = HasErrorCode(d)
  BY <1>3, <1>7 DEF HasErrorCode
<1>9. \A s : Described(x, s) = Described(d, s)
  BY <1>3, <1>4, <1>7, <1>8 DEF Described
<1>10. Restartable(n, x)
  BY <1>2, <1>3, <1>4, <1>9 DEF Restartable
<1>11. \A task : Left(x, task) = Left(d, task)
  BY <1>2, <1>4 DEF Left
<1>12. Restores(us, d, vs) => Restores(us, x, vs)
  BY <1>11 DEF Restores
<1>13. GoodStep(n, us, x, vs)
  BY <1>6, <1>10, <1>12 DEF GoodStep
<1> QED BY <1>13 DEF x

\* The processor before a step.
LEMMA Begins ==
    ASSUME IsGood(m, unreturned), ~ m.reset
    PROVE  /\ Running(m, unreturned) /\ m.reset = FALSE
           /\ Running(Fetched, unreturned) /\ Running(AtFault(Fetched), unreturned)
           /\ TwoTasks => /\ AllKeep(m, unreturned) /\ AllKeep(Fetched, unreturned)
                          /\ AllKeep(AtFault(Fetched), unreturned)
           /\ Fetched.exception_pending = FALSE /\ Like(Fetched, m) /\ Fetched.tr = m.tr
           /\ Like(AtFault(Fetched), m)
           /\ m.exception_pending => m.f.if = FALSE
<1>1. m.reset = FALSE
  BY DEF IsGood
<1>2. /\ Running(m, unreturned) /\ (TwoTasks => AllKeep(m, unreturned))
      /\ m.exception_pending => m.f.if = FALSE
  BY <1>1 DEF IsGood
<1>3. Like(Fetched, m) /\ Like(AtFault(Fetched), m) /\ Fetched.exception_pending = FALSE
  BY <1>2, Fetches
<1>4. Running(Fetched, unreturned) /\ (AllKeep(m, unreturned) => AllKeep(Fetched, unreturned))
  BY <1>2, <1>3, LikeRuns
<1>5. /\ Running(AtFault(Fetched), unreturned)
      /\ AllKeep(m, unreturned) => AllKeep(AtFault(Fetched), unreturned)
  BY <1>2, <1>3, LikeRuns
<1>6. Fetched.tr = m.tr
  BY <1>3 DEF Like
<1> QED BY <1>1, <1>2, <1>3, <1>4, <1>5, <1>6

\* What Enters adds to the history.
LEMMA EnteredByFault ==
    ASSUME Running(m, unreturned), NEW d, d.exception_pending = TRUE, d.tr = m.tr,
           NEW kind, NEW params, Enters(d, kind, params)
    PROVE  /\ m' = Finished(d)
           /\ unreturned' = [unreturned EXCEPT ![m.tr] = Append(@, InterruptEntryOf(AtFault(Fetched), d))]
<1> DEFINE b == AtFault(Fetched)
           l == Left(m, FALSE)
<1>1. IsMachine(m)
  BY DEF Running
<1>2. [l EXCEPT !.esp = @ - 0] = l
  BY <1>1, LeftIs
<1>3. Context(b) = Context(m) /\ b.f = m.f
  BY Fetches DEF Like
<1> HIDE DEF b
<1>4. Left(b, FALSE) = l
  BY <1>3 DEF Left
<1> HIDE DEF l
<1>5. /\ m' = Finished(d)
      /\ unreturned' = [unreturned EXCEPT ![m.tr] = Append(@,
            [kind |-> "interrupt", from |-> [l EXCEPT !.esp = @ - 0], params |-> 0, intact |-> TRUE,
             ss |-> d.ss, esp |-> Esp(d) - (IF HasErrorCode(d) THEN 1 ELSE 0)])]
  BY DEF Enters, l
<1>6. InterruptEntryOf(b, d) =
            [kind |-> "interrupt", from |-> [l EXCEPT !.esp = @ - 0], params |-> 0, intact |-> TRUE,
             ss |-> d.ss, esp |-> Esp(d) - (IF HasErrorCode(d) THEN 1 ELSE 0)]
  BY <1>2, <1>4 DEF InterruptEntryOf
<1> QED BY <1>5, <1>6 DEF b

LEMMA EnteredByInterrupt ==
    ASSUME Running(m, unreturned), NEW d, d.exception_pending = FALSE, d.tr = m.tr,
           Enters(d, "interrupt", 0)
    PROVE  /\ m' = Finished(d)
           /\ unreturned' = [unreturned EXCEPT ![m.tr] = Append(@, InterruptEntryOf(Fetched, d))]
<1> DEFINE b == Fetched
           l == Left(b, FALSE)
<1>1. IsMachine(b)
  BY Fetches, LikeRuns
<1>2. [l EXCEPT !.esp = @ - 0] = l
  BY <1>1, LeftIs
<1> HIDE DEF l
<1>3. /\ m' = Finished(d)
      /\ unreturned' = [unreturned EXCEPT ![m.tr] = Append(@,
            [kind |-> "interrupt", from |-> [l EXCEPT !.esp = @ - 0], params |-> 0, intact |-> TRUE,
             ss |-> d.ss, esp |-> Esp(d) - (IF HasErrorCode(d) THEN 1 ELSE 0)])]
  BY DEF Enters, l
<1>4. InterruptEntryOf(b, d) =
            [kind |-> "interrupt", from |-> [l EXCEPT !.esp = @ - 0], params |-> 0, intact |-> TRUE,
             ss |-> d.ss, esp |-> Esp(d) - (IF HasErrorCode(d) THEN 1 ELSE 0)]
  BY <1>2 DEF InterruptEntryOf, l
<1> QED BY <1>3, <1>4

LEMMA EnteredByCall ==
    ASSUME Running(m, unreturned), NEW d, d.exception_pending = FALSE, d.tr = m.tr,
           NEW k, Enters(d, "call", k)
    PROVE  /\ m' = Finished(d)
           /\ unreturned' = [unreturned EXCEPT ![m.tr] = Append(@, CallEntryOf(Fetched, d, k))]
BY DEF Enters, CallEntryOf

LEMMA EnteredByTask ==
    ASSUME Running(m, unreturned), NEW d, d.exception_pending = FALSE, d.tr # m.tr,
           Enters(d, "call", 0)
    PROVE  /\ m' = Finished(d)
           /\ \E e : /\ IsTaskEntry(Fetched, d, e)
                     /\ unreturned' = [unreturned EXCEPT ![d.tr] = Append(@, e)]
<1> DEFINE l == Context(Fetched)
           e == [kind |-> "task", from |-> [l EXCEPT !.esp = @ - 0], params |-> 0, intact |-> TRUE,
                 ss |-> d.ss, esp |-> Esp(d) - (IF HasErrorCode(d) THEN 1 ELSE 0)]
<1>1. IsMachine(Fetched)
  BY Fetches, LikeRuns
<1>2. IsContext(l)
  BY <1>1, MachineTypes
<1>3. Left(Fetched, TRUE) = l
  BY DEF Left
<1> HIDE DEF l
<1>4. [l EXCEPT !.esp = @ - 0] = l
  <2>1. l = [ip |-> l.ip, f |-> l.f, cs |-> l.cs, ss |-> l.ss, ds |-> l.ds, esp |-> l.esp] /\ l.esp \in Nat
    BY <1>2 DEF IsContext
  <2>2. l.esp - 0 = l.esp
    BY <2>1
  <2> QED BY <2>1, <2>2
<1>5. m' = Finished(d) /\ unreturned' = [unreturned EXCEPT ![d.tr] = Append(@, e)]
  BY <1>3 DEF Enters
<1>6. IsTaskEntry(Fetched, d, e)
  BY <1>4 DEF IsTaskEntry, l
<1> QED BY <1>5, <1>6

\* An instruction that faults.
LEMMA FaultStep ==
    ASSUME IsGood(m, unreturned), ~ m.reset, NEW v \in Exceptions, NEW kind, NEW params,
           Enters(Raise(Fetched, v), kind, params)
    PROVE  GoodStep(m, unreturned, m', unreturned')
<1> DEFINE b == AtFault(Fetched)
           d == Raise(Fetched, v)
           e == InterruptEntryOf(b, d)
           vs == [unreturned EXCEPT ![m.tr] = Append(@, e)]
<1>1. /\ Running(m, unreturned) /\ Running(b, unreturned)
      /\ TwoTasks => AllKeep(b, unreturned)
      /\ Like(b, m)
  BY Begins
<1>2. b.exception_pending = TRUE /\ b.ip = m.ip
  BY <1>1, Fetches
<1>3. IsMachine(b) /\ IsMachine(m) /\ Nested(m) /\ m.tr \in DOMAIN Tasks
  BY <1>1 DEF Running, Nested
<1>4. d = TripleFault(b) \/ \E err : IsError(err) /\ Interrupts(b, d, err) /\ d.f.if = FALSE
  BY <1>3, Raised
<1>5. b.tr = m.tr /\ b.busy = m.busy /\ b.link = m.link /\ b = [x \in Fields |-> b[x]] /\ b.tss = m.tss
      /\ b.f = m.f /\ b.cs = m.cs /\ b.ss = m.ss /\ b.cpl = m.cpl
  BY <1>1 DEF Like
<1>6. Esp(b) = Esp(m)
  BY <1>1, LikeRuns
<1>7. Restores(unreturned, m', vs)
  BY <1>1, <1>3, NothingReturns
<1>8. Enters(d, kind, params)
  OBVIOUS
<1> HIDE DEF b, d, e
<1>9. CASE d = TripleFault(b)
  <2>1. /\ d.exception_pending = TRUE /\ d.tr = m.tr /\ d.reset = TRUE
        /\ d.busy = m.busy /\ d.link = m.link /\ d = [x \in Fields |-> d[x]] /\ d.tss = m.tss
    BY <1>2, <1>5, <1>9 DEF TripleFault, Fields
  <2>2. m' = Finished(d) /\ unreturned' = vs
    BY <1>1, <1>8, <2>1, EnteredByFault DEF b, e
  <2> DEFINE x == m'
  <2>3. x.reset = TRUE /\ x.tr = m.tr /\ x.busy = m.busy /\ x.link = m.link
        /\ x.tss = m.tss
    BY <2>1, <2>2 DEF Finished, Fields
  <2> HIDE DEF x
  <2>4. Nested(x)
    BY <1>3, <2>3, NestedStays DEF SameTasks
  <2>5. IsGood(x, vs)
    BY <2>3, <2>4 DEF IsGood
  <2>6. Restartable(m, x)
    BY <2>3 DEF Restartable
  <2>7. GoodStep(m, unreturned, x, vs)
    BY <1>7, <2>5, <2>6 DEF GoodStep, x
  <2> QED BY <2>2, <2>7 DEF x
<1>10. CASE \E err : IsError(err) /\ Interrupts(b, d, err) /\ d.f.if = FALSE
  <2>1. PICK err : IsError(err) /\ Interrupts(b, d, err) /\ d.f.if = FALSE
    BY <1>10
  <2>2. /\ Running(d, vs) /\ (AllKeep(b, unreturned) => AllKeep(d, vs))
        /\ d.exception_pending = TRUE /\ d.tr = m.tr
    BY <1>1, <1>2, <1>5, <2>1, EntersByInterrupt DEF e
  <2>3. m' = Finished(d) /\ unreturned' = vs
    BY <1>1, <1>8, <2>2, EnteredByFault DEF b, e
  <2>4. /\ Esp(d) >= 3
        /\ Described(d, b.f.vm \/ d.cpl # b.cpl) =
              [ip |-> b.ip, cs |-> b.cs, f |-> b.f, ss |-> b.ss, esp |-> Esp(b)]
    BY <1>3, <2>1, FaultIsDescribed
  <2>5. Restartable(m, d)
    BY <1>2, <1>5, <1>6, <2>4 DEF Restartable
  <2>6. Restores(unreturned, d, vs)
    BY <1>1, <1>3, NothingReturns
  <2>7. d.exception_pending => d.f.if = FALSE
    BY <2>1
  <2>8. TwoTasks => AllKeep(d, vs)
    BY <1>1, <2>2
  <2>9. GoodStep(m, unreturned, Finished(d), vs)
    BY <2>2, <2>5, <2>6, <2>7, <2>8, Ends
  <2> QED BY <2>3, <2>9
<1> QED BY <1>4, <1>9, <1>10

LEMMA FaultPends ==
    ASSUME Running(m, unreturned), NEW v \in Exceptions
    PROVE  Raise(Fetched, v).exception_pending = TRUE
<1> DEFINE b == AtFault(Fetched)
           d == Raise(Fetched, v)
<1>1. IsMachine(b) /\ b.exception_pending = TRUE /\ b = [x \in Fields |-> b[x]]
  <2>1. Like(b, m) /\ b.exception_pending = TRUE
    BY Fetches
  <2> QED BY <2>1, LikeRuns DEF Like
<1>2. d = TripleFault(b) \/ \E err : IsError(err) /\ Interrupts(b, d, err) /\ d.f.if = FALSE
  BY <1>1, Raised
<1> HIDE DEF b, d
<1>3. ASSUME d = TripleFault(b) PROVE d.exception_pending = TRUE
  BY <1>1, <1>3 DEF TripleFault, Fields
<1>4. ASSUME NEW err, Interrupts(b, d, err) PROVE d.exception_pending = TRUE
  BY <1>1, <1>4 DEF Interrupts, Pushes, SameRest
<1>5. d.exception_pending = TRUE
  BY <1>2, <1>3, <1>4
<1> QED BY <1>5 DEF d

LEMMA FaultContinues ==
    ASSUME IsGood(m, unreturned), ~ m.reset, NEW v \in Exceptions, NEW left,
           Continues(Raise(Fetched, v), left)
    PROVE  GoodStep(m, unreturned, m', unreturned')
<1>1. Running(m, unreturned)
  BY Begins
<1>2. Enters(Raise(Fetched, v), "interrupt", 0)
  BY <1>1, FaultPends DEF Continues
<1> QED BY <1>2, FaultStep

\* What GateFault returns is raised.
LEMMA GateFaults ==
    ASSUME NEW n, NEW v, NEW software
    PROVE  GateFault(n, v, software) = "none" \/ GateFault(n, v, software) \in Exceptions
<1>1. \A task, iret : TaskFault(n, task, iret) \in {"none", "GP", "NP", "TS"}
  BY DEF TaskFault
<1>2. {"GP", "NP", "TS"} \subseteq Exceptions
  BY DEF Exceptions
<1> QED BY <1>1, <1>2 DEF GateFault

LEMMA InterruptStep ==
    ASSUME IsGood(m, unreturned), ~ m.reset, NEW v,
           Enters(Interrupt(Fetched, v, TRUE), "interrupt", 0)
    PROVE  GoodStep(m, unreturned, m', unreturned')
<1> DEFINE b == Fetched
           fault == GateFault(b, v, TRUE)
           d == Delivered(b, v, <<>>)
           e == InterruptEntryOf(b, d)
           vs == [unreturned EXCEPT ![m.tr] = Append(@, e)]
<1>1. CASE fault # "none"
  <2>1. fault \in Exceptions /\ Interrupt(b, v, TRUE) = Raise(b, fault)
    BY <1>1, GateFaults DEF Interrupt
  <2> QED BY <2>1, FaultStep
<1>2. CASE fault = "none"
  <2>1. /\ Running(m, unreturned) /\ Running(b, unreturned)
        /\ TwoTasks => AllKeep(b, unreturned)
        /\ b.exception_pending = FALSE /\ b.tr = m.tr
    BY Begins
  <2>2. Enters(d, "interrupt", 0)
    BY <1>2 DEF Interrupt
  <2>3. IsMachine(b) /\ m.tr \in DOMAIN Tasks
    BY <2>1 DEF Running, Nested
  <2>4. IsError(<<>>) /\ IsSeq(<<>>)
    BY EmptySeq DEF IsError, IsSeq
  <2>5. Interrupts(b, d, <<>>)
    BY <1>2, <2>3, <2>4, DeliveredIs
  <2> HIDE DEF b, d, e, fault
  <2>6. /\ Running(d, vs) /\ (AllKeep(b, unreturned) => AllKeep(d, vs))
        /\ d.exception_pending = FALSE /\ d.tr = m.tr
    BY <2>1, <2>4, <2>5, EntersByInterrupt DEF e
  <2>7. m' = Finished(d) /\ unreturned' = vs
    BY <2>1, <2>2, <2>6, EnteredByInterrupt DEF b, e
  <2>8. Restores(unreturned, d, vs)
    BY <2>1, <2>3, NothingReturns
  <2>9. Restartable(m, d)
    BY <2>6 DEF Restartable
  <2>10. GoodStep(m, unreturned, Finished(d), vs)
    BY <2>1, <2>6, <2>8, <2>9, Ends
  <2> QED BY <2>7, <2>10
<1> QED BY <1>1, <1>2

LEMMA IntNStep ==
    ASSUME IsGood(m, unreturned), NEW v, IntN(v)
    PROVE  GoodStep(m, unreturned, m', unreturned')
<1>1. ~ m.reset
  BY DEF IntN, Runs
<1>2. CASE m.f.vm /\ Iopl < 3
  <2>1. Enters(Raise(Fetched, "GP"), "interrupt", 0) /\ "GP" \in Exceptions
    BY <1>2 DEF IntN, Exceptions
  <2> QED BY <1>1, <2>1, FaultStep
<1>3. CASE ~ (m.f.vm /\ Iopl < 3)
  <2>1. Enters(Interrupt(Fetched, v, TRUE), "interrupt", 0)
    BY <1>3 DEF IntN
  <2> QED BY <1>1, <2>1, InterruptStep
<1> QED BY <1>2, <1>3

LEMMA UndefinedOpcodeStep ==
    ASSUME IsGood(m, unreturned), UndefinedOpcode
    PROVE  GoodStep(m, unreturned, m', unreturned')
<1>1. ~ m.reset /\ "UD" \in Exceptions /\ Enters(Raise(Fetched, "UD"), "interrupt", 0)
  BY DEF UndefinedOpcode, Runs, Exceptions
<1> QED BY <1>1, FaultStep

LEMMA IrqStep ==
    ASSUME IsGood(m, unreturned), Irq
    PROVE  GoodStep(m, unreturned, m', unreturned')
<1> DEFINE d == Delivered(m, "IRQ", <<>>)
           e == InterruptEntryOf(m, d)
           vs == [unreturned EXCEPT ![m.tr] = Append(@, e)]
<1>1. ~ m.reset /\ m.f.if
  BY DEF Irq, Runs
<1>2. /\ Running(m, unreturned) /\ (TwoTasks => AllKeep(m, unreturned))
      /\ m.exception_pending => m.f.if = FALSE
  BY <1>1, Begins
<1>3. IsMachine(m) /\ m.exception_pending = FALSE /\ m.tr \in DOMAIN Tasks
  BY <1>1, <1>2 DEF Running, IsMachine, Nested
<1>4. GateFault(m, "IRQ", FALSE) = "none"
  <2> DEFINE g == m.idt["IRQ"]
  <2>1. m.idt \in Idts
    BY <1>3 DEF IsMachine
  <2>2. /\ "IRQ" \in DOMAIN m.idt /\ g.present /\ IsKernelCode(g.target)
        /\ DescriptorOf(g.target).present /\ g.type \in {"interrupt", "trap"}
    BY <2>1, ProtectedModeAssumption DEF IdtAssumption
  <2>3. /\ g.target.index \in DOMAIN Table /\ DescriptorOf(g.target).type = "code"
        /\ DescriptorOf(g.target).dpl = 0 /\ g.target.index # "null"
    BY <2>2, ProtectedModeAssumption DEF IsKernelCode, Names, TableAssumption
  <2>4. GateLevel(m, g) = 0
    BY <2>3 DEF GateLevel, IsConforming
  <2>5. m.cpl \in {0, 3}
    BY <1>3, MachineTypes
  <2>6. ~ (0 > m.cpl) /\ g.type # "task"
    BY <2>2, <2>5
  <2> HIDE DEF g
  <2> QED BY <2>2, <2>3, <2>4, <2>6 DEF GateFault, g
<1>5. IsError(<<>>) /\ IsSeq(<<>>)
  BY EmptySeq DEF IsError, IsSeq
<1>6. Interrupts(m, d, <<>>)
  BY <1>3, <1>4, <1>5, DeliveredIs
<1>7. Interrupt(m, "IRQ", FALSE) = d
  BY <1>4 DEF Interrupt
<1> HIDE DEF d
<1>8. /\ m' = Finished(d)
      /\ unreturned' = [unreturned EXCEPT ![d.tr] =
            Append(@, [kind |-> "interrupt", from |-> Left(m, FALSE), params |-> 0,
                       intact |-> TRUE, ss |-> d.ss, esp |-> Esp(d)])]
  BY <1>3, <1>7 DEF Irq
<1>9. Esp(d) - (IF HasErrorCode(d) THEN 1 ELSE 0) = Esp(d)
  <2>1. Len(<<>>) = 0 /\ IsMachine(d)
    BY <1>6 DEF Interrupts, Pushes
  <2>2. (IF HasErrorCode(d) THEN 1 ELSE 0) = 0 /\ Esp(d) \in Nat
    BY <1>3, <1>5, <1>6, <2>1, ErrorIs, MachineTypes
  <2> QED BY <2>2
<1>10. e = [kind |-> "interrupt", from |-> Left(m, FALSE), params |-> 0,
            intact |-> TRUE, ss |-> d.ss, esp |-> Esp(d)]
  BY <1>9 DEF InterruptEntryOf
<1> HIDE DEF e
<1>11. /\ Running(d, vs) /\ (AllKeep(m, unreturned) => AllKeep(d, vs))
       /\ d.exception_pending = FALSE /\ d.tr = m.tr
  BY <1>2, <1>3, <1>5, <1>6, EntersByInterrupt DEF e
<1>12. unreturned' = vs
  BY <1>8, <1>10, <1>11
<1>13. Restores(unreturned, d, vs)
  BY <1>2, <1>3, NothingReturns
<1>14. Restartable(m, d)
  BY <1>11 DEF Restartable
<1>15. GoodStep(m, unreturned, Finished(d), vs)
  BY <1>2, <1>11, <1>13, <1>14, Ends
<1> QED BY <1>8, <1>12, <1>15

\* An instruction that stays in its task and does not fault.
LEMMA ContinuesStep ==
    ASSUME IsGood(m, unreturned), ~ m.reset, NEW x, NEW vs, vs = [unreturned EXCEPT ![m.tr] = x],
           NEW d, Running(d, vs), d.exception_pending = FALSE,
           TwoTasks => AllKeep(d, vs), TwoTasks => Restores(unreturned, d, vs),
           Continues(d, x)
    PROVE  GoodStep(m, unreturned, m', unreturned')
<1>1. m' = Finished(d) /\ unreturned' = vs
  BY DEF Continues
<1>2. Restartable(m, d)
  BY DEF Restartable
<1>3. GoodStep(m, unreturned, Finished(d), vs)
  BY <1>2, Ends
<1> QED BY <1>1, <1>3

LEMMA StaysStep ==
    ASSUME IsGood(m, unreturned), ~ m.reset, NEW d, IsMachine(d),
           SameTasks(d, Fetched), SameElsewhere(d, Fetched), d.ss = Fetched.ss, d.f = Fetched.f,
           Esp(d) <= Esp(Fetched), Agree(d.stack, Fetched.stack, Fetched.tr, 0, d.ss, Esp(d)),
           d.exception_pending = FALSE, Continues(d, Pending)
    PROVE  GoodStep(m, unreturned, m', unreturned')
<1>1. /\ Running(m, unreturned) /\ Running(Fetched, unreturned)
      /\ TwoTasks => AllKeep(Fetched, unreturned)
  BY Begins
<1>2. Running(d, unreturned) /\ (TwoTasks => AllKeep(d, unreturned))
  BY <1>1, Stays
<1>3. Restores(unreturned, d, unreturned)
  BY <1>1, NothingReturns
<1>4. unreturned = [unreturned EXCEPT ![m.tr] = Pending]
  BY <1>1, Current DEF Pending
<1> QED BY <1>2, <1>3, <1>4, ContinuesStep

\* The words of one stack have been popped.
LEMMA SameStacks ==
    ASSUME NEW n, IsMachine(n), NEW d, d.ss = n.ss,
           \A y \in StackNames : y # n.ss.index => d.stack[y] = n.stack[y]
    PROVE  /\ SameElsewhere(d, n)
           /\ \A k, level : SameWords(Stack(d), Stack(n), k) =>
                             Agree(d.stack, n.stack, n.tr, level, d.ss, k)
<1>1. n.tr \in DOMAIN Tasks /\ n.ss \in StacksOf(n.tr)
  BY MachineTypes
<1>2. SameElsewhere(d, n)
  <2> SUFFICES ASSUME NEW u \in DOMAIN Tasks \ {n.tr}, NEW y \in StacksOf(u)
               PROVE  d.stack[y.index] = n.stack[y.index]
    BY DEF SameElsewhere
  <2>1. y.index \in StackNames /\ y.index # n.ss.index
    BY <1>1, StackOf, StacksDiffer
  <2> QED BY <2>1
<1>3. ASSUME NEW k, NEW level, SameWords(Stack(d), Stack(n), k)
      PROVE  Agree(d.stack, n.stack, n.tr, level, d.ss, k)
  <2> SUFFICES ASSUME NEW y \in StacksOf(n.tr)
               PROVE  IF y = d.ss THEN SameWords(d.stack[y.index], n.stack[y.index], k)
                      ELSE d.stack[y.index] = n.stack[y.index]
    BY DEF Agree
  <2>1. y.index \in StackNames /\ (y # n.ss => y.index # n.ss.index)
    BY <1>1, StackOf, StacksDiffer
  <2> QED BY <1>3, <2>1 DEF Stack
<1> QED BY <1>2, <1>3

LEMMA SameMachine ==
    ASSUME NEW n, IsMachine(n), NEW d, HasStacks(d), SameRest(d, n), SameRegisters(d, n),
           \A y \in StackNames : y # n.ss.index => d.stack[y] = n.stack[y]
    PROVE  /\ IsMachine(d) /\ SameTasks(d, n) /\ SameElsewhere(d, n) /\ d.ss = n.ss /\ d.f = n.f
           /\ \A k : SameWords(Stack(d), Stack(n), k) => Agree(d.stack, n.stack, n.tr, 0, d.ss, k)
<1>1. /\ IsMachine(d) /\ SameTasks(d, n) /\ d.ss = n.ss /\ d.f = n.f
  BY DEF IsMachine, SameRest, SameRegisters, SameTasks
<1> QED BY <1>1, SameStacks

LEMMA DropErrorCodeStep ==
    ASSUME IsGood(m, unreturned), DropErrorCode
    PROVE  GoodStep(m, unreturned, m', unreturned')
<1> DEFINE n == Fetched
           k == Esp(n) - 1
           d == WithEsp(n, k)
<1>1. ~ m.reset /\ HasErrorCode(m) /\ Continues(Pop(n, 1), Pending)
  BY DEF DropErrorCode
<1>2. Running(n, unreturned) /\ n.exception_pending = FALSE /\ Running(m, unreturned) /\ Like(n, m)
  BY <1>1, Begins
<1>3. IsMachine(n) /\ Esp(n) = Esp(m) /\ Esp(n) \in Nat
  BY <1>2, LikeRuns, MachineTypes
<1>4. k \in Nat /\ k <= Esp(n)
  BY <1>1, <1>3 DEF HasErrorCode
<1>5. Pop(n, 1) = d
  BY DEF Pop
<1>6. HasStacks(n)
  BY <1>3 DEF IsMachine
<1> HIDE DEF n, k
<1>7. /\ HasStacks(d) /\ SameRest(d, n) /\ SameRegisters(d, n)
      /\ Esp(d) = k /\ SameWords(Stack(d), Stack(n), k)
      /\ \A y \in StackNames : y # n.ss.index => d.stack[y] = n.stack[y]
  BY <1>4, <1>6, CutIs
<1> HIDE DEF d
<1>8. /\ IsMachine(d) /\ SameTasks(d, n) /\ SameElsewhere(d, n) /\ d.ss = n.ss /\ d.f = n.f
      /\ Agree(d.stack, n.stack, n.tr, 0, d.ss, k)
  BY <1>3, <1>7, SameMachine
<1>9. d.exception_pending = FALSE
  BY <1>2, <1>7 DEF SameRest
<1> QED BY <1>1, <1>4, <1>5, <1>7, <1>8, <1>9, StaysStep DEF n

\* A machine with other segments.
LEMMA NewSegments ==
    ASSUME NEW n, IsMachine(n), NEW d, d = [x \in Fields |-> d[x]], SameRest(d, n),
           n.f.vm = FALSE, d.f = n.f, d.ss = n.ss, d.stack = n.stack, d.cpl = n.cpl,
           d.cs.rpl = n.cs.rpl, Fit(d.cs, d.ss, d.ds)
    PROVE  /\ IsMachine(d) /\ SameTasks(d, n) /\ SameElsewhere(d, n)
           /\ Esp(d) <= Esp(n) /\ Agree(d.stack, n.stack, n.tr, 0, d.ss, Esp(d))
<1>1. HasStacks(d)
  BY DEF HasStacks, IsMachine, SameRest
<1>2. IsMachine(d)
  BY <1>1 DEF IsMachine, SameRest
<1>3. Esp(d) = Esp(n) /\ Esp(n) \in Nat
  BY MachineTypes DEF Esp, Stack
<1>4. Esp(d) <= Esp(n)
  BY <1>3
<1>5. SameTasks(d, n)
  BY DEF SameTasks, SameRest
<1>6. SameElsewhere(d, n) /\ Agree(d.stack, n.stack, n.tr, 0, d.ss, Esp(d))
  BY DEF SameElsewhere, Agree, SameWords
<1> QED BY <1>2, <1>4, <1>5, <1>6

LEMMA SegmentFaults ==
    ASSUME NEW reg, NEW sel, NEW cpl
    PROVE  SegmentFault(reg, sel, cpl) = "none" \/ SegmentFault(reg, sel, cpl) \in Exceptions
<1>1. {"GP", "NP", "SS"} \subseteq Exceptions
  BY DEF Exceptions
<1> QED BY <1>1 DEF SegmentFault

LEMMA MovSegmentStep ==
    ASSUME IsGood(m, unreturned), NEW reg \in {"ds", "ss"}, NEW sel \in Loads, MovSegment(reg, sel)
    PROVE  GoodStep(m, unreturned, m', unreturned')
<1> DEFINE n == Fetched
           fault == SegmentFault(reg, sel, m.cpl)
           d == [n EXCEPT ![reg] = sel]
<1>1. /\ ~ m.reset /\ ~ m.f.vm
      /\ reg = "ss" => sel = m.ss \/ SegmentFault("ss", sel, m.cpl) # "none"
      /\ Continues(LoadSegment(n, reg, sel, m.cpl), Pending)
  BY DEF MovSegment, Runs
<1>2. CASE fault # "none"
  <2>1. fault \in Exceptions /\ LoadSegment(n, reg, sel, m.cpl) = Raise(n, fault)
    BY <1>2, SegmentFaults DEF LoadSegment
  <2> QED BY <1>1, <2>1, FaultContinues
<1>3. CASE fault = "none"
  <2>1. LoadSegment(n, reg, sel, m.cpl) = d
    BY <1>3 DEF LoadSegment
  <2>2. Running(n, unreturned) /\ n.exception_pending = FALSE /\ Running(m, unreturned) /\ Like(n, m)
    BY <1>1, Begins
  <2>3. IsMachine(n) /\ n = [x \in Fields |-> n[x]]
    BY <2>2 DEF Running, IsMachine, HasStacks
  <2>4. n.f = m.f /\ n.cpl = m.cpl /\ n.ss = m.ss
    BY <2>2 DEF Like
  <2> HIDE DEF n
  <2>5. /\ d = [x \in Fields |-> d[x]] /\ SameRest(d, n) /\ d.f = n.f /\ d.cs = n.cs /\ d.cpl = n.cpl
        /\ d.stack = n.stack
        /\ d.ss = (IF reg = "ss" THEN sel ELSE n.ss) /\ d.ds = (IF reg = "ds" THEN sel ELSE n.ds)
    BY <2>3 DEF Fields, SameRest
  <2>6. n.f.vm = FALSE /\ n.f.vm \in BOOLEAN /\ Fit(n.cs, n.ss, n.ds) /\ n.cpl = n.cs.rpl
    <3>1. n.f.vm \in BOOLEAN
      BY <2>3, MachineTypes
    <3>2. n.f.vm = FALSE
      BY <1>1, <2>4, <3>1
    <3> QED BY <2>3, <3>1, <3>2 DEF IsMachine
  <2>7. d.ss = n.ss
    <3>1. CASE reg = "ss"
      BY <1>1, <1>3, <2>4, <2>5, <3>1
    <3>2. CASE reg = "ds"
      BY <2>5, <3>2
    <3> QED BY <3>1, <3>2
  <2>8. d.ds = n.ds \/ d.ds = Null
        \/ (d.ds.index \in DOMAIN Table /\ (IsConforming(d.ds) \/ n.cs.rpl <= DescriptorOf(d.ds).dpl))
    <3>1. CASE reg = "ds"
      <4>1. d.ds = sel /\ SegmentFault("ds", sel, n.cs.rpl) = "none"
        BY <1>3, <2>4, <2>5, <2>6, <3>1
      <4>2. sel = Null \/ sel.index \in DOMAIN Table
        BY ProtectedModeAssumption DEF OperandsAssumption
      <4>3. ASSUME sel.index \in DOMAIN Table
            PROVE  IsConforming(sel) \/ n.cs.rpl <= DescriptorOf(sel).dpl
        <5>1. sel.index # "null"
          BY <4>3, ProtectedModeAssumption DEF TableAssumption
        <5> QED BY <4>1, <5>1 DEF SegmentFault
      <4> QED BY <4>1, <4>2, <4>3
    <3>2. CASE reg = "ss"
      BY <2>5, <3>2
    <3> QED BY <3>1, <3>2
  <2> HIDE DEF d
  <2>9. Fit(d.cs, d.ss, d.ds)
    BY <2>5, <2>6, <2>7, <2>8 DEF Fit
  <2>10. /\ IsMachine(d) /\ SameTasks(d, n) /\ SameElsewhere(d, n)
         /\ Esp(d) <= Esp(n) /\ Agree(d.stack, n.stack, n.tr, 0, d.ss, Esp(d))
    BY <2>3, <2>5, <2>6, <2>7, <2>9, NewSegments
  <2>11. d.exception_pending = FALSE
    BY <2>2, <2>5 DEF SameRest
  <2> QED BY <1>1, <2>1, <2>5, <2>7, <2>10, <2>11, StaysStep DEF n
<1> QED BY <1>2, <1>3

LEMMA FarJumpStep ==
    ASSUME IsGood(m, unreturned), NEW sel \in Jumps, FarJump(sel)
    PROVE  GoodStep(m, unreturned, m', unreturned')
<1> DEFINE n == Fetched
           direct == LoadSegment(n, "cs", sel, n.cpl)
           fault == SegmentFault("cs", sel, n.cpl)
           d == [n EXCEPT !.cs = Sel(sel.index, n.cpl), !.ip = 0]
<1>1. ~ m.reset /\ ~ m.f.vm /\ Continues(FarTransfer(n, sel, FALSE), Pending)
  BY DEF FarJump, Runs
<1>2. CASE sel.index = "null"
  <2>1. FarTransfer(n, sel, FALSE) = Raise(n, "GP") /\ "GP" \in Exceptions
    BY <1>2 DEF FarTransfer, Exceptions
  <2> QED BY <1>1, <2>1, FaultContinues
<1>3. CASE sel.index # "null"
  <2>1. Names(sel, {"code", "data", "readonly"})
    BY <1>3, ProtectedModeAssumption DEF OperandsAssumption
  <2>2. DescriptorOf(sel).type \in {"code", "data", "readonly"} /\ sel.index \in DOMAIN Table
    BY <2>1 DEF Names
  <2>3. FarTransfer(n, sel, FALSE) = IF direct.exception_pending THEN direct ELSE [direct EXCEPT !.ip = 0]
    BY <1>3, <2>2 DEF FarTransfer
  <2>4. Running(n, unreturned) /\ n.exception_pending = FALSE /\ Running(m, unreturned) /\ Like(n, m)
    BY <1>1, Begins
  <2>5. CASE fault # "none"
    <3>1. fault \in Exceptions /\ direct = Raise(n, fault)
      BY <2>5, SegmentFaults DEF LoadSegment
    <3>2. direct.exception_pending = TRUE
      BY <2>4, <3>1, FaultPends
    <3>3. Continues(Raise(n, fault), Pending)
      BY <1>1, <2>3, <3>1, <3>2
    <3> QED BY <1>1, <3>1, <3>3, FaultContinues
  <2>6. CASE fault = "none"
    <3>1. IsMachine(n) /\ n = [x \in Fields |-> n[x]]
      BY <2>4 DEF Running, IsMachine, HasStacks
    <3>2. n.f = m.f
      BY <2>4 DEF Like
    <3>3. ~ IsConforming(sel)
      BY <2>2 DEF IsConforming
    <3> HIDE DEF n
    <3>4. direct = [n EXCEPT !.cs = Sel(sel.index, n.cpl)]
      BY <2>6, <3>3 DEF LoadSegment
    <3>5. direct.exception_pending = FALSE /\ [direct EXCEPT !.ip = 0] = d
      BY <2>4, <3>1, <3>4 DEF Fields
    <3>6. Continues(d, Pending)
      BY <1>1, <2>3, <3>5
    <3>7. n.f.vm = FALSE /\ Fit(n.cs, n.ss, n.ds) /\ n.cpl = n.cs.rpl
      <4>1. n.f.vm \in BOOLEAN
        BY <3>1, MachineTypes
      <4>2. n.f.vm = FALSE
        BY <1>1, <3>2, <4>1
      <4> QED BY <3>1, <4>2 DEF IsMachine
    <3>8. /\ d = [x \in Fields |-> d[x]] /\ SameRest(d, n) /\ d.f = n.f /\ d.cpl = n.cpl
          /\ d.ss = n.ss /\ d.ds = n.ds /\ d.stack = n.stack /\ d.cs = Sel(sel.index, n.cs.rpl)
      BY <3>1, <3>7 DEF Fields, SameRest
    <3>9. d.cs.index = sel.index /\ d.cs.rpl = n.cs.rpl /\ n.cs.rpl \in {0, 3}
      BY <3>7, <3>8, FitRings DEF Sel
    <3> HIDE DEF d
    <3>10. SegmentFault("cs", d.cs, d.cs.rpl) = "none" /\ DescriptorOf(d.cs).type = "code"
      BY <1>3, <2>2, <2>6, <3>3, <3>7, <3>9 DEF SegmentFault, DescriptorOf, IsConforming
    <3>11. Names(d.cs, {"code", "conforming"})
      BY <2>2, <3>8, <3>9, <3>10 DEF Names, IsSelector
    <3>12. Fit(d.cs, d.ss, d.ds)
      BY <3>7, <3>8, <3>9, <3>10, <3>11 DEF Fit
    <3>13. /\ IsMachine(d) /\ SameTasks(d, n) /\ SameElsewhere(d, n)
           /\ Esp(d) <= Esp(n) /\ Agree(d.stack, n.stack, n.tr, 0, d.ss, Esp(d))
      BY <3>1, <3>7, <3>8, <3>9, <3>12, NewSegments
    <3>14. d.exception_pending = FALSE
      BY <2>4, <3>8 DEF SameRest
    <3> QED BY <1>1, <3>6, <3>8, <3>13, <3>14, StaysStep DEF n
  <2> QED BY <2>5, <2>6
<1> QED BY <1>2, <1>3

LEMMA PairIs ==
    ASSUME NEW x, NEW y
    PROVE  IsSeq(<<x, y>>) /\ Len(<<x, y>>) = 2 /\ <<x, y>>[1] = x /\ <<x, y>>[2] = y
<1>1. <<x, y>> \in Seq({x, y})
  OBVIOUS
<1> QED BY <1>1 DEF IsSeq

\* A call of code of the same ring.
LEMMA SameRingCall ==
    ASSUME NEW n, IsMachine(n), n.f.vm = FALSE, NEW cs, cs.rpl = n.cpl,
           Names(cs, {"code", "conforming"}), SegmentFault("cs", cs, cs.rpl) = "none",
           NEW k \in Nat, k <= Esp(n),
           NEW d, d = [x \in Fields |-> d[x]], NEW p, p = Push(n, Address(n)), SameRest(d, p),
           d.stack = p.stack, d.f = n.f, d.ss = n.ss, d.ds = n.ds, d.cpl = n.cpl, d.cs = cs
    PROVE  IsCall(n, d, k)
<1> DEFINE w == Address(n)
<1>1. IsSeq(w) /\ Len(w) = 2 /\ w[1] = n.cs /\ w[2] = [ip |-> n.ip]
  BY PairIs DEF Address
<1> HIDE DEF w
<1>2. HasStacks(n) /\ p = Push(n, w) /\ Fit(n.cs, n.ss, n.ds) /\ n.cpl = n.cs.rpl
  BY DEF IsMachine, w
<1>3. /\ HasStacks(p) /\ SameRest(p, n) /\ SameRegisters(p, n)
      /\ Stack(p) = Stack(n) \o w
      /\ \A y \in StackNames : y # n.ss.index => p.stack[y] = n.stack[y]
  <2> DEFINE q == Push(n, w)
  <2>1. /\ HasStacks(q) /\ SameRest(q, n) /\ SameRegisters(q, n)
        /\ Stack(q) = Stack(n) \o w
        /\ \A y \in StackNames : y # n.ss.index => q.stack[y] = n.stack[y]
    BY <1>1, <1>2, PushIs
  <2>2. p = q
    BY <1>2
  <2> HIDE DEF q
  <2> QED BY <2>1, <2>2
<1>4. SameRest(d, n)
  BY <1>3 DEF SameRest
<1>5. HasStacks(d)
  BY <1>3 DEF HasStacks, SameRest, SameRegisters
<1>6. Fit(d.cs, d.ss, d.ds)
  BY <1>2 DEF Fit
<1>7. IsMachine(d)
  BY <1>4, <1>5, <1>6 DEF IsMachine, SameRest
<1>8. Stack(d) = Stack(n) \o w
  BY <1>3 DEF Stack, SameRegisters
<1>9. Pushes(n, d, w)
  BY <1>3, <1>4, <1>7, <1>8 DEF Pushes
<1>10. Len(w) - 1 = 1
  BY <1>1
<1> QED BY <1>1, <1>9, <1>10 DEF IsCall

\* What a call through a gate leaves on the stack of ring 0.
IsCallWords(n, k, w) ==
    /\ IsSeq(w) /\ Len(w) = k + 4 /\ w[1] = n.ss /\ w[2] = [esp |-> Esp(n)]
    /\ w[Len(w)] = [ip |-> n.ip] /\ w[Len(w) - 1] = n.cs

LEMMA AppendedAt ==
    ASSUME NEW s, NEW w, IsSeq(s), IsSeq(w), NEW i \in 1 .. Len(w), NEW j, j = Len(s) + i
    PROVE  (s \o w)[j] = w[i]
BY Appended

LEMMA JoinedWords ==
    ASSUME NEW a, NEW b, NEW c, IsSeq(a), IsSeq(b), IsSeq(c)
    PROVE  LET w == (a \o b) \o c
               k == Len(a) + Len(b)
           IN  /\ IsSeq(w) /\ Len(a) \in Nat /\ Len(b) \in Nat /\ Len(c) \in Nat
               /\ Len(w) = k + Len(c)
               /\ \A i \in 1 .. Len(a) : w[i] = a[i]
               /\ \A i \in 1 .. Len(c) : w[k + i] = c[i]
<1> DEFINE y == a \o b
           w == y \o c
<1>1. IsSeq(y) /\ Len(y) = Len(a) + Len(b) /\ \A i \in 1 .. Len(a) : y[i] = a[i]
  BY Appended
<1>2. Len(a) \in Nat /\ Len(b) \in Nat /\ Len(c) \in Nat
  BY Appended
<1> HIDE DEF y
<1>3. IsSeq(w) /\ Len(w) = Len(y) + Len(c) /\ \A i \in 1 .. Len(y) : w[i] = y[i]
  BY <1>1, Appended
<1>4. \A i \in 1 .. Len(c) : \A j : j = Len(y) + i => w[j] = c[i]
  BY <1>1, AppendedAt
<1> HIDE DEF w
<1>5. \A i \in 1 .. Len(a) : w[i] = a[i]
  BY <1>1, <1>2, <1>3
<1>6. \A i \in 1 .. Len(c) : w[Len(a) + Len(b) + i] = c[i]
  BY <1>1, <1>4
<1> QED BY <1>1, <1>2, <1>3, <1>5, <1>6 DEF w, y

LEMMA CallWords ==
    ASSUME NEW n, IsMachine(n), NEW k \in Nat, k <= Esp(n)
    PROVE  IsCallWords(n, k, Outer(n) \o SubSeq(Stack(n), Esp(n) - k + 1, Esp(n)) \o Address(n))
<1> DEFINE a == Outer(n)
           b == SubSeq(Stack(n), Esp(n) - k + 1, Esp(n))
           c == Address(n)
           w == (a \o b) \o c
<1>1. IsSeq(a) /\ Len(a) = 2 /\ a[1] = n.ss /\ a[2] = [esp |-> Esp(n)]
  BY PairIs DEF Outer
<1>2. IsSeq(c) /\ Len(c) = 2 /\ c[1] = n.cs /\ c[2] = [ip |-> n.ip]
  BY PairIs DEF Address
<1>3. IsSeq(b) /\ Len(b) = k
  <2>1. PICK S : Stack(n) \in Seq(S)
    BY MachineTypes DEF IsSeq
  <2>2. Esp(n) \in Nat /\ Esp(n) = Len(Stack(n))
    BY MachineTypes DEF Esp
  <2>3. Esp(n) - k + 1 \in 1 .. Len(Stack(n)) + 1 /\ Esp(n) \in (Esp(n) - k + 1) - 1 .. Len(Stack(n))
    BY <2>2
  <2>4. b \in Seq(S) /\ Len(b) = Esp(n) - (Esp(n) - k + 1) + 1
    BY <2>1, <2>3, SubSeqProperties
  <2>5. Esp(n) - (Esp(n) - k + 1) + 1 = k
    BY <2>2
  <2> QED BY <2>4, <2>5 DEF IsSeq
<1> HIDE DEF a, b, c
<1>4. /\ IsSeq(w) /\ Len(w) = Len(b) + 4
      /\ w[1] = a[1] /\ w[2] = a[2] /\ w[Len(b) + 3] = c[1] /\ w[Len(b) + 4] = c[2]
  <2>1. /\ IsSeq(w) /\ Len(a) \in Nat /\ Len(b) \in Nat /\ Len(c) \in Nat
        /\ Len(w) = Len(a) + Len(b) + Len(c)
        /\ \A i \in 1 .. Len(a) : w[i] = a[i]
        /\ \A i \in 1 .. Len(c) : w[Len(a) + Len(b) + i] = c[i]
    <3>1. IsSeq(a) /\ IsSeq(b) /\ IsSeq(c)
      BY <1>1, <1>2, <1>3
    <3> QED BY <3>1, JoinedWords
  <2> HIDE DEF w
  <2>2. 1 \in 1 .. Len(a) /\ 2 \in 1 .. Len(a) /\ 1 \in 1 .. Len(c) /\ 2 \in 1 .. Len(c)
    BY <1>1, <1>2
  <2>3. Len(a) + Len(b) + 1 = Len(b) + 3 /\ Len(a) + Len(b) + 2 = Len(b) + 4
        /\ Len(a) + Len(b) + Len(c) = Len(b) + 4
    BY <1>1, <1>2, <2>1
  <2>4. w[1] = a[1] /\ w[2] = a[2] /\ w[Len(a) + Len(b) + 1] = c[1] /\ w[Len(a) + Len(b) + 2] = c[2]
    BY <2>1, <2>2
  <2> QED BY <2>1, <2>3, <2>4
<1> HIDE DEF w
<1>5. Len(w) = k + 4 /\ Len(w) - 1 = k + 3
  BY <1>3, <1>4
<1>6. IsCallWords(n, k, w)
  BY <1>1, <1>2, <1>3, <1>4, <1>5 DEF IsCallWords
<1> QED BY <1>6 DEF w, a, b, c

\* A call of a procedure of ring 0 from ring 3.
LEMMA InwardCall ==
    ASSUME NEW n, IsMachine(n), n.f.vm = FALSE, n.cpl = 3, NEW cs, IsKernelCode(cs),
           DescriptorOf(cs).present, NEW k \in Nat, k <= Esp(n), NEW w, IsCallWords(n, k, w),
           NEW p, p = Push(ToRing0(n), w),
           NEW d, d = [x \in Fields |-> d[x]], SameRest(d, p), d.stack = p.stack, d.f = p.f,
           d.ss = p.ss, d.ds = p.ds, d.cpl = 0, d.cs = cs
    PROVE  IsCall(n, d, k)
<1> DEFINE o == ToRing0(n)
<1>7. IsSeq(w) /\ Len(w) = k + 4 /\ w[1] = n.ss /\ w[2] = [esp |-> Esp(n)]
      /\ w[Len(w)] = [ip |-> n.ip] /\ w[Len(w) - 1] = n.cs
  BY DEF IsCallWords
<1>8. p = Push(o, w)
  OBVIOUS
<1>9. HasStacks(n)
  BY DEF IsMachine
<1>10. /\ HasStacks(o) /\ SameRest(o, n) /\ o.ss = Tasks[n.tr].ss0
       /\ o.f = n.f /\ o.ds = n.ds /\ Stack(o) = <<>>
       /\ \A x \in StackNames : x # o.ss.index => o.stack[x] = n.stack[x]
  BY <1>9, Ring0Is
<1> HIDE DEF o
<1>11. /\ HasStacks(p) /\ SameRest(p, o) /\ SameRegisters(p, o) /\ Stack(p) = Stack(o) \o w
       /\ \A x \in StackNames : x # o.ss.index => p.stack[x] = o.stack[x]
  <2> DEFINE q == Push(o, w)
  <2>1. /\ HasStacks(q) /\ SameRest(q, o) /\ SameRegisters(q, o) /\ Stack(q) = Stack(o) \o w
        /\ \A x \in StackNames : x # o.ss.index => q.stack[x] = o.stack[x]
    <3>1. HasStacks(o) /\ IsSeq(w)
      BY <1>7, <1>10
    <3> QED BY <3>1, PushIs
  <2>2. p = q
    BY <1>8
  <2> HIDE DEF q
  <2> QED BY <2>1, <2>2
<1>12. /\ SameRest(d, n) /\ d.f = n.f /\ d.ds = n.ds /\ d.ss = Tasks[n.tr].ss0
       /\ \A x \in StackNames : x # d.ss.index => d.stack[x] = n.stack[x]
  BY <1>10, <1>11 DEF SameRest, SameRegisters
<1>13. HasStacks(d)
  BY <1>11 DEF HasStacks, SameRest
<1>14. Stack(d) = w
  <2>1. Stack(p) = w
    BY <1>7, <1>10, <1>11, JoinMany, EmptySeq DEF IsSeq
  <2> QED BY <2>1 DEF Stack
<1>15. d.ss # n.ss /\ n.ss.rpl = 3 /\ Names(d.ss, {"data"}) /\ SegmentFault("ss", d.ss, 0) = "none"
  <2>1. n.ss.rpl = 3 /\ n.tr \in DOMAIN Tasks
    BY MachineTypes
  <2>2. Names(d.ss, {"data"}) /\ SegmentFault("ss", d.ss, 0) = "none"
    BY <1>12, <2>1, ProtectedModeAssumption DEF TasksAssumption
  <2>3. d.ss.rpl = 0
    BY <2>2 DEF SegmentFault
  <2> QED BY <2>1, <2>2, <2>3
<1>16. Fit(d.cs, d.ss, d.ds)
  <2>1. cs.rpl = 0 /\ Names(cs, {"code", "conforming"}) /\ SegmentFault("cs", cs, 0) = "none"
    <3>1. cs.index # "null" /\ Names(cs, {"code"}) /\ cs.rpl = 0 /\ DescriptorOf(cs).dpl = 0
      BY ProtectedModeAssumption DEF IsKernelCode, Names, TableAssumption
    <3> QED BY <3>1 DEF Names, SegmentFault, IsConforming
  <2>2. Fit(n.cs, n.ss, n.ds)
    BY DEF IsMachine
  <2>3. \A x \in DOMAIN Table : 0 <= Table[x].dpl
    BY ProtectedModeAssumption DEF TableAssumption
  <2>4. \/ d.ds = Null
        \/ d.ds.index \in DOMAIN Table /\ (IsConforming(d.ds) \/ cs.rpl <= DescriptorOf(d.ds).dpl)
    BY <1>12, <2>1, <2>2, <2>3 DEF Fit, DescriptorOf
  <2> QED BY <1>15, <2>1, <2>4 DEF Fit
<1>17. IsMachine(d)
  <2>1. d.cpl = d.cs.rpl
    BY DEF IsKernelCode
  <2> QED BY <1>12, <1>13, <1>16, <2>1 DEF IsMachine, SameRest
<1>18. Pushes(n, d, w)
  BY <1>12, <1>14, <1>15, <1>17 DEF Pushes
<1> QED BY <1>7, <1>12, <1>15, <1>18 DEF IsCall

LEMMA CallStep ==
    ASSUME IsGood(m, unreturned), ~ m.reset, NEW d, NEW k, IsCall(Fetched, d, k), Enters(d, "call", k)
    PROVE  GoodStep(m, unreturned, m', unreturned')
<1> DEFINE b == Fetched
           e == CallEntryOf(b, d, k)
           vs == [unreturned EXCEPT ![m.tr] = Append(@, e)]
<1>1. /\ Running(m, unreturned) /\ Running(b, unreturned)
      /\ TwoTasks => AllKeep(b, unreturned)
      /\ b.exception_pending = FALSE /\ b.tr = m.tr
  BY Begins
<1>2. m.tr \in DOMAIN Tasks
  BY <1>1 DEF Running, Nested
<1>3. IsCall(b, d, k) /\ Enters(d, "call", k)
  OBVIOUS
<1> HIDE DEF b, e
<1>4. /\ Running(d, vs) /\ (AllKeep(b, unreturned) => AllKeep(d, vs))
      /\ d.exception_pending = FALSE /\ d.tr = m.tr
  BY <1>1, <1>3, EntersByCall DEF e
<1>5. m' = Finished(d) /\ unreturned' = vs
  BY <1>1, <1>3, <1>4, EnteredByCall DEF b, e
<1>6. Restores(unreturned, d, vs)
  BY <1>1, <1>2, NothingReturns
<1>7. Restartable(m, d)
  BY <1>4 DEF Restartable
<1>8. GoodStep(m, unreturned, Finished(d), vs)
  BY <1>1, <1>4, <1>6, <1>7, Ends
<1> QED BY <1>5, <1>8

\* A call that switches tasks.
LEMMA TaskCallStep ==
    ASSUME IsGood(m, unreturned), ~ m.reset, NEW task, IsSelector(task), task.index \in DOMAIN Table,
           Enters(TaskSwitch(Fetched, task, TRUE, FALSE), "call", 0)
    PROVE  GoodStep(m, unreturned, m', unreturned')
<1> DEFINE n == Fetched
           fault == TaskFault(n, task, FALSE)
           u == task.index
           d == TaskSwitched(n, task, TRUE, FALSE, <<>>)
<1>1. CASE fault # "none"
  <2>1. fault \in Exceptions /\ TaskSwitch(n, task, TRUE, FALSE) = Raise(n, fault)
    BY <1>1 DEF TaskFault, Exceptions, TaskSwitch
  <2> QED BY <2>1, FaultStep
<1>2. CASE fault = "none"
  <2>1. TaskSwitch(n, task, TRUE, FALSE) = d
    BY <1>2 DEF TaskSwitch
  <2>2. /\ Running(m, unreturned) /\ Running(n, unreturned)
        /\ TwoTasks => AllKeep(n, unreturned)
        /\ n.exception_pending = FALSE /\ n.tr = m.tr
    BY Begins
  <2>3. IsMachine(n) /\ Nested(n)
    BY <2>2 DEF Running
  <2>4. Table[u].type = "tss" /\ ~ n.busy[u]
    BY <1>2 DEF TaskFault, DescriptorOf
  <2>5. u \in DOMAIN Tasks /\ u # n.tr
    <3>1. u \in DOMAIN Tasks
      BY <2>4, ProtectedModeAssumption DEF TableAssumption
    <3>2. n.busy[n.tr]
      BY <2>3 DEF Nested, IsChain
    <3> QED BY <2>4, <3>1, <3>2
  <2>6. Enters(d, "call", 0)
    BY <2>1
  <2>7. Called(n, d, u)
    <3>1. ASSUME NEW call \in BOOLEAN, call = TRUE
          PROVE  LET x == TaskSwitched(n, task, call, ~ call, <<>>)
                 IN  /\ SwitchesTo(n, x, u) /\ x.f.nt = call
                     /\ x.busy = BusyAfter(n, u, call)
                     /\ x.link = [n.link EXCEPT ![u] = IF call THEN n.tr ELSE @]
      BY <2>2, <2>5, SwitchIs
    <3>2. SwitchesTo(n, d, u) /\ d.f.nt = TRUE /\ d.busy = BusyAfter(n, u, TRUE)
          /\ d.link = [n.link EXCEPT ![u] = n.tr]
      <4>1. (~ TRUE) = FALSE
        OBVIOUS
      <4> QED BY <3>1, <4>1
    <3> HIDE DEF d
    <3>3. n.busy \in [DOMAIN Tasks -> BOOLEAN]
      BY <2>3 DEF IsMachine
    <3>4. BusyAfter(n, u, TRUE) = [t \in DOMAIN Tasks |-> t = u \/ n.busy[t]]
      BY <3>3 DEF BusyAfter
    <3> QED BY <3>2, <3>4 DEF Called
  <2> HIDE DEF d, n, u
  <2>8. d.tr = u /\ d.exception_pending = FALSE
    BY <2>2, <2>7 DEF Called, SwitchesTo
  <2>9. d.tr # m.tr
    BY <2>2, <2>5, <2>8
  <2>10. PICK e : /\ m' = Finished(d) /\ IsTaskEntry(n, d, e)
                  /\ unreturned' = [unreturned EXCEPT ![d.tr] = Append(@, e)]
    BY <2>2, <2>6, <2>8, <2>9, EnteredByTask DEF n
  <2> DEFINE vs == [unreturned EXCEPT ![u] = Append(@, e)]
  <2>11. Running(d, vs) /\ (AllKeep(n, unreturned) /\ TwoTasks => AllKeep(d, vs))
    BY <2>2, <2>4, <2>5, <2>7, <2>10, TaskCalled
  <2>12. Restores(unreturned, d, vs)
    BY <2>2, <2>5, NothingReturns
  <2>13. Restartable(m, d)
    BY <2>8 DEF Restartable
  <2>14. unreturned' = vs
    BY <2>8, <2>10
  <2>15. TwoTasks => AllKeep(d, vs)
    BY <2>2, <2>11
  <2>16. GoodStep(m, unreturned, Finished(d), vs)
    BY <2>8, <2>11, <2>12, <2>13, <2>15, Ends
  <2> QED BY <2>10, <2>14, <2>16
<1> QED BY <1>1, <1>2

\* A call through a gate.
LEMMA GateCallStep ==
    ASSUME IsGood(m, unreturned), ~ m.reset, ~ m.f.vm, NEW sel, sel.index \in DOMAIN Table,
           DescriptorOf(sel).type = "callGate", Esp(m) >= DescriptorOf(sel).params,
           Enters(ThroughGate(Fetched, sel, TRUE), "call", DescriptorOf(sel).params)
    PROVE  GoodStep(m, unreturned, m', unreturned')
<1> DEFINE n == Fetched
           g == DescriptorOf(sel)
           k == g.params
           cs == g.target
           target == DescriptorOf(cs)
           w == Outer(n) \o SubSeq(Stack(n), Esp(n) - k + 1, Esp(n)) \o Address(n)
           pin == Push(ToRing0(n), w)
           din == [pin EXCEPT !.cs = Sel(cs.index, target.dpl), !.cpl = target.dpl, !.ip = 0]
           psame == Push(n, Address(n))
           dsame == [psame EXCEPT !.cs = cs, !.ip = 0, !.cpl = IF IsConforming(cs) THEN @ ELSE target.dpl]
           x == ThroughGate(n, sel, TRUE)
<1>1. k \in Nat /\ (cs.index = "null" \/ IsKernelCode(cs))
  BY ProtectedModeAssumption DEF TableAssumption, DescriptorOf
<1>2. /\ Running(m, unreturned) /\ Running(n, unreturned) /\ Like(n, m)
      /\ n.exception_pending = FALSE /\ n.tr = m.tr
  BY Begins
<1>3. IsMachine(n) /\ n.f.vm = FALSE /\ n.cpl \in {0, 3} /\ k <= Esp(n) /\ HasStacks(n)
  <2>1. IsMachine(n)
    BY <1>2 DEF Running
  <2>2. n.f = m.f /\ Esp(n) = Esp(m) /\ Esp(n) \in Nat /\ n.f.vm \in BOOLEAN /\ n.cpl \in {0, 3}
    BY <1>2, <2>1, LikeRuns, MachineTypes DEF Like
  <2>3. k <= Esp(n)
    BY <1>1, <2>2
  <2> HIDE DEF n
  <2>4. n.f.vm = FALSE
    BY <2>2
  <2>5. HasStacks(n)
    BY <2>1 DEF IsMachine
  <2> QED BY <2>1, <2>2, <2>3, <2>4, <2>5
<1> HIDE DEF n
<1>4. \/ x = Raise(n, "NP") \/ x = Raise(n, "GP")
      \/ /\ cs.index # "null" /\ target.present
         /\ x = IF target.type = "code" /\ target.dpl < n.cpl THEN din ELSE dsame
  <2> HIDE DEF w, pin, psame
  <2> QED BY DEF ThroughGate, w, pin, psame
<1>5. Enters(x, "call", k)
  BY DEF n
<1>6. "NP" \in Exceptions /\ "GP" \in Exceptions
  BY DEF Exceptions
<1>7. CASE x = Raise(n, "NP") \/ x = Raise(n, "GP")
  <2> HIDE DEF x, k
  <2> QED BY <1>5, <1>6, <1>7, FaultStep DEF n
<1>8. CASE /\ cs.index # "null" /\ target.present
           /\ x = IF target.type = "code" /\ target.dpl < n.cpl THEN din ELSE dsame
  <2>1. IsKernelCode(cs) /\ target.type = "code" /\ target.dpl = 0 /\ cs = Sel(cs.index, 0)
        /\ cs.rpl = 0 /\ Names(cs, {"code"})
    BY <1>1, <1>8 DEF IsKernelCode, Names, IsSelector
  <2>2. ASSUME NEW d, x = d, IsCall(n, d, k) PROVE GoodStep(m, unreturned, m', unreturned')
    <3>1. Enters(d, "call", k) /\ IsCall(Fetched, d, k)
      BY <1>5, <2>2 DEF n
    <3> HIDE DEF k
    <3> QED BY <3>1, CallStep
  <2>3. CASE n.cpl = 3
    <3>1. x = din
      <4> HIDE DEF x, din, dsame
      <4> QED BY <1>8, <2>1, <2>3
    <3>2. IsCallWords(n, k, w)
      BY <1>1, <1>3, CallWords
    <3>3. IsSeq(w)
      BY <3>2 DEF IsCallWords
    <3> HIDE DEF w, k, x
    <3>4. HasStacks(pin)
      <4> DEFINE o == ToRing0(n)
      <4>1. HasStacks(o)
        BY <1>3, Ring0Is
      <4> HIDE DEF o
      <4>2. HasStacks(Push(o, w))
        BY <3>3, <4>1, PushIs
      <4> QED BY <4>2 DEF o
    <3>5. pin = Push(ToRing0(n), w)
      OBVIOUS
    <3> HIDE DEF pin
    <3>6. /\ din = [y \in Fields |-> din[y]] /\ SameRest(din, pin) /\ din.stack = pin.stack
          /\ din.f = pin.f /\ din.ss = pin.ss /\ din.ds = pin.ds /\ din.cpl = 0
          /\ din.cs = Sel(cs.index, 0)
      <4>1. pin = [y \in Fields |-> pin[y]]
        BY <3>4 DEF HasStacks
      <4> QED BY <2>1, <4>1 DEF Fields, SameRest
    <3> HIDE DEF din
    <3>7. din.cs = cs
      BY <2>1, <3>6
    <3>8. IsCall(n, din, k)
      BY <1>1, <1>3, <1>8, <2>1, <2>3, <3>2, <3>5, <3>6, <3>7, InwardCall DEF k
    <3> QED BY <2>2, <3>1, <3>8
  <2>4. CASE n.cpl = 0
    <3>1. x = dsame
      <4>1. ~ (target.dpl < n.cpl)
        BY <2>1, <2>4
      <4> HIDE DEF x, din, dsame
      <4> QED BY <1>8, <4>1
    <3>2. HasStacks(psame)
      <4>1. IsSeq(Address(n))
        BY PairIs DEF Address
      <4> QED BY <1>3, <4>1, PushIs
    <3>3. SameRegisters(psame, n)
      <4>1. IsSeq(Address(n))
        BY PairIs DEF Address
      <4> QED BY <1>3, <4>1, PushIs
    <3>4. psame = Push(n, Address(n))
      OBVIOUS
    <3> HIDE DEF psame, x, k
    <3>5. /\ dsame = [y \in Fields |-> dsame[y]] /\ SameRest(dsame, psame) /\ dsame.stack = psame.stack
          /\ dsame.f = psame.f /\ dsame.ss = psame.ss /\ dsame.ds = psame.ds /\ dsame.cpl = 0
          /\ dsame.cs = cs
      <4>1. psame = [y \in Fields |-> psame[y]]
        BY <3>2 DEF HasStacks
      <4>2. ~ IsConforming(cs)
        BY <2>1 DEF IsConforming
      <4> QED BY <2>1, <4>1, <4>2 DEF Fields, SameRest
    <3> HIDE DEF dsame
    <3>6. dsame.f = n.f /\ dsame.ss = n.ss /\ dsame.ds = n.ds /\ dsame.cpl = n.cpl
      BY <2>4, <3>3, <3>5 DEF SameRegisters
    <3>7. Names(cs, {"code", "conforming"}) /\ SegmentFault("cs", cs, cs.rpl) = "none" /\ cs.rpl = n.cpl
      BY <1>8, <2>1, <2>4 DEF Names, SegmentFault, IsConforming
    <3>8. k \in Nat /\ k <= Esp(n)
      BY <1>1, <1>3 DEF k
    <3>9. IsCall(n, dsame, k)
      BY <1>3, <3>4, <3>5, <3>6, <3>7, <3>8, SameRingCall
    <3> QED BY <2>2, <3>1, <3>9
  <2> QED BY <1>3, <2>3, <2>4
<1> QED BY <1>4, <1>7, <1>8

\* A call of a code segment.
LEMMA CodeCallStep ==
    ASSUME IsGood(m, unreturned), ~ m.reset, ~ m.f.vm, NEW sel, Names(sel, {"code"}),
           SegmentFault("cs", sel, m.cpl) = "none",
           LET direct == LoadSegment(Push(Fetched, Address(Fetched)), "cs", sel, Fetched.cpl)
           IN  Enters(IF direct.exception_pending THEN direct ELSE [direct EXCEPT !.ip = 0], "call", 0)
    PROVE  GoodStep(m, unreturned, m', unreturned')
<1> DEFINE n == Fetched
           p == Push(n, Address(n))
           cs == Sel(sel.index, n.cpl)
           direct == LoadSegment(p, "cs", sel, n.cpl)
           d == [p EXCEPT !.cs = cs, !.ip = 0]
<1>1. /\ Running(m, unreturned) /\ Running(n, unreturned) /\ Like(n, m)
      /\ n.exception_pending = FALSE /\ n.tr = m.tr
  BY Begins
<1>2. IsMachine(n) /\ n.f.vm = FALSE /\ n.cpl \in {0, 3} /\ n.cpl = m.cpl /\ HasStacks(n)
      /\ Esp(n) \in Nat
  <2>1. IsMachine(n) /\ n.f = m.f /\ n.cpl = m.cpl
    BY <1>1 DEF Running, Like
  <2>2. n.f.vm \in BOOLEAN /\ n.cpl \in {0, 3} /\ Esp(n) \in Nat
    BY <2>1, MachineTypes
  <2> HIDE DEF n
  <2>3. HasStacks(n) /\ n.f.vm = FALSE
    BY <2>1, <2>2 DEF IsMachine
  <2> QED BY <2>1, <2>2, <2>3
<1>3. Enters(IF direct.exception_pending THEN direct ELSE [direct EXCEPT !.ip = 0], "call", 0)
  OBVIOUS
<1> HIDE DEF n
<1>4. IsSeq(Address(n))
  BY PairIs DEF Address
<1>5. HasStacks(p) /\ SameRest(p, n) /\ SameRegisters(p, n)
  BY <1>2, <1>4, PushIs
<1>6. p = Push(n, Address(n))
  OBVIOUS
<1> HIDE DEF p
<1>7. /\ sel.index # "null" /\ ~ IsConforming(sel) /\ DescriptorOf(sel).type = "code"
      /\ sel.index \in DOMAIN Table
  BY ProtectedModeAssumption DEF Names, TableAssumption, IsConforming
<1>8. direct = [p EXCEPT !.cs = cs]
  BY <1>2, <1>7 DEF LoadSegment
<1>9. p = [x \in Fields |-> p[x]] /\ p.exception_pending = FALSE
  BY <1>1, <1>5 DEF HasStacks, SameRest
<1>10. direct.exception_pending = FALSE /\ [direct EXCEPT !.ip = 0] = d
  BY <1>8, <1>9 DEF Fields
<1>11. Enters(d, "call", 0)
  <2> HIDE DEF direct, d
  <2> QED BY <1>3, <1>10
<1>12. cs.index = sel.index /\ cs.rpl = n.cpl /\ IsSelector(cs)
  BY <1>2 DEF Sel, IsSelector
<1>13. /\ d = [x \in Fields |-> d[x]] /\ SameRest(d, p) /\ d.stack = p.stack
       /\ d.f = p.f /\ d.ss = p.ss /\ d.ds = p.ds /\ d.cpl = p.cpl /\ d.cs = cs
  BY <1>9 DEF Fields, SameRest
<1> HIDE DEF cs, d, direct
<1>14. Names(cs, {"code", "conforming"})
  BY <1>7, <1>12 DEF Names, DescriptorOf
<1>15. SegmentFault("cs", cs, cs.rpl) = "none"
  BY <1>2, <1>12 DEF SegmentFault, DescriptorOf, IsConforming
<1>16. d.f = n.f /\ d.ss = n.ss /\ d.ds = n.ds /\ d.cpl = n.cpl
  BY <1>5, <1>13 DEF SameRegisters
<1>17. 0 \in Nat /\ 0 <= Esp(n)
  BY <1>2
<1>18. IsCall(n, d, 0)
  BY <1>2, <1>6, <1>12, <1>13, <1>14, <1>15, <1>16, <1>17, SameRingCall
<1> QED BY <1>11, <1>18, CallStep DEF n

LEMMA FarCallStep ==
    ASSUME IsGood(m, unreturned), NEW sel \in Calls, FarCall(sel)
    PROVE  GoodStep(m, unreturned, m', unreturned')
<1> DEFINE n == Fetched
           d == DescriptorOf(sel)
           params == IF d.type = "callGate" THEN d.params ELSE 0
           x == FarTransfer(n, sel, TRUE)
           direct == LoadSegment(Push(n, Address(n)), "cs", sel, n.cpl)
<1>1. /\ ~ m.reset /\ ~ m.f.vm /\ (IsCode(sel) => SegmentFault("cs", sel, m.cpl) = "none")
      /\ Esp(m) >= params /\ Enters(x, "call", params)
  BY DEF FarCall, Runs
<1>2. Names(sel, {"code", "callGate", "tss", "taskGate"})
  BY ProtectedModeAssumption DEF OperandsAssumption
<1>3. /\ d.type \in {"code", "callGate", "tss", "taskGate"} /\ sel.index \in DOMAIN Table
      /\ sel.index # "null" /\ IsSelector(sel)
  BY <1>2, ProtectedModeAssumption DEF Names, TableAssumption
<1> HIDE DEF n
<1>4. CASE d.type = "callGate"
  <2>1. x = ThroughGate(n, sel, TRUE) /\ params = d.params
    BY <1>3, <1>4 DEF FarTransfer
  <2>2. Enters(ThroughGate(Fetched, sel, TRUE), "call", d.params) /\ Esp(m) >= d.params
    BY <1>1, <2>1 DEF n
  <2> QED BY <1>1, <1>3, <1>4, <2>2, GateCallStep
<1>5. CASE d.type \in {"tss", "taskGate"}
  <2> DEFINE task == IF d.type = "tss" THEN sel ELSE d.target
  <2>1. params = 0 /\ x = IF ~ d.present THEN Raise(n, "NP") ELSE TaskSwitch(n, task, TRUE, FALSE)
    BY <1>3, <1>5 DEF FarTransfer
  <2>2. Enters(IF ~ d.present THEN Raise(n, "NP") ELSE TaskSwitch(n, task, TRUE, FALSE), "call", 0)
    BY <1>1, <2>1
  <2>3. IsSelector(task) /\ task.index \in DOMAIN Table
    BY <1>3, <1>5, ProtectedModeAssumption DEF TableAssumption, DescriptorOf
  <2>4. "NP" \in Exceptions
    BY DEF Exceptions
  <2> HIDE DEF task, d
  <2>5. CASE d.present
    BY <1>1, <2>2, <2>3, <2>5, TaskCallStep DEF n
  <2>6. CASE ~ d.present
    BY <1>1, <2>2, <2>4, <2>6, FaultStep DEF n
  <2> QED BY <2>5, <2>6
<1>6. CASE d.type = "code"
  <2>1. params = 0 /\ x = IF direct.exception_pending THEN direct ELSE [direct EXCEPT !.ip = 0]
    BY <1>3, <1>6 DEF FarTransfer
  <2>2. Enters(IF direct.exception_pending THEN direct ELSE [direct EXCEPT !.ip = 0], "call", 0)
    BY <1>1, <2>1
  <2>3. Names(sel, {"code"}) /\ IsCode(sel)
    BY <1>3, <1>6 DEF Names, IsCode
  <2> QED BY <1>1, <2>2, <2>3, CodeCallStep DEF n
<1> QED BY <1>3, <1>4, <1>5, <1>6

\* What is returned from, with its frame on top of the stack.
LEMMA LastIs ==
    ASSUME NEW n, NEW us, Running(n, us), us[n.tr] # <<>>, NEW e, e = Last(us[n.tr]),
           e.kind # "task", e.esp = Esp(n)
    PROVE  /\ IsEntry(n.tr, e, Len(us[n.tr])) /\ IsTransfer(n.tr, e) /\ KeepsFlags(e, Context(n))
           /\ Frame(e, Stack(n)) /\ e.ss = n.ss /\ e.esp = Esp(n)
<1> DEFINE x == us[n.tr]
           k == Len(x)
           c == Context(n)
<1>1. c.ss = n.ss /\ c.esp = Esp(n) /\ IsHistory(n.tr, x, c, n.stack) /\ IsSeq(x) /\ Esp(n) \in Nat
  BY Current
<1>2. x # <<>> /\ e = Last(x)
  OBVIOUS
<1> HIDE DEF x, c
<1>3. k \in 1 .. Len(x) /\ x[k] = e /\ k \in Nat
  BY <1>1, <1>2, Shorter
<1>4. After(x, c, k) = c
  BY DEF After
<1>5. IsEntry(n.tr, e, k) /\ e.ss = c.ss /\ KeepsFlags(e, c)
  BY <1>1, <1>3, <1>4 DEF IsHistory
<1>6. Live(x, c, k)
  <2> SUFFICES ASSUME NEW j \in k .. Len(x) PROVE x[k].esp <= After(x, c, j).esp
    BY DEF Live
  <2>1. j = k
    BY <1>3
  <2> QED BY <1>1, <1>3, <1>4, <2>1
<1>7. Frame(e, n.stack[e.ss.index])
  BY <1>1, <1>3, <1>6 DEF IsHistory
<1>8. Frame(e, Stack(n))
  BY <1>1, <1>5, <1>7 DEF Stack
<1>9. IsTransfer(n.tr, e)
  BY <1>5 DEF IsEntry
<1> QED BY <1>1, <1>5, <1>8, <1>9 DEF c, x

LEMMA ChangeReturnStep ==
    ASSUME IsGood(m, unreturned), NEW sel \in Returns, ChangeReturn(sel)
    PROVE  GoodStep(m, unreturned, m', unreturned')
<1> DEFINE n == Fetched
           x == unreturned[n.tr]
           e == Last(x)
           e2 == [e EXCEPT !.intact = FALSE]
           x2 == Append(Front(x), e2)
           vs == [unreturned EXCEPT ![n.tr] = x2]
           d == [n EXCEPT !.stack[n.ss.index][Esp(n) - 1] = sel]
<1>1. /\ ~ m.reset /\ Pending # <<>> /\ Last(Pending).kind \in {"call", "interrupt"}
      /\ Last(Pending).ss = m.ss /\ Last(Pending).esp = Esp(m) /\ Last(Pending).intact
      /\ WordAt(m, 2) # Real /\ sel.rpl = WordAt(m, 2).rpl
      /\ Continues([n EXCEPT !.stack[m.ss.index][Esp(m) - 1] = sel],
                   Append(Front(Pending), [Last(Pending) EXCEPT !.intact = FALSE]))
  BY DEF ChangeReturn, Returning
<1>2. /\ Running(m, unreturned) /\ Running(n, unreturned) /\ Like(n, m)
      /\ TwoTasks => AllKeep(n, unreturned)
      /\ n.exception_pending = FALSE /\ n.tr = m.tr
  BY <1>1, Begins
<1>3. Esp(n) = Esp(m) /\ Stack(n) = Stack(m) /\ n.ss = m.ss
  BY <1>2, LikeRuns DEF Like
<1>4. x = Pending
  BY <1>2 DEF Pending
<1>5. Continues(d, x2)
  BY <1>1, <1>3, <1>4
<1> HIDE DEF n
<1>6. x # <<>> /\ e.kind \in {"call", "interrupt"} /\ e.esp = Esp(n) /\ e.intact /\ e.ss = n.ss
  BY <1>1, <1>3, <1>4
<1>7. WordAt(n, 2) # Real /\ sel.rpl = WordAt(n, 2).rpl
  BY <1>1, <1>3 DEF WordAt
<1>8. /\ IsMachine(n) /\ n.tr \in DOMAIN Tasks /\ Esp(n) \in Nat /\ IsSeq(Stack(n))
      /\ n.ss \in StacksOf(n.tr) /\ n.ss.index \in StackNames /\ IsSeq(x)
      /\ unreturned = [t \in DOMAIN Tasks |-> unreturned[t]]
  BY <1>2, Current, MachineTypes DEF Running
<1> HIDE DEF x2
<1>9. IsEntry(n.tr, e, Len(x)) /\ IsTransfer(n.tr, e) /\ Frame(e, Stack(n)) /\ 2 <= e.esp /\ e.esp \in Nat
  <2>1. IsEntry(n.tr, e, Len(x)) /\ IsTransfer(n.tr, e) /\ Frame(e, Stack(n))
    BY <1>2, <1>6, LastIs
  <2> HIDE DEF e
  <2>2. e.kind # "task"
    BY <1>6
  <2>3. FrameSize(e) \in Nat /\ FrameSize(e) <= e.esp /\ 2 <= FrameSize(e) /\ e.esp \in Nat
    BY <2>1, <2>2, EntryTypes
  <2> QED BY <2>1, <2>3
<1>10. ~ e.from.f.vm /\ sel.rpl = e.from.cs.rpl
  <2>1. Word(e, Stack(n), 2) = WordAt(n, 2)
    BY <1>6 DEF Word, WordAt
  <2>2. WordAt(n, 2) = e.from.cs
    BY <1>6, <1>9, <2>1 DEF Frame
  <2>3. IsContext(e.from)
    BY <1>9 DEF IsTransfer
  <2>4. e.from.f.vm => e.from.cs = Real
    BY <2>3 DEF IsContext
  <2> QED BY <1>7, <2>2, <2>4
<1> DEFINE s == Stack(n)
           j == Esp(n) - 1
           r == [s EXCEPT ![j] = sel]
<1>11. j \in 1 .. Len(s)
  BY <1>6, <1>8, <1>9 DEF Esp
<1>12. IsSeq(r) /\ Len(r) = Len(s) /\ SameBut(r, s, Esp(n), j, sel)
  <2> HIDE DEF s, j
  <2>1. IsSeq(s)
    BY <1>8 DEF s
  <2>2. /\ IsSeq(r) /\ Len(r) = Len(s) /\ r[j] = sel
        /\ \A i \in 1 .. Len(s) : i # j => r[i] = s[i]
    BY <1>11, <2>1, Changed
  <2>3. Esp(n) = Len(s)
    BY DEF Esp, s
  <2> HIDE DEF r
  <2> QED BY <2>2, <2>3 DEF SameBut
<1>13. HasStacks(n) /\ n = [y \in Fields |-> n[y]] /\ n.stack = [y \in StackNames |-> n.stack[y]]
  BY <1>8 DEF IsMachine, HasStacks
<1>14. n.stack[n.ss.index] = s
  BY DEF Stack
<1>15. d.stack = [n.stack EXCEPT ![n.ss.index] = r]
  BY <1>13, <1>14 DEF Fields
<1> HIDE DEF r, s, j
<1>16. /\ d.stack = [y \in StackNames |-> d.stack[y]] /\ d.stack[n.ss.index] = r
       /\ \A y \in StackNames : y # n.ss.index => d.stack[y] = n.stack[y]
  <2> HIDE DEF d
  <2> QED BY <1>8, <1>13, <1>15
<1>17. d = [y \in Fields |-> d[y]] /\ SameRest(d, n) /\ SameRegisters(d, n)
  BY <1>13 DEF Fields, SameRest, SameRegisters
<1> HIDE DEF d
<1>18. HasStacks(d)
  BY <1>12, <1>13, <1>16, <1>17 DEF HasStacks, SameRest, SameRegisters
<1>19. IsMachine(d) /\ SameTasks(d, n) /\ SameElsewhere(d, n) /\ d.ss = n.ss /\ d.f = n.f
  BY <1>8, <1>16, <1>17, <1>18, SameMachine
<1>20. Stack(d) = r /\ Esp(d) = Esp(n)
  <2>1. Stack(d) = r
    BY <1>16, <1>19 DEF Stack
  <2> QED BY <1>12, <2>1 DEF Esp, s
<1>21. Context(d) = Context(n)
  BY <1>17, <1>20 DEF Context, SameRegisters
<1>22. /\ IsHistory(n.tr, x, Context(n), n.stack) /\ Context(n).esp = Esp(n)
       /\ (n.f.nt => n.link[n.tr] # n.tr) /\ \A i \in 1 .. Len(x) : IsLinked(n, n.tr, x[i])
  BY <1>2, Current
<1>23. IsHistory(n.tr, x2, Context(d), d.stack)
  <2>1. SameBut(d.stack[e.ss.index], n.stack[e.ss.index], e.esp, e.esp - 1, sel)
    BY <1>6, <1>12, <1>14, <1>16 DEF j
  <2>2. \A y \in StacksOf(n.tr) : y # e.ss => d.stack[y.index] = n.stack[y.index]
    <3> SUFFICES ASSUME NEW y \in StacksOf(n.tr), y # n.ss PROVE d.stack[y.index] = n.stack[y.index]
      BY <1>6
    <3>1. y.index \in StackNames /\ y.index # n.ss.index
      BY <1>8, StackOf, StacksDiffer
    <3> QED BY <1>16, <3>1
  <2>3. e.kind # "task" /\ Context(n).esp = e.esp
    BY <1>6, <1>22
  <2> DEFINE z == x
             y == Last(z)
             c == Context(n)
  <2>4. /\ IsHistory(n.tr, z, c, n.stack) /\ z # <<>> /\ y.kind # "task" /\ ~ y.from.f.vm /\ c.esp = y.esp
        /\ sel.rpl = y.from.cs.rpl
        /\ SameBut(d.stack[y.ss.index], n.stack[y.ss.index], y.esp, y.esp - 1, sel)
        /\ \A q \in StacksOf(n.tr) : q # y.ss => d.stack[q.index] = n.stack[q.index]
        /\ y = Last(z) /\ n.tr \in DOMAIN Tasks
    BY <1>6, <1>8, <1>10, <1>22, <2>1, <2>2, <2>3
  <2> HIDE DEF z, y, c
  <2>5. IsHistory(n.tr, Append(Front(z), [y EXCEPT !.intact = FALSE]), c, d.stack)
    BY <2>4, HistoryWeakens
  <2> QED BY <1>21, <2>5 DEF x2, z, y, c
<1>24. /\ IsSeq(x2) /\ Len(x2) = Len(x) /\ Len(x) \in Nat /\ x2[Len(x)] = e2 /\ x[Len(x)] = e
       /\ \A i \in 1 .. Len(x) - 1 : x2[i] = x[i]
  <2> DEFINE z == x
             f == Front(z)
  <2>1. /\ IsSeq(f) /\ Len(z) \in Nat \ {0} /\ Len(f) = Len(z) - 1 /\ Last(z) = z[Len(z)]
        /\ \A i \in 1 .. Len(z) - 1 : f[i] = z[i]
    BY <1>6, <1>8, Shorter
  <2> HIDE DEF f, z, e2
  <2>2. /\ IsSeq(Append(f, e2)) /\ Len(Append(f, e2)) = Len(f) + 1
        /\ Append(f, e2)[Len(f) + 1] = e2
        /\ \A i \in 1 .. Len(f) : Append(f, e2)[i] = f[i]
    BY <2>1, Longer
  <2>3. x2 = Append(f, e2) /\ x = z /\ e = Last(z)
    BY DEF x2, f, z
  <2>4. Len(f) + 1 = Len(z)
    BY <2>1
  <2> HIDE DEF x, e
  <2> QED BY <2>1, <2>2, <2>3, <2>4
<1>25. /\ e2.kind = e.kind /\ e2.from = e.from /\ e2.intact = FALSE
       /\ e2.ss = e.ss /\ e2.esp = e.esp /\ e2.params = e.params
  <2>1. e = [y \in {"kind", "from", "params", "intact", "ss", "esp"} |-> e[y]]
    BY <1>9 DEF IsEntry
  <2> HIDE DEF e
  <2> QED BY <2>1
<1>26. \A i \in 1 .. Len(x) : x2[i].kind = x[i].kind /\ x2[i].from = x[i].from
  <2> HIDE DEF x, e, e2
  <2> SUFFICES ASSUME NEW i \in 1 .. Len(x) PROVE x2[i].kind = x[i].kind /\ x2[i].from = x[i].from
    OBVIOUS
  <2>1. i = Len(x) \/ i \in 1 .. Len(x) - 1
    BY <1>24
  <2> QED BY <1>24, <1>25, <2>1
<1> HIDE DEF x, e, e2
<1>27. \A i \in 1 .. Len(x2) : IsLinked(n, n.tr, x2[i])
  BY <1>22, <1>24, <1>26 DEF IsLinked
<1>28. Running(d, vs)
  <2>1. d.f.nt => n.link[n.tr] # n.tr
    BY <1>19, <1>22
  <2> QED BY <1>2, <1>19, <1>23, <1>27, <2>1, TaskChanges DEF x
<1>29. TwoTasks => AllKeep(d, vs)
  <2> SUFFICES ASSUME TwoTasks PROVE AllKeep(d, vs)
    OBVIOUS
  <2>1. AllKeep(n, unreturned)
    BY <1>2
  <2>2. KeepsTasks(x, Context(n))
    BY <1>8, <2>1 DEF AllKeep, ContextIn, x
  <2>3. \A i \in 1 .. Len(x) : After(x2, Context(d), i) = After(x, Context(n), i)
    <3> SUFFICES ASSUME NEW i \in 1 .. Len(x) PROVE After(x2, Context(d), i) = After(x, Context(n), i)
      OBVIOUS
    <3>1. CASE i = Len(x)
      BY <1>21, <1>24, <3>1 DEF After
    <3>2. CASE i # Len(x)
      <4>1. i + 1 \in 1 .. Len(x)
        BY <1>24, <3>2
      <4> QED BY <1>24, <1>26, <3>2, <4>1 DEF After
    <3> QED BY <3>1, <3>2
  <2>4. KeepsTasks(x2, Context(d))
    BY <1>24, <1>26, <2>2, <2>3 DEF KeepsTasks
  <2> QED BY <1>2, <1>19, <2>1, <2>4, TasksChange
<1>30. Restores(unreturned, d, vs)
  <2> SUFFICES ASSUME NEW t \in DOMAIN unreturned PROVE ~ (Len(vs[t]) < Len(unreturned[t]))
    BY DEF Restores
  <2>1. t \in DOMAIN Tasks /\ vs[t] = IF t = n.tr THEN x2 ELSE unreturned[t]
    BY <1>8
  <2>2. IsSeq(unreturned[t])
    BY <1>2, <2>1 DEF Running, GoodTask, IsHistory
  <2>3. Len(unreturned[t]) \in Nat
    BY <2>2, Longer
  <2> QED BY <1>24, <2>1, <2>3 DEF x
<1>31. d.exception_pending = FALSE
  BY <1>2, <1>17 DEF SameRest
<1>32. vs = [unreturned EXCEPT ![m.tr] = x2]
  BY <1>2
<1> QED BY <1>1, <1>5, <1>28, <1>29, <1>30, <1>31, <1>32, ContinuesStep

\* A return within the task: the state is that of before the transfer.
LEMMA ReturnStep ==
    ASSUME IsGood(m, unreturned), ~ m.reset, Pending # <<>>, NEW e, e = Last(Pending), e.kind # "task",
           NEW d, IsMachine(d), SameTasks(d, Fetched), SameElsewhere(d, Fetched),
           ReturnsTo(Fetched, d, e), d.exception_pending = FALSE,
           TwoTasks /\ AllKeep(Fetched, unreturned) => d.f.nt = e.from.f.nt,
           e.intact /\ d.f.nt = e.from.f.nt => Left(d, FALSE) = e.from,
           Continues(d, Front(Pending))
    PROVE  GoodStep(m, unreturned, m', unreturned')
<1> DEFINE n == Fetched
           x == unreturned[n.tr]
           f == Front(Pending)
           vs == [unreturned EXCEPT ![n.tr] = f]
<1>1. /\ Running(n, unreturned) /\ (TwoTasks => AllKeep(n, unreturned)) /\ n.tr = m.tr
  BY Begins
<1>2. x = Pending
  BY <1>1 DEF Pending
<1>3. x # <<>> /\ e = Last(x) /\ f = Front(x)
  BY <1>2
<1> HIDE DEF n, f
<1>4. /\ Running(d, [unreturned EXCEPT ![n.tr] = Front(x)])
      /\ AllKeep(n, unreturned) /\ d.f.nt = e.from.f.nt =>
            AllKeep(d, [unreturned EXCEPT ![n.tr] = Front(x)])
  BY <1>1, <1>3, ReturnsIs DEF n
<1>5. Running(d, vs) /\ (TwoTasks => AllKeep(d, vs))
  BY <1>1, <1>3, <1>4 DEF n
<1>6. unreturned = [t \in DOMAIN Tasks |-> unreturned[t]] /\ n.tr \in DOMAIN Tasks
  BY <1>1, Current DEF Running
<1>7. TwoTasks => Restores(unreturned, d, vs)
  <2> SUFFICES ASSUME TwoTasks, NEW t \in DOMAIN unreturned, Len(vs[t]) < Len(unreturned[t]),
                      Last(unreturned[t]).intact
               PROVE  LET from == Last(unreturned[t]).from
                      IN  Left(d, Last(unreturned[t]).kind = "task") = from
    BY DEF Restores
  <2>1. t \in DOMAIN Tasks
    BY <1>6
  <2>2. Len(unreturned[t]) \in Nat
    <3>1. IsSeq(unreturned[t])
      BY <1>1, <2>1 DEF Running, GoodTask, IsHistory
    <3> QED BY <3>1, Longer
  <2>3. t = n.tr
    <3>1. t # n.tr => vs[t] = unreturned[t]
      BY <1>6, <2>1
    <3> QED BY <2>2, <3>1
  <2>4. Last(unreturned[t]) = e
    BY <1>3, <2>3
  <2>5. d.f.nt = e.from.f.nt
    BY <1>1 DEF n
  <2>6. (Last(unreturned[t]).kind = "task") = FALSE
    BY <2>4
  <2>7. Left(d, FALSE) = e.from
    BY <2>4, <2>5
  <2> QED BY <2>4, <2>6, <2>7
<1>8. vs = [unreturned EXCEPT ![m.tr] = f] /\ Continues(d, f)
  BY <1>1 DEF f
<1> QED BY <1>5, <1>7, <1>8, ContinuesStep

LEMMA LeftIsFrom ==
    ASSUME NEW t, NEW e, IsTransfer(t, e), NEW d, IsMachine(d), d.ip = e.from.ip, d.f = e.from.f,
           d.cs = e.from.cs, d.ss = e.from.ss, Esp(d) = e.from.esp, e.from.f.vm => d.ds = e.from.ds
    PROVE  Left(d, FALSE) = e.from
<1> DEFINE l == Left(d, FALSE)
           c == e.from
<1>1. /\ c = [ip |-> c.ip, f |-> c.f, cs |-> c.cs, ss |-> c.ss, ds |-> c.ds, esp |-> c.esp]
      /\ c.f.vm \/ c.ds = Null
  BY DEF IsTransfer, IsContext
<1>2. /\ IsContext(l) /\ l.ip = d.ip /\ l.f = d.f /\ l.cs = d.cs /\ l.ss = d.ss /\ l.esp = Esp(d)
      /\ l.ds = IF d.f.vm THEN d.ds ELSE Null
  BY LeftIs
<1> HIDE DEF l
<1>3. l = [ip |-> l.ip, f |-> l.f, cs |-> l.cs, ss |-> l.ss, ds |-> l.ds, esp |-> l.esp]
  BY <1>2 DEF IsContext
<1>4. l.ds = c.ds
  BY <1>1, <1>2
<1>5. l = c
  BY <1>1, <1>2, <1>3, <1>4
<1> QED BY <1>5 DEF l

\* The end of a return to ring 3.
OutwardIsFrom(n, x, d, ip, esp) ==
    /\ HasStacks(d) /\ SameRest(d, n) /\ d.cs = x.cs /\ d.ss = x.ss /\ d.ip = ip /\ d.f = x.f
    /\ d.cpl = 3 /\ Esp(d) = esp
    /\ d.ds = x.ds \/ d.ds = Null
    /\ x.ds \in {Null, Real} \/ d.ds = Null \/ IsConforming(d.ds) \/ ~ (DescriptorOf(d.ds).dpl < 3)
    /\ SameElsewhere(d, n) /\ Agree(d.stack, n.stack, n.tr, 3, d.ss, Esp(d))

LEMMA OutwardIs ==
    ASSUME NEW n, IsMachine(n), n.ss.rpl = 0, NEW x, HasStacks(x), SameRest(x, n), x.ss.rpl = 3,
           \A y \in StackNames : y # n.ss.index => x.stack[y] = n.stack[y],
           NEW ip, NEW esp \in Nat
    PROVE  OutwardIsFrom(n, x, Outward(x, n.ss, 3, ip, esp), ip, esp)
<1> DEFINE a == [x EXCEPT !.cpl = 3, !.ip = ip, !.stack[n.ss.index] = <<>>]
           b == WithEsp(a, esp)
           d == Invalidated(b)
<1>1. Outward(x, n.ss, 3, ip, esp) = d
  BY DEF Outward
<1>2. /\ n.tr \in DOMAIN Tasks /\ n.ss \in StacksOf(n.tr) /\ x.tr = n.tr /\ x.ss \in StacksOf(n.tr)
      /\ x.ss # n.ss /\ x.ss.index \in StackNames /\ n.ss.index \in StackNames
      /\ x = [y \in Fields |-> x[y]] /\ x.stack = [y \in StackNames |-> x.stack[y]]
      /\ \A y \in StackNames : IsSeq(x.stack[y])
  <2>1. n.tr \in DOMAIN Tasks /\ n.ss \in StacksOf(n.tr)
    BY MachineTypes
  <2>2. /\ x.tr = n.tr /\ x.ss \in StacksOf(n.tr) /\ x = [y \in Fields |-> x[y]]
        /\ x.stack = [y \in StackNames |-> x.stack[y]] /\ \A y \in StackNames : IsSeq(x.stack[y])
    BY DEF HasStacks, SameRest
  <2>3. x.ss.index \in StackNames /\ n.ss.index \in StackNames
    BY <2>1, <2>2, StackOf
  <2>4. x.ss # n.ss
    OBVIOUS
  <2> QED BY <2>1, <2>2, <2>3, <2>4
<1>3. x.ss.index # n.ss.index
  BY <1>2, StacksDiffer
<1>4. IsSeq(<<>>)
  BY EmptySeq DEF IsSeq
<1>5. /\ a = [y \in Fields |-> a[y]] /\ SameRest(a, x) /\ a.cs = x.cs /\ a.ss = x.ss /\ a.ds = x.ds
      /\ a.f = x.f /\ a.ip = ip /\ a.cpl = 3 /\ a.stack = [x.stack EXCEPT ![n.ss.index] = <<>>]
  <2>1. x = [y \in Fields |-> x[y]]
    BY <1>2
  <2>2. /\ a = [y \in Fields |-> a[y]] /\ a.cs = x.cs /\ a.ss = x.ss /\ a.ds = x.ds
        /\ a.f = x.f /\ a.ip = ip /\ a.cpl = 3
    BY <2>1 DEF Fields
  <2>3. a.stack = [x.stack EXCEPT ![n.ss.index] = <<>>]
    BY <2>1 DEF Fields
  <2>4. SameRest(a, x)
    BY <2>1 DEF Fields, SameRest
  <2> QED BY <2>2, <2>3, <2>4
<1> HIDE DEF a
<1>6. /\ a.stack = [y \in StackNames |-> a.stack[y]] /\ \A y \in StackNames : IsSeq(a.stack[y])
      /\ \A y \in StackNames : y # n.ss.index => a.stack[y] = n.stack[y]
  BY <1>2, <1>4, <1>5
<1>7. HasStacks(a)
  BY <1>2, <1>5, <1>6 DEF HasStacks, SameRest
<1>8. /\ HasStacks(b) /\ SameRest(b, a) /\ SameRegisters(b, a)
      /\ Esp(b) = esp /\ SameWords(Stack(b), Stack(a), esp)
      /\ \A y \in StackNames : y # a.ss.index => b.stack[y] = a.stack[y]
  BY <1>7, CutIs
<1> HIDE DEF b
<1>9. /\ HasStacks(d) /\ SameRest(d, b) /\ d.cs = b.cs /\ d.ss = b.ss /\ d.ip = b.ip /\ d.f = b.f
      /\ d.cpl = b.cpl /\ d.stack = b.stack
      /\ d.ds = IF b.ds \notin {Null, Real} /\ ~ IsConforming(b.ds) /\ DescriptorOf(b.ds).dpl < b.cpl
                THEN Null ELSE b.ds
  <2>1. CASE b.ds \notin {Null, Real} /\ ~ IsConforming(b.ds) /\ DescriptorOf(b.ds).dpl < b.cpl
    <3>1. d = [b EXCEPT !.ds = Null]
      BY <2>1 DEF Invalidated
    <3>2. b = [y \in Fields |-> b[y]]
      BY <1>8 DEF HasStacks
    <3>3. /\ d = [y \in Fields |-> d[y]] /\ SameRest(d, b) /\ d.cs = b.cs /\ d.ss = b.ss /\ d.ip = b.ip
          /\ d.f = b.f /\ d.cpl = b.cpl /\ d.stack = b.stack /\ d.ds = Null
      BY <3>1, <3>2 DEF Fields, SameRest
    <3> HIDE DEF d
    <3>4. HasStacks(d)
      BY <1>8, <3>3 DEF HasStacks, SameRest
    <3> QED BY <2>1, <3>3, <3>4
  <2>2. CASE ~ (b.ds \notin {Null, Real} /\ ~ IsConforming(b.ds) /\ DescriptorOf(b.ds).dpl < b.cpl)
    <3>1. d = b
      BY <2>2 DEF Invalidated
    <3> HIDE DEF d
    <3> QED BY <1>8, <2>2, <3>1 DEF SameRest
  <2> QED BY <2>1, <2>2
<1> HIDE DEF d
<1>10. /\ HasStacks(d) /\ SameRest(d, n) /\ d.cs = x.cs /\ d.ss = x.ss /\ d.ip = ip /\ d.f = x.f
       /\ d.cpl = 3 /\ b.ds = x.ds /\ b.cpl = 3
  BY <1>5, <1>8, <1>9 DEF SameRest, SameRegisters
<1>11. Esp(d) = esp
  BY <1>8, <1>9 DEF Esp, Stack
<1>12. \A y \in StackNames : y # n.ss.index /\ y # d.ss.index => d.stack[y] = n.stack[y]
  <2>1. a.ss = d.ss /\ d.stack = b.stack
    BY <1>5, <1>9, <1>10
  <2> QED BY <1>6, <1>8, <2>1
<1>13. SameWords(d.stack[d.ss.index], n.stack[d.ss.index], esp)
  <2>1. SameWords(b.stack[x.ss.index], a.stack[x.ss.index], esp)
    BY <1>5, <1>8 DEF Stack, SameRegisters
  <2> QED BY <1>2, <1>3, <1>6, <1>9, <1>10, <2>1
<1>14. SameElsewhere(d, n)
  <2> SUFFICES ASSUME NEW u \in DOMAIN Tasks \ {n.tr}, NEW y \in StacksOf(u)
               PROVE  d.stack[y.index] = n.stack[y.index]
    BY DEF SameElsewhere
  <2>1. y.index \in StackNames /\ y.index # n.ss.index /\ y.index # x.ss.index
    BY <1>2, StackOf, StacksDiffer
  <2> QED BY <1>10, <1>12, <2>1
<1>15. Agree(d.stack, n.stack, n.tr, 3, d.ss, Esp(d))
  <2> SUFFICES ASSUME NEW y \in StacksOf(n.tr), y.rpl >= 3
               PROVE  IF y = d.ss THEN SameWords(d.stack[y.index], n.stack[y.index], Esp(d))
                      ELSE d.stack[y.index] = n.stack[y.index]
    BY DEF Agree
  <2>1. y # n.ss
    OBVIOUS
  <2>2. y.index \in StackNames /\ y.index # n.ss.index /\ (y # x.ss => y.index # x.ss.index)
    BY <1>2, <2>1, StackOf, StacksDiffer
  <2>3. CASE y = d.ss
    BY <1>11, <1>13, <2>3
  <2>4. CASE y # d.ss
    BY <1>10, <1>12, <2>2, <2>4
  <2> QED BY <2>3, <2>4
<1>16. d.ds = x.ds \/ d.ds = Null
  BY <1>9, <1>10
<1>17. x.ds \in {Null, Real} \/ d.ds = Null \/ IsConforming(d.ds) \/ ~ (DescriptorOf(d.ds).dpl < 3)
  BY <1>9, <1>10
<1>18. OutwardIsFrom(n, x, d, ip, esp)
  BY <1>10, <1>11, <1>14, <1>15, <1>16, <1>17 DEF OutwardIsFrom
<1> QED BY <1>1, <1>18

\* A selector that was left, or a procedure's own in its place, can be loaded.
LEMMA ReturnSelector ==
    ASSUME NEW t, NEW e, IsTransfer(t, e), ~ e.from.f.vm, NEW s, Frame(e, s)
    PROVE  LET cs == Word(e, s, 2)
           IN  /\ Names(cs, {"code", "conforming"}) /\ SegmentFault("cs", cs, cs.rpl) = "none"
               /\ cs.rpl = e.from.cs.rpl /\ cs.rpl = e.from.ss.rpl /\ cs = Sel(cs.index, cs.rpl)
               /\ Names(e.from.ss, {"data"}) /\ SegmentFault("ss", e.from.ss, cs.rpl) = "none"
               /\ (e.intact => cs = e.from.cs)
<1> DEFINE cs == Word(e, s, 2)
<1>1. Fit(e.from.cs, e.from.ss, e.from.ds)
  BY DEF IsTransfer, IsContext
<1>2. /\ cs.rpl = e.from.cs.rpl /\ (e.intact => cs = e.from.cs)
      /\ cs = e.from.cs \/ cs \in Returns
  BY DEF Frame
<1> HIDE DEF cs
<1>3. Names(cs, {"code", "conforming"}) /\ SegmentFault("cs", cs, cs.rpl) = "none"
  BY <1>1, <1>2, ProtectedModeAssumption DEF OperandsAssumption, Fit
<1>4. cs = Sel(cs.index, cs.rpl)
  BY <1>3 DEF Names, IsSelector
<1>5. cs.rpl = e.from.ss.rpl
  BY <1>1, <1>2, FitRings
<1> QED BY <1>1, <1>2, <1>3, <1>4, <1>5 DEF cs, Fit

LEMMA CsLoads ==
    ASSUME NEW cs, Names(cs, {"code", "conforming"}), SegmentFault("cs", cs, cs.rpl) = "none",
           cs = Sel(cs.index, cs.rpl), NEW n
    PROVE  LoadSegment(n, "cs", cs, cs.rpl) = [n EXCEPT !.cs = cs]
BY DEF LoadSegment
LEMMA SsLoads ==
    ASSUME NEW ss, NEW cpl, SegmentFault("ss", ss, cpl) = "none", NEW n
    PROVE  LoadSegment(n, "ss", ss, cpl) = [n EXCEPT !.ss = ss]
BY DEF LoadSegment

\* d is n, returned from e: where e was entered from, unless e's procedure changed that.
IsReturn(n, d, e) ==
    /\ IsMachine(d) /\ SameTasks(d, n) /\ SameElsewhere(d, n) /\ ReturnsTo(n, d, e)
    /\ d.exception_pending = n.exception_pending
    /\ d.f = IF e.kind = "call" THEN n.f ELSE e.from.f
    /\ e.intact /\ d.f.nt = e.from.f.nt => Left(d, FALSE) = e.from

LEMMA Landed ==
    ASSUME NEW n, IsMachine(n), NEW e, IsTransfer(n.tr, e), KeepsFlags(e, Context(n)), Esp(n) = e.esp,
           NEW d, IsMachine(d), SameRest(d, n), SameElsewhere(d, n),
           d.ss = e.from.ss, d.ip = e.from.ip, Esp(d) = e.from.esp,
           d.f = (IF e.kind = "call" THEN n.f ELSE e.from.f),
           Agree(d.stack, n.stack, n.tr, d.ss.rpl, d.ss, Esp(d)),
           e.intact => d.cs = e.from.cs, e.from.f.vm => d.ds = e.from.ds
    PROVE  IsReturn(n, d, e)
<1>1. Context(n).f = n.f
  BY DEF Context
<1>2. IsContext(e.from) /\ e.kind \in {"call", "interrupt"}
  BY DEF IsTransfer
<1>3. d.f.if = e.from.f.if /\ d.f.vm = e.from.f.vm /\ (d.f.nt => e.from.f.nt)
  <2>1. CASE e.kind = "call"
    BY <1>1, <2>1 DEF KeepsFlags
  <2>2. CASE e.kind # "call"
    BY <2>2
  <2> QED BY <2>1, <2>2
<1>4. ReturnsTo(n, d, e)
  BY <1>2, <1>3 DEF ReturnsTo
<1>5. SameTasks(d, n) /\ d.exception_pending = n.exception_pending
  BY DEF SameRest, SameTasks
<1>6. ASSUME e.intact, d.f.nt = e.from.f.nt PROVE Left(d, FALSE) = e.from
  <2>1. d.f = e.from.f
    <3>1. d.f = Flags(d.f.if, d.f.nt, d.f.vm)
      BY MachineTypes
    <3>2. e.from.f = Flags(e.from.f.if, e.from.f.nt, e.from.f.vm)
      BY <1>2 DEF IsContext, Flags
    <3>3. d.f.if = e.from.f.if /\ d.f.vm = e.from.f.vm
      BY <1>3
    <3> QED BY <1>6, <3>1, <3>2, <3>3
  <2> QED BY <1>6, <2>1, LeftIsFrom
<1> QED BY <1>4, <1>5, <1>6 DEF IsReturn

\* A return in the same ring.
LEMMA SameRingReturn ==
    ASSUME NEW n, IsMachine(n), n.f.vm = FALSE,
           NEW d, HasStacks(d), SameRest(d, n), d.ss = n.ss, d.ds = n.ds, d.cpl = n.cpl,
           d.f \in [if : BOOLEAN, nt : BOOLEAN, vm : BOOLEAN], d.f.vm = FALSE,
           Names(d.cs, {"code", "conforming"}), SegmentFault("cs", d.cs, d.cs.rpl) = "none",
           d.cs.rpl = n.cpl,
           SameWords(Stack(d), Stack(n), Esp(d)),
           \A y \in StackNames : y # n.ss.index => d.stack[y] = n.stack[y]
    PROVE  /\ IsMachine(d) /\ SameElsewhere(d, n)
           /\ Agree(d.stack, n.stack, n.tr, d.ss.rpl, d.ss, Esp(d))
<1>1. Fit(n.cs, n.ss, n.ds) /\ n.cpl = n.cs.rpl
  BY DEF IsMachine
<1>2. Fit(d.cs, d.ss, d.ds)
  BY <1>1 DEF Fit
<1>3. IsMachine(d)
  BY <1>2 DEF IsMachine, SameRest
<1>4. SameElsewhere(d, n) /\ Agree(d.stack, n.stack, n.tr, d.ss.rpl, d.ss, Esp(d))
  BY SameStacks
<1> QED BY <1>3, <1>4

\* A return from ring 0 to ring 3.
LEMMA OuterReturn ==
    ASSUME NEW n, IsMachine(n), n.f.vm = FALSE, NEW x, NEW d, NEW ip, NEW esp,
           OutwardIsFrom(n, x, d, ip, esp), x.ds = n.ds, x.ss.rpl = 3,
           x.f \in [if : BOOLEAN, nt : BOOLEAN, vm : BOOLEAN], x.f.vm = FALSE,
           Names(x.cs, {"code", "conforming"}), SegmentFault("cs", x.cs, 3) = "none", x.cs.rpl = 3,
           Names(x.ss, {"data"}), SegmentFault("ss", x.ss, 3) = "none"
    PROVE  /\ IsMachine(d) /\ SameRest(d, n) /\ SameElsewhere(d, n) /\ d.ss = x.ss /\ d.cs = x.cs
           /\ d.f = x.f /\ d.ip = ip /\ Esp(d) = esp
           /\ Agree(d.stack, n.stack, n.tr, d.ss.rpl, d.ss, Esp(d))
<1>1. /\ HasStacks(d) /\ SameRest(d, n) /\ d.cs = x.cs /\ d.ss = x.ss /\ d.ip = ip /\ d.f = x.f
      /\ d.cpl = 3 /\ Esp(d) = esp /\ SameElsewhere(d, n)
      /\ Agree(d.stack, n.stack, n.tr, 3, d.ss, Esp(d))
      /\ d.ds = n.ds \/ d.ds = Null
      /\ n.ds \in {Null, Real} \/ d.ds = Null \/ IsConforming(d.ds) \/ ~ (DescriptorOf(d.ds).dpl < 3)
  BY DEF OutwardIsFrom
<1>2. Fit(n.cs, n.ss, n.ds)
  BY DEF IsMachine
<1>3. \/ d.ds = Null
      \/ d.ds.index \in DOMAIN Table /\ (IsConforming(d.ds) \/ 3 <= DescriptorOf(d.ds).dpl)
  <2>1. CASE d.ds = Null
    BY <2>1
  <2>2. CASE d.ds # Null
    <3>1. d.ds = n.ds /\ n.ds # Null
      BY <1>1, <2>2
    <3>2. n.ds.index \in DOMAIN Table
      BY <1>2, <3>1 DEF Fit
    <3>3. n.ds # Real
      BY <3>2, ProtectedModeAssumption DEF TableAssumption, Real, Sel
    <3>4. DescriptorOf(d.ds).dpl \in 0 .. 3
      BY <3>1, <3>2, ProtectedModeAssumption DEF TableAssumption, DescriptorOf
    <3>5. IsConforming(d.ds) \/ ~ (DescriptorOf(d.ds).dpl < 3)
      BY <1>1, <3>1, <3>3
    <3> QED BY <3>1, <3>2, <3>4, <3>5
  <2> QED BY <2>1, <2>2
<1>4. Fit(d.cs, d.ss, d.ds)
  BY <1>1, <1>3 DEF Fit
<1>5. IsMachine(d)
  BY <1>1, <1>4 DEF IsMachine, SameRest
<1> QED BY <1>1, <1>5

\* What a return finds, of a machine whose last transfer is e.
AtReturn(n, e) ==
    /\ IsMachine(n) /\ n.f.vm = FALSE /\ Names(n.ss, {"data"}) /\ n.ss.rpl = n.cpl /\ n.cpl \in {0, 3}
    /\ IsTransfer(n.tr, e) /\ KeepsFlags(e, Context(n)) /\ Frame(e, Stack(n)) /\ e.ss = n.ss
    /\ e.from.esp \in Nat /\ e.params \in Nat /\ e.esp \in Nat /\ e.esp = Esp(n)
    /\ \A k : Word(e, Stack(n), k) = WordAt(n, k)
    /\ Switched(e) => n.cpl = 0 /\ e.from.ss.rpl = 3

LEMMA Returning0 ==
    ASSUME NEW n, NEW us, Running(n, us), us[n.tr] # <<>>, NEW e, e = Last(us[n.tr]),
           e.kind # "task", e.esp = Esp(n)
    PROVE  AtReturn(n, e)
<1>1. /\ IsEntry(n.tr, e, Len(us[n.tr])) /\ IsTransfer(n.tr, e) /\ KeepsFlags(e, Context(n))
      /\ Frame(e, Stack(n)) /\ e.ss = n.ss
  BY LastIs
<1>2. e.from.esp \in Nat /\ e.params \in Nat /\ e.esp \in Nat
  BY <1>1, EntryTypes
<1>3. IsMachine(n) /\ n.ss.rpl = n.cpl /\ n.cpl \in {0, 3} /\ n.f.vm \in BOOLEAN
  BY MachineTypes DEF Running
<1>4. Names(n.ss, {"data"}) /\ (Switched(e) => n.ss.rpl = 0 /\ e.from.ss.rpl = 3)
      /\ e.from.ss \in StacksOf(n.tr)
  BY <1>1 DEF IsTransfer
<1>5. n.f.vm = FALSE
  <2>1. n.ss # Real
    BY <1>4, ProtectedModeAssumption DEF Names, TableAssumption, Real, Sel
  <2> QED BY <1>3, <2>1 DEF IsMachine
<1>6. \A k : Word(e, Stack(n), k) = WordAt(n, k)
  BY DEF Word, WordAt
<1>7. Switched(e) => n.cpl = 0 /\ e.from.ss.rpl = 3
  BY <1>3, <1>4
<1> QED BY <1>1, <1>2, <1>3, <1>4, <1>5, <1>6, <1>7 DEF AtReturn

\* A return of RETF in the same ring.
LEMMA RetfSame ==
    ASSUME NEW n, NEW us, Running(n, us), us[n.tr] # <<>>, NEW e, e = Last(us[n.tr]),
           e.kind = "call", e.esp = Esp(n), ~ Switched(e), n.exception_pending = FALSE
    PROVE  IsReturn(n, Retf(n, e.params), e)
<1> DEFINE k == e.params
           cs == WordAt(n, 2)
           ip == WordAt(n, 1).ip
           popped == Pop(n, 2)
           same == LoadSegment(popped, "cs", cs, n.cpl)
           moved == [popped EXCEPT !.cs = cs, !.ip = ip]
           d == Pop(moved, k)
<1>0. ~ (cs.rpl > n.cpl) /\ ~ (cs.rpl < n.cpl) =>
         Retf(n, k) = IF same.exception_pending THEN same ELSE Pop([same EXCEPT !.ip = ip], k)
  BY DEF Retf
<1>1. /\ IsMachine(n) /\ n.f.vm = FALSE /\ Names(n.ss, {"data"}) /\ n.ss.rpl = n.cpl /\ n.cpl \in {0, 3}
      /\ IsTransfer(n.tr, e) /\ KeepsFlags(e, Context(n)) /\ Frame(e, Stack(n)) /\ e.ss = n.ss
      /\ e.from.esp \in Nat /\ k \in Nat /\ e.esp \in Nat
      /\ \A i : Word(e, Stack(n), i) = WordAt(n, i)
  <2>1. e.kind # "task"
    OBVIOUS
  <2>2. AtReturn(n, e)
    BY <2>1, Returning0
  <2> QED BY <2>2 DEF AtReturn
<1>2. ~ e.from.f.vm /\ e.from.ss = n.ss /\ e.esp = e.from.esp + k + 2
  BY <1>1 DEF IsTransfer, Switched, FrameSize
<1>3. /\ Names(cs, {"code", "conforming"}) /\ SegmentFault("cs", cs, cs.rpl) = "none"
      /\ cs.rpl = n.cpl /\ cs = Sel(cs.index, cs.rpl) /\ (e.intact => cs = e.from.cs)
  BY <1>1, <1>2, ReturnSelector
<1>4. ip = e.from.ip
  <2>1. WordAt(n, 1) = [ip |-> e.from.ip]
    BY <1>1 DEF Frame
  <2> QED BY <2>1
<1> DEFINE a == Esp(n) - 2
           b == Esp(moved) - k
<1>5. a \in Nat /\ HasStacks(n) /\ a = e.from.esp + k
  BY <1>1, <1>2 DEF IsMachine
<1>6. /\ HasStacks(popped) /\ SameRest(popped, n) /\ SameRegisters(popped, n)
      /\ Esp(popped) = a /\ SameWords(Stack(popped), Stack(n), a)
      /\ \A y \in StackNames : y # n.ss.index => popped.stack[y] = n.stack[y]
  <2> HIDE DEF a
  <2>1. popped = WithEsp(n, a)
    BY DEF Pop, a
  <2> HIDE DEF popped
  <2> QED BY <1>5, <2>1, CutIs
<1> HIDE DEF popped, cs, ip
<1>7. same = [popped EXCEPT !.cs = cs]
  BY <1>3, CsLoads
<1>8. popped = [x \in Fields |-> popped[x]]
  BY <1>6 DEF HasStacks
<1>9. same.exception_pending = popped.exception_pending /\ [same EXCEPT !.ip = ip] = moved
  <2> HIDE DEF same
  <2> QED BY <1>7, <1>8 DEF Fields
<1>10. /\ moved = [x \in Fields |-> moved[x]] /\ SameRest(moved, popped) /\ moved.f = popped.f
       /\ moved.cs = cs /\ moved.ss = popped.ss /\ moved.ds = popped.ds /\ moved.cpl = popped.cpl
       /\ moved.ip = ip /\ moved.stack = popped.stack
  BY <1>8 DEF Fields, SameRest
<1> HIDE DEF moved
<1>11. HasStacks(moved) /\ Stack(moved) = Stack(popped) /\ Esp(moved) = a
  BY <1>6, <1>10 DEF HasStacks, Stack, Esp, SameRest
<1>12. b \in Nat /\ b = e.from.esp /\ b <= a
  BY <1>1, <1>5, <1>11
<1>13. /\ HasStacks(d) /\ SameRest(d, moved) /\ SameRegisters(d, moved)
       /\ Esp(d) = b /\ SameWords(Stack(d), Stack(moved), b)
       /\ \A y \in StackNames : y # moved.ss.index => d.stack[y] = moved.stack[y]
  <2> HIDE DEF b
  <2>1. d = WithEsp(moved, b)
    BY DEF Pop, b
  <2> HIDE DEF d
  <2> QED BY <1>11, <1>12, <2>1, CutIs
<1> HIDE DEF d
<1>14. Retf(n, k) = d
  <2>1. same.exception_pending = FALSE
    BY <1>6, <1>9 DEF SameRest
  <2>2. ~ (cs.rpl > n.cpl) /\ ~ (cs.rpl < n.cpl)
    BY <1>1, <1>3
  <2> HIDE DEF same, k
  <2>3. Retf(n, k) = Pop([same EXCEPT !.ip = ip], k)
    BY <1>0, <2>1, <2>2
  <2> QED BY <1>9, <2>3 DEF d
<1>15. /\ SameRest(d, n) /\ d.f = n.f /\ d.cs = cs /\ d.ss = n.ss /\ d.ds = n.ds /\ d.cpl = n.cpl
       /\ d.ip = e.from.ip
  BY <1>4, <1>6, <1>10, <1>13 DEF SameRest, SameRegisters
<1>16. \A y \in StackNames : y # n.ss.index => d.stack[y] = n.stack[y]
  <2>1. moved.ss = n.ss
    BY <1>6, <1>10 DEF SameRegisters
  <2> SUFFICES ASSUME NEW y \in StackNames, y # n.ss.index PROVE d.stack[y] = n.stack[y]
    OBVIOUS
  <2>2. popped.stack[y] = n.stack[y] /\ moved.stack = popped.stack
    BY <1>6, <1>10
  <2>3. d.stack[y] = moved.stack[y]
    BY <1>13, <2>1
  <2> QED BY <2>2, <2>3
<1>17. SameWords(Stack(d), Stack(n), Esp(d))
  BY <1>5, <1>6, <1>11, <1>12, <1>13 DEF SameWords
<1>18. d.f \in [if : BOOLEAN, nt : BOOLEAN, vm : BOOLEAN] /\ d.f.vm = FALSE
  BY <1>1, <1>15 DEF IsMachine
<1>19. /\ IsMachine(d) /\ SameElsewhere(d, n)
       /\ Agree(d.stack, n.stack, n.tr, d.ss.rpl, d.ss, Esp(d))
  BY <1>1, <1>3, <1>13, <1>15, <1>16, <1>17, <1>18, SameRingReturn
<1>20. d.f = IF e.kind = "call" THEN n.f ELSE e.from.f
  BY <1>15
<1>21. Esp(d) = e.from.esp
  BY <1>12, <1>13
<1>22. IsReturn(n, d, e)
  BY <1>1, <1>2, <1>3, <1>15, <1>19, <1>20, <1>21, Landed
<1> QED BY <1>14, <1>22

\* What a return to ring 3 does with the machine whose frame has been popped.
LEMMA PoppedStacks ==
    ASSUME NEW n, IsMachine(n), NEW k \in Nat, k <= Esp(n)
    PROVE  LET p == Pop(n, k)
           IN  /\ HasStacks(p) /\ SameRest(p, n) /\ SameRegisters(p, n)
               /\ Esp(p) = Esp(n) - k /\ SameWords(Stack(p), Stack(n), Esp(n) - k)
               /\ \A y \in StackNames : y # n.ss.index => p.stack[y] = n.stack[y]
<1> DEFINE a == Esp(n) - k
           p == WithEsp(n, a)
<1>1. a \in Nat
  <2>1. Esp(n) \in Nat
    BY MachineTypes
  <2> QED BY <2>1
<1>2. HasStacks(n) /\ a <= Esp(n)
  <2>1. Esp(n) \in Nat
    BY MachineTypes
  <2>2. a <= Esp(n)
    BY <2>1
  <2> QED BY <2>2 DEF IsMachine
<1>3. Pop(n, k) = p
  BY DEF Pop
<1> HIDE DEF a
<1>4. /\ HasStacks(p) /\ SameRest(p, n) /\ SameRegisters(p, n)
      /\ Esp(p) = a /\ SameWords(Stack(p), Stack(n), a)
      /\ \A y \in StackNames : y # n.ss.index => p.stack[y] = n.stack[y]
  BY <1>1, <1>2, CutIs
<1> HIDE DEF p
<1> QED BY <1>3, <1>4 DEF a

\* A return from ring 0 to ring 3, the frame popped (o) and the selectors loaded (x).
LEMMA OuterLands ==
    ASSUME NEW n, IsMachine(n), n.f.vm = FALSE, n.cpl = 0, n.ss.rpl = 0,
           NEW e, IsTransfer(n.tr, e), KeepsFlags(e, Context(n)), Frame(e, Stack(n)), Esp(n) = e.esp,
           ~ e.from.f.vm, Switched(e),
           NEW o, HasStacks(o), SameRest(o, n), SameRegisters(o, n),
           \A y \in StackNames : y # n.ss.index => o.stack[y] = n.stack[y],
           NEW x, x = [y \in Fields |-> x[y]], SameRest(x, o), x.ds = o.ds, x.stack = o.stack,
           x.cs = WordAt(n, 2), x.ss = e.from.ss, x.f = (IF e.kind = "call" THEN n.f ELSE e.from.f)
    PROVE  IsReturn(n, Outward(x, n.ss, 3, e.from.ip, e.from.esp), e)
<1> DEFINE d == Outward(x, n.ss, 3, e.from.ip, e.from.esp)
           cs == WordAt(n, 2)
<1>1. e.from.ss \in StacksOf(n.tr) /\ e.from.ss.rpl = 3 /\ e.from.esp \in Nat
      /\ e.from.f \in [if : BOOLEAN, nt : BOOLEAN, vm : BOOLEAN]
  BY DEF IsTransfer, IsContext
<1>2. Word(e, Stack(n), 2) = cs
  BY DEF Word, WordAt
<1>3. /\ Names(cs, {"code", "conforming"}) /\ SegmentFault("cs", cs, cs.rpl) = "none"
      /\ cs.rpl = 3 /\ (e.intact => cs = e.from.cs)
      /\ Names(e.from.ss, {"data"}) /\ SegmentFault("ss", e.from.ss, 3) = "none"
  BY <1>1, <1>2, ReturnSelector
<1>4. SameRest(x, n) /\ x.ds = n.ds /\ x.tr = n.tr
  BY DEF SameRest, SameRegisters
<1>5. HasStacks(x)
  <2>1. x.tr \in DOMAIN Tasks /\ x.ss \in StacksOf(x.tr)
    BY <1>1, <1>4, MachineTypes
  <2>2. o.stack = [y \in StackNames |-> o.stack[y]] /\ \A y \in StackNames : IsSeq(o.stack[y])
    BY DEF HasStacks
  <2>3. x.stack = [y \in StackNames |-> x.stack[y]] /\ \A y \in StackNames : IsSeq(x.stack[y])
    BY <2>2
  <2> QED BY <2>1, <2>3 DEF HasStacks
<1>6. \A y \in StackNames : y # n.ss.index => x.stack[y] = n.stack[y]
  OBVIOUS
<1>7. OutwardIsFrom(n, x, d, e.from.ip, e.from.esp)
  <2>1. x.ss.rpl = 3
    BY <1>1
  <2> QED BY <1>1, <1>4, <1>5, <1>6, <2>1, OutwardIs
<1> HIDE DEF d, cs
<1>8. x.f \in [if : BOOLEAN, nt : BOOLEAN, vm : BOOLEAN] /\ x.f.vm = FALSE
  <2>1. n.f \in [if : BOOLEAN, nt : BOOLEAN, vm : BOOLEAN]
    BY DEF IsMachine
  <2>2. e.from.f.vm = FALSE
    BY <1>1
  <2> QED BY <1>1, <2>1, <2>2
<1>9. x.cs = cs /\ x.ss.rpl = 3
  BY <1>1 DEF cs
<1>10. /\ Names(x.cs, {"code", "conforming"}) /\ SegmentFault("cs", x.cs, 3) = "none" /\ x.cs.rpl = 3
       /\ Names(x.ss, {"data"}) /\ SegmentFault("ss", x.ss, 3) = "none"
  BY <1>3, <1>9
<1>11. /\ IsMachine(d) /\ SameRest(d, n) /\ SameElsewhere(d, n) /\ d.ss = x.ss /\ d.cs = x.cs
       /\ d.f = x.f /\ d.ip = e.from.ip /\ Esp(d) = e.from.esp
       /\ Agree(d.stack, n.stack, n.tr, d.ss.rpl, d.ss, Esp(d))
  BY <1>4, <1>7, <1>8, <1>9, <1>10, OuterReturn
<1>12. /\ d.ss = e.from.ss /\ (e.intact => d.cs = e.from.cs)
       /\ d.f = IF e.kind = "call" THEN n.f ELSE e.from.f
  BY <1>3, <1>9, <1>11
<1>13. IsReturn(n, d, e)
  BY <1>11, <1>12, Landed
<1> QED BY <1>13 DEF d

\* A return of RETF from ring 0 to ring 3.
LEMMA RetfOuter ==
    ASSUME NEW n, NEW us, Running(n, us), us[n.tr] # <<>>, NEW e, e = Last(us[n.tr]),
           e.kind = "call", e.esp = Esp(n), Switched(e), n.exception_pending = FALSE
    PROVE  IsReturn(n, Retf(n, e.params), e)
<1> DEFINE k == e.params
           cs == WordAt(n, 2)
           ss == WordAt(n, k + 4)
           ip == WordAt(n, 1).ip
           esp == WordAt(n, k + 3).esp - k
           popped == Pop(n, 2)
           outer == Pop(popped, k + 2)
           withCs == LoadSegment(outer, "cs", cs, cs.rpl)
           withSs == LoadSegment(withCs, "ss", ss, cs.rpl)
           x == [[outer EXCEPT !.cs = cs] EXCEPT !.ss = ss]
<1>0. cs.rpl > n.cpl =>
         Retf(n, k) = IF withCs.exception_pending THEN withCs
                      ELSE IF withSs.exception_pending THEN withSs
                      ELSE Outward(withSs, n.ss, cs.rpl, ip, esp)
  BY DEF Retf
<1>1. /\ IsMachine(n) /\ n.f.vm = FALSE /\ n.ss.rpl = n.cpl
      /\ IsTransfer(n.tr, e) /\ KeepsFlags(e, Context(n)) /\ Frame(e, Stack(n))
      /\ e.from.esp \in Nat /\ k \in Nat /\ e.esp \in Nat
      /\ \A i : Word(e, Stack(n), i) = WordAt(n, i)
      /\ Switched(e) => n.cpl = 0 /\ e.from.ss.rpl = 3
  <2>1. e.kind # "task"
    OBVIOUS
  <2>2. AtReturn(n, e)
    BY <2>1, Returning0
  <2> QED BY <2>2 DEF AtReturn
<1>2. n.cpl = 0 /\ n.ss.rpl = 0 /\ e.from.ss.rpl = 3
  BY <1>1
<1>3. ~ e.from.f.vm /\ e.esp = k + 2 + 2
  BY <1>1 DEF IsTransfer, FrameSize
<1>4. /\ Names(cs, {"code", "conforming"}) /\ SegmentFault("cs", cs, cs.rpl) = "none"
      /\ cs.rpl = 3 /\ cs = Sel(cs.index, cs.rpl)
      /\ Names(e.from.ss, {"data"}) /\ SegmentFault("ss", e.from.ss, 3) = "none"
  BY <1>1, <1>2, <1>3, ReturnSelector
<1>5. ip = e.from.ip
  <2>1. WordAt(n, 1) = [ip |-> e.from.ip]
    BY <1>1 DEF Frame
  <2> QED BY <2>1
<1>6. WordAt(n, k + 3) = [esp |-> e.from.esp + k] /\ ss = e.from.ss
  <2>1. WordAt(n, (k + 2) + 1) = [esp |-> e.from.esp + k] /\ WordAt(n, (k + 2) + 2) = e.from.ss
    BY <1>1 DEF Frame
  <2>2. (k + 2) + 1 = k + 3 /\ (k + 2) + 2 = k + 4
    BY <1>1
  <2> QED BY <2>1, <2>2
<1>7. esp = e.from.esp
  <2> DEFINE j == WordAt(n, k + 3).esp
  <2>1. j = e.from.esp + k
    BY <1>6
  <2> HIDE DEF j
  <2>2. j - k = e.from.esp
    BY <1>1, <2>1
  <2> QED BY <2>2 DEF j
<1> HIDE DEF k, cs, ss, ip, esp
<1>8. /\ HasStacks(popped) /\ SameRest(popped, n) /\ SameRegisters(popped, n)
      /\ Esp(popped) = Esp(n) - 2
      /\ \A y \in StackNames : y # n.ss.index => popped.stack[y] = n.stack[y]
  <2>1. 2 <= Esp(n)
    BY <1>1, <1>3
  <2>2. 2 \in Nat
    OBVIOUS
  <2> QED BY <1>1, <2>1, <2>2, PoppedStacks
<1> HIDE DEF popped
<1>9. IsMachine(popped) /\ popped.ss = n.ss
  BY <1>1, <1>8, SameMachine DEF SameRegisters
<1>10. /\ HasStacks(outer) /\ SameRest(outer, popped) /\ SameRegisters(outer, popped)
      /\ \A y \in StackNames : y # popped.ss.index => outer.stack[y] = popped.stack[y]
  <2>1. k + 2 \in Nat
    BY <1>1
  <2>2. k + 2 <= Esp(popped)
    <3>1. k \in Nat /\ Esp(n) = k + 2 + 2
      BY <1>1, <1>3
    <3>2. Esp(popped) = Esp(n) - 2
      BY <1>8
    <3> QED BY <3>1, <3>2
  <2> DEFINE j == k + 2
  <2> HIDE DEF j
  <2>3. j \in Nat /\ j <= Esp(popped)
    BY <2>1, <2>2 DEF j
  <2>4. outer = Pop(popped, j)
    BY DEF j
  <2> HIDE DEF outer
  <2> QED BY <1>9, <2>3, <2>4, PoppedStacks
<1> HIDE DEF outer
<1>11. /\ SameRest(outer, n) /\ SameRegisters(outer, n)
       /\ \A y \in StackNames : y # n.ss.index => outer.stack[y] = n.stack[y]
  BY <1>8, <1>9, <1>10 DEF SameRest, SameRegisters
<1>12. withCs = [outer EXCEPT !.cs = cs]
  BY <1>4, CsLoads
<1>13. withSs = x
  <2>1. SegmentFault("ss", ss, cs.rpl) = "none"
    BY <1>4, <1>6
  <2>2. withSs = [withCs EXCEPT !.ss = ss]
    BY <2>1, SsLoads
  <2> HIDE DEF withCs, withSs
  <2> QED BY <1>12, <2>2
<1>14. outer = [y \in Fields |-> outer[y]]
  BY <1>10 DEF HasStacks
<1>15. withCs.exception_pending = outer.exception_pending
  <2> HIDE DEF withCs
  <2> QED BY <1>12, <1>14 DEF Fields
<1>16. /\ x = [y \in Fields |-> x[y]] /\ SameRest(x, outer) /\ x.f = outer.f
       /\ x.cs = cs /\ x.ss = ss /\ x.ds = outer.ds /\ x.stack = outer.stack
  BY <1>14 DEF Fields, SameRest
<1> HIDE DEF x, withCs, withSs
<1>17. x.exception_pending = FALSE /\ outer.exception_pending = FALSE
  BY <1>11, <1>16 DEF SameRest
<1>18. Retf(n, k) = Outward(x, n.ss, 3, ip, esp)
  <2>1. withCs.exception_pending = FALSE /\ withSs.exception_pending = FALSE
    BY <1>13, <1>15, <1>17
  <2>2. cs.rpl > n.cpl
    BY <1>2, <1>4
  <2>3. Retf(n, k) = Outward(withSs, n.ss, cs.rpl, ip, esp)
    BY <1>0, <2>1, <2>2
  <2> QED BY <1>4, <1>13, <2>3
<1>19. x.f = IF e.kind = "call" THEN n.f ELSE e.from.f
  BY <1>11, <1>16 DEF SameRegisters
<1>20. x.cs = WordAt(n, 2) /\ x.ss = e.from.ss
  BY <1>6, <1>16 DEF cs
<1>21. IsReturn(n, Outward(x, n.ss, 3, e.from.ip, e.from.esp), e)
  BY <1>1, <1>2, <1>3, <1>10, <1>11, <1>16, <1>19, <1>20, OuterLands
<1> QED BY <1>5, <1>7, <1>18, <1>21 DEF k

\* A return of IRETD in the same ring.
LEMMA IretSame ==
    ASSUME NEW n, NEW e, AtReturn(n, e), e.kind = "interrupt", ~ Switched(e)
    PROVE  IsReturn(n, Iret(n), e)
<1> DEFINE ip == WordAt(n, 1).ip
           cs == WordAt(n, 2)
           f == WordAt(n, 3)
           g == IF n.cpl > Iopl THEN [f EXCEPT !.if = n.f.if] ELSE f
           popped == Pop(n, 3)
           same == [popped EXCEPT !.f = g]
           loaded == LoadSegment(same, "cs", cs, n.cpl)
           d == [popped EXCEPT !.f = e.from.f, !.cs = cs, !.ip = ip]
<1>0. ~ n.f.nt /\ ~ (f.vm /\ n.cpl = 0) /\ ~ (cs.rpl > n.cpl) => Iret(n) = [loaded EXCEPT !.ip = ip]
  BY DEF Iret
<1>1. /\ IsMachine(n) /\ n.f.vm = FALSE /\ Names(n.ss, {"data"}) /\ n.ss.rpl = n.cpl /\ n.cpl \in {0, 3}
      /\ IsTransfer(n.tr, e) /\ KeepsFlags(e, Context(n)) /\ Frame(e, Stack(n)) /\ e.ss = n.ss
      /\ e.from.esp \in Nat /\ e.esp = Esp(n)
      /\ \A k : Word(e, Stack(n), k) = WordAt(n, k)
  BY DEF AtReturn
<1>2. e.from.ss = n.ss /\ IsContext(e.from)
  BY <1>1 DEF Switched, IsTransfer
<1>3. ~ e.from.f.vm
  <2>1. n.ss # Real
    BY <1>1, ProtectedModeAssumption DEF Names, TableAssumption, Real, Sel
  <2> QED BY <1>2, <2>1 DEF IsContext
<1>4. e.esp = e.from.esp + 3
  BY <1>1, <1>3 DEF IsTransfer, FrameSize
<1>5. /\ Names(cs, {"code", "conforming"}) /\ SegmentFault("cs", cs, cs.rpl) = "none"
      /\ cs.rpl = n.cpl /\ cs = Sel(cs.index, cs.rpl) /\ (e.intact => cs = e.from.cs)
  BY <1>1, <1>2, <1>3, ReturnSelector
<1>6. ip = e.from.ip
  <2>1. WordAt(n, 1) = [ip |-> e.from.ip]
    BY <1>1 DEF Frame
  <2> QED BY <2>1
<1>7. f = e.from.f
  BY <1>1 DEF Frame
<1>8. Context(n).f = n.f
  BY DEF Context
<1>9. n.f.nt = FALSE /\ (n.cpl > Iopl => n.f.if = e.from.f.if)
  <2>1. n.f.nt \in BOOLEAN
    BY <1>1, MachineTypes
  <2>2. ~ n.f.nt
    BY <1>1, <1>8 DEF KeepsFlags
  <2>3. n.cpl > Iopl => n.f.if = e.from.f.if
    BY <1>1, <1>8 DEF KeepsFlags
  <2> QED BY <2>1, <2>2, <2>3
<1>10. g = e.from.f
  <2>1. e.from.f \in [if : BOOLEAN, nt : BOOLEAN, vm : BOOLEAN]
    BY <1>2 DEF IsContext
  <2>2. n.cpl > Iopl => [f EXCEPT !.if = n.f.if] = e.from.f
    BY <1>7, <1>9, <2>1
  <2> QED BY <1>7, <2>2
<1> HIDE DEF ip, cs, f, g
<1>11. /\ HasStacks(popped) /\ SameRest(popped, n) /\ SameRegisters(popped, n)
       /\ Esp(popped) = Esp(n) - 3 /\ SameWords(Stack(popped), Stack(n), Esp(n) - 3)
       /\ \A y \in StackNames : y # n.ss.index => popped.stack[y] = n.stack[y]
  <2>1. 3 <= Esp(n)
    BY <1>1, <1>4
  <2>2. 3 \in Nat
    OBVIOUS
  <2> QED BY <1>1, <2>1, <2>2, PoppedStacks
<1> HIDE DEF popped
<1>12. popped = [x \in Fields |-> popped[x]]
  BY <1>11 DEF HasStacks
<1>13. loaded = [same EXCEPT !.cs = cs]
  <2> HIDE DEF same
  <2> QED BY <1>5, CsLoads
<1>14. Iret(n) = d
  <2>1. ~ n.f.nt /\ ~ (f.vm /\ n.cpl = 0) /\ ~ (cs.rpl > n.cpl)
    BY <1>1, <1>3, <1>5, <1>7, <1>9
  <2>2. [loaded EXCEPT !.ip = ip] = d
    <3> HIDE DEF loaded
    <3> QED BY <1>10, <1>12, <1>13 DEF Fields
  <2> HIDE DEF loaded, d
  <2> QED BY <1>0, <2>1, <2>2
<1>15. /\ d = [x \in Fields |-> d[x]] /\ SameRest(d, popped) /\ d.f = e.from.f
       /\ d.cs = cs /\ d.ss = popped.ss /\ d.ds = popped.ds /\ d.cpl = popped.cpl
       /\ d.ip = ip /\ d.stack = popped.stack
  BY <1>12 DEF Fields, SameRest
<1> HIDE DEF d
<1>16. HasStacks(d) /\ Stack(d) = Stack(popped)
  BY <1>11, <1>15 DEF HasStacks, Stack, SameRest
<1>17. Esp(d) = e.from.esp /\ Esp(d) = Esp(n) - 3
  <2>1. Esp(d) = Esp(popped)
    BY <1>16 DEF Esp
  <2>2. Esp(d) = Esp(n) - 3
    BY <1>11, <2>1
  <2>3. Esp(n) = e.from.esp + 3 /\ e.from.esp \in Nat
    BY <1>1, <1>4
  <2> QED BY <2>2, <2>3
<1>18. SameRest(d, n) /\ d.ss = n.ss /\ d.ds = n.ds /\ d.cpl = n.cpl
  BY <1>11, <1>15 DEF SameRest, SameRegisters
<1>19. \A y \in StackNames : y # n.ss.index => d.stack[y] = n.stack[y]
  BY <1>11, <1>15
<1>20. SameWords(Stack(d), Stack(n), Esp(d))
  BY <1>11, <1>16, <1>17
<1>21. d.f \in [if : BOOLEAN, nt : BOOLEAN, vm : BOOLEAN] /\ d.f.vm = FALSE
  <2>1. e.from.f \in [if : BOOLEAN, nt : BOOLEAN, vm : BOOLEAN]
    BY <1>2 DEF IsContext
  <2> QED BY <1>3, <1>15, <2>1
<1>22. /\ IsMachine(d) /\ SameElsewhere(d, n)
       /\ Agree(d.stack, n.stack, n.tr, d.ss.rpl, d.ss, Esp(d))
  BY <1>1, <1>5, <1>15, <1>16, <1>18, <1>19, <1>20, <1>21, SameRingReturn
<1>23. d.f = IF e.kind = "call" THEN n.f ELSE e.from.f
  BY <1>15
<1>24. d.ss = e.from.ss /\ d.ip = e.from.ip /\ (e.intact => d.cs = e.from.cs)
       /\ (e.from.f.vm => d.ds = e.from.ds)
  BY <1>2, <1>3, <1>5, <1>6, <1>15, <1>18
<1>25. IsReturn(n, d, e)
  BY <1>1, <1>17, <1>18, <1>22, <1>23, <1>24, Landed
<1> QED BY <1>14, <1>25

\* A return of IRETD from ring 0 to ring 3.
LEMMA IretOuter ==
    ASSUME NEW n, NEW e, AtReturn(n, e), e.kind = "interrupt", Switched(e), ~ e.from.f.vm,
           n.exception_pending = FALSE
    PROVE  IsReturn(n, Iret(n), e)
<1> DEFINE cs == WordAt(n, 2)
           ss == WordAt(n, 5)
           f == WordAt(n, 3)
           ip == WordAt(n, 1).ip
           esp == WordAt(n, 4).esp
           outer == Pop(n, 5)
           withCs == LoadSegment(outer, "cs", cs, cs.rpl)
           withSs == LoadSegment(withCs, "ss", ss, cs.rpl)
           x == [[[outer EXCEPT !.cs = cs] EXCEPT !.ss = ss] EXCEPT !.f = f]
<1>0. ~ n.f.nt /\ ~ (f.vm /\ n.cpl = 0) /\ cs.rpl > n.cpl =>
         Iret(n) = IF withCs.exception_pending THEN withCs
                   ELSE IF withSs.exception_pending THEN withSs
                   ELSE Outward([withSs EXCEPT !.f = f], n.ss, cs.rpl, ip, esp)
  BY DEF Iret
<1>1. /\ IsMachine(n) /\ n.f.vm = FALSE /\ n.ss.rpl = n.cpl
      /\ IsTransfer(n.tr, e) /\ KeepsFlags(e, Context(n)) /\ Frame(e, Stack(n))
      /\ e.from.esp \in Nat /\ e.esp \in Nat /\ e.esp = Esp(n)
      /\ \A i : Word(e, Stack(n), i) = WordAt(n, i)
      /\ n.cpl = 0 /\ e.from.ss.rpl = 3
  BY DEF AtReturn
<1>2. n.ss.rpl = 0 /\ e.params = 0
  BY <1>1 DEF IsTransfer
<1>3. e.esp = 5
  BY <1>1 DEF IsTransfer, FrameSize
<1>4. /\ Names(cs, {"code", "conforming"}) /\ SegmentFault("cs", cs, cs.rpl) = "none"
      /\ cs.rpl = 3 /\ cs = Sel(cs.index, cs.rpl)
      /\ Names(e.from.ss, {"data"}) /\ SegmentFault("ss", e.from.ss, 3) = "none"
  BY <1>1, <1>2, ReturnSelector
<1>5. ip = e.from.ip
  <2>1. WordAt(n, 1) = [ip |-> e.from.ip]
    BY <1>1 DEF Frame
  <2> QED BY <2>1
<1>6. esp = e.from.esp /\ ss = e.from.ss
  <2>1. WordAt(n, 4) = [esp |-> e.from.esp + e.params] /\ ss = e.from.ss
    BY <1>1 DEF Frame
  <2>2. esp = e.from.esp + e.params
    BY <2>1
  <2>3. e.from.esp + e.params = e.from.esp
    BY <1>1, <1>2
  <2> HIDE DEF esp
  <2> QED BY <2>1, <2>2, <2>3
<1>7. f = e.from.f
  BY <1>1 DEF Frame
<1>8. n.f.nt = FALSE
  <2>1. n.f.nt \in BOOLEAN
    BY <1>1, MachineTypes
  <2>2. Context(n).f = n.f
    BY DEF Context
  <2>3. ~ n.f.nt
    BY <1>1, <2>2 DEF KeepsFlags
  <2> QED BY <2>1, <2>3
<1> HIDE DEF cs, ss, ip, esp, f
<1>9. /\ HasStacks(outer) /\ SameRest(outer, n) /\ SameRegisters(outer, n)
      /\ \A y \in StackNames : y # n.ss.index => outer.stack[y] = n.stack[y]
  <2>1. 5 <= Esp(n)
    BY <1>1, <1>3
  <2>2. 5 \in Nat
    OBVIOUS
  <2> QED BY <1>1, <2>1, <2>2, PoppedStacks
<1> HIDE DEF outer
<1>12. withCs = [outer EXCEPT !.cs = cs]
  BY <1>4, CsLoads
<1>13. withSs = [withCs EXCEPT !.ss = ss]
  <2>1. SegmentFault("ss", ss, cs.rpl) = "none"
    BY <1>4, <1>6
  <2> HIDE DEF withCs
  <2> QED BY <2>1, SsLoads
<1>14. outer = [y \in Fields |-> outer[y]]
  BY <1>9 DEF HasStacks
<1>15. /\ withCs.exception_pending = outer.exception_pending
       /\ withSs.exception_pending = outer.exception_pending
       /\ [withSs EXCEPT !.f = f] = x
  <2> HIDE DEF withCs, withSs
  <2> QED BY <1>12, <1>13, <1>14 DEF Fields
<1>16. /\ x = [y \in Fields |-> x[y]] /\ SameRest(x, outer) /\ x.f = f
       /\ x.cs = cs /\ x.ss = ss /\ x.ds = outer.ds /\ x.stack = outer.stack
  BY <1>14 DEF Fields, SameRest
<1> HIDE DEF x, withCs, withSs
<1>17. outer.exception_pending = FALSE
  BY <1>9 DEF SameRest
<1>18. Iret(n) = Outward(x, n.ss, 3, ip, esp)
  <2>1. withCs.exception_pending = FALSE /\ withSs.exception_pending = FALSE
    BY <1>15, <1>17
  <2>2. cs.rpl > n.cpl
    BY <1>1, <1>4
  <2>3. Iret(n) = Outward([withSs EXCEPT !.f = f], n.ss, cs.rpl, ip, esp)
    BY <1>0, <1>7, <1>8, <2>1, <2>2
  <2> QED BY <1>4, <1>15, <2>3
<1>19. x.f = IF e.kind = "call" THEN n.f ELSE e.from.f
  BY <1>7, <1>16
<1>20. x.cs = WordAt(n, 2) /\ x.ss = e.from.ss
  BY <1>6, <1>16 DEF cs
<1>21. IsReturn(n, Outward(x, n.ss, 3, e.from.ip, e.from.esp), e)
  BY <1>1, <1>2, <1>9, <1>16, <1>19, <1>20, OuterLands
<1> QED BY <1>5, <1>6, <1>18, <1>21

\* A return of IRETD to virtual-8086 mode.
LEMMA IretVm ==
    ASSUME NEW n, NEW e, AtReturn(n, e), e.kind = "interrupt", e.from.f.vm
    PROVE  IsReturn(n, Iret(n), e)
<1> DEFINE cs == WordAt(n, 2)
           ss == WordAt(n, 5)
           f == WordAt(n, 3)
           ip == WordAt(n, 1).ip
           esp == WordAt(n, 4).esp
           ds == WordAt(n, 6)
           x == [n EXCEPT !.f = f, !.cs = cs, !.ss = ss]
           o == Outward(x, n.ss, 3, ip, esp)
           d == [o EXCEPT !.ds = ds]
<1>0. ~ n.f.nt /\ (f.vm /\ n.cpl = 0) => Iret(n) = d
  BY DEF Iret
<1>1. /\ IsMachine(n) /\ n.f.vm = FALSE /\ Names(n.ss, {"data"}) /\ n.ss.rpl = n.cpl
      /\ IsTransfer(n.tr, e) /\ KeepsFlags(e, Context(n)) /\ Frame(e, Stack(n)) /\ e.ss = n.ss
      /\ e.from.esp \in Nat /\ e.esp \in Nat /\ e.esp = Esp(n)
      /\ \A i : Word(e, Stack(n), i) = WordAt(n, i)
      /\ (Switched(e) => n.cpl = 0 /\ e.from.ss.rpl = 3)
  BY DEF AtReturn
<1>2. /\ e.from.cs = Real /\ e.from.ss = Real /\ e.from.ds = Real /\ e.from.ss \in StacksOf(n.tr)
      /\ e.from.f \in [if : BOOLEAN, nt : BOOLEAN, vm : BOOLEAN] /\ e.params = 0
  <2>1. {e.from.cs, e.from.ss, e.from.ds} = {Real}
    BY <1>1 DEF IsTransfer, IsContext
  <2> QED BY <1>1, <2>1 DEF IsTransfer, IsContext
<1>3. Switched(e)
  <2>1. n.ss # Real
    BY <1>1, ProtectedModeAssumption DEF Names, TableAssumption, Real, Sel
  <2> QED BY <1>1, <1>2, <2>1 DEF Switched
<1>4. n.cpl = 0 /\ n.ss.rpl = 0 /\ e.from.ss.rpl = 3
  BY <1>1, <1>3
<1>5. ip = e.from.ip
  <2>1. WordAt(n, 1) = [ip |-> e.from.ip]
    BY <1>1 DEF Frame
  <2> QED BY <2>1
<1>6. esp = e.from.esp /\ ss = Real
  <2>1. WordAt(n, 4) = [esp |-> e.from.esp + e.params] /\ ss = e.from.ss
    BY <1>1, <1>3 DEF Frame
  <2>2. esp = e.from.esp + e.params
    BY <2>1
  <2>3. e.from.esp + e.params = e.from.esp
    BY <1>1, <1>2
  <2> HIDE DEF esp, ss
  <2> QED BY <1>2, <2>1, <2>2, <2>3
<1>7. f = e.from.f /\ cs = Real /\ ds = Real
  BY <1>1, <1>2 DEF Frame
<1>8. n.f.nt = FALSE
  <2>1. n.f.nt \in BOOLEAN
    BY <1>1, MachineTypes
  <2>2. Context(n).f = n.f
    BY DEF Context
  <2>3. ~ n.f.nt
    BY <1>1, <2>2 DEF KeepsFlags
  <2> QED BY <2>1, <2>3
<1> HIDE DEF cs, ss, ip, esp, f, ds
<1>9. Iret(n) = d
  <2>1. ~ n.f.nt /\ (f.vm /\ n.cpl = 0)
    BY <1>4, <1>7, <1>8
  <2> HIDE DEF d
  <2> QED BY <1>0, <2>1
<1>10. HasStacks(n)
  BY <1>1 DEF IsMachine
<1>11. n = [y \in Fields |-> n[y]]
  BY <1>10 DEF HasStacks
<1>12. /\ x = [y \in Fields |-> x[y]] /\ SameRest(x, n) /\ x.f = f /\ x.cs = cs /\ x.ss = ss
       /\ x.stack = n.stack
  BY <1>11 DEF Fields, SameRest
<1> HIDE DEF x
<1>13. HasStacks(x)
  <2>1. x.tr \in DOMAIN Tasks /\ x.ss \in StacksOf(x.tr)
    <3>1. x.tr = n.tr /\ n.tr \in DOMAIN Tasks
      BY <1>1, <1>12, MachineTypes DEF SameRest
    <3>2. x.ss = e.from.ss
      BY <1>2, <1>6, <1>12
    <3> QED BY <1>2, <3>1, <3>2
  <2>2. n.stack = [y \in StackNames |-> n.stack[y]] /\ \A y \in StackNames : IsSeq(n.stack[y])
    BY <1>10 DEF HasStacks
  <2>3. x.stack = [y \in StackNames |-> x.stack[y]] /\ \A y \in StackNames : IsSeq(x.stack[y])
    BY <1>12, <2>2
  <2> QED BY <1>12, <2>1, <2>3 DEF HasStacks
<1>14. OutwardIsFrom(n, x, o, ip, esp)
  <2>1. \A y \in StackNames : y # n.ss.index => x.stack[y] = n.stack[y]
    BY <1>12
  <2>2. esp \in Nat
    BY <1>1, <1>6
  <2>3. x.ss.rpl = 3
    BY <1>6, <1>12 DEF Real, Sel
  <2> QED BY <1>1, <1>4, <1>12, <1>13, <2>1, <2>2, <2>3, OutwardIs
<1> HIDE DEF o
<1>15. /\ HasStacks(o) /\ SameRest(o, n) /\ o.cs = Real /\ o.ss = Real /\ o.ip = ip /\ o.f = f
       /\ o.cpl = 3 /\ Esp(o) = esp
       /\ SameElsewhere(o, n) /\ Agree(o.stack, n.stack, n.tr, 3, o.ss, Esp(o))
  BY <1>6, <1>7, <1>12, <1>14 DEF OutwardIsFrom
<1>16. o = [y \in Fields |-> o[y]]
  BY <1>15 DEF HasStacks
<1>17. /\ d = [y \in Fields |-> d[y]] /\ SameRest(d, o) /\ d.cs = o.cs /\ d.ss = o.ss /\ d.ip = o.ip
       /\ d.f = o.f /\ d.cpl = o.cpl /\ d.stack = o.stack /\ d.ds = ds
  BY <1>16 DEF Fields, SameRest
<1> HIDE DEF d
<1>18. HasStacks(d) /\ SameRest(d, n) /\ Esp(d) = Esp(o)
  BY <1>15, <1>17 DEF HasStacks, SameRest, Esp, Stack
<1>19. IsMachine(d)
  <2>1. d.f = e.from.f /\ d.cs = Real /\ d.ss = Real /\ d.ds = Real /\ d.cpl = 3
    BY <1>7, <1>15, <1>17
  <2>2. d.f \in [if : BOOLEAN, nt : BOOLEAN, vm : BOOLEAN] /\ d.f.vm
    BY <1>2, <2>1
  <2>3. /\ n.reset = FALSE /\ n.exception_pending \in BOOLEAN /\ n.idt \in Idts
        /\ n.busy \in [DOMAIN Tasks -> BOOLEAN] /\ n.link \in [DOMAIN Tasks -> DOMAIN Tasks]
        /\ n.tss = [t \in DOMAIN Tasks \ {n.tr} |-> n.tss[t]]
    BY <1>1 DEF IsMachine
  <2>4. /\ d.reset = FALSE /\ d.exception_pending \in BOOLEAN /\ d.idt \in Idts
        /\ d.busy \in [DOMAIN Tasks -> BOOLEAN] /\ d.link \in [DOMAIN Tasks -> DOMAIN Tasks]
        /\ d.tss = [t \in DOMAIN Tasks \ {d.tr} |-> d.tss[t]]
    BY <1>18, <2>3 DEF SameRest
  <2> QED BY <1>18, <2>1, <2>2, <2>4 DEF IsMachine
<1>20. SameElsewhere(d, n)
  BY <1>15, <1>17 DEF SameElsewhere
<1>21. d.ss.rpl = 3 /\ d.ss = e.from.ss
  BY <1>2, <1>15, <1>17 DEF Real, Sel
<1>22. Agree(d.stack, n.stack, n.tr, d.ss.rpl, d.ss, Esp(d))
  BY <1>15, <1>17, <1>18, <1>21
<1>23. d.f = IF e.kind = "call" THEN n.f ELSE e.from.f
  BY <1>7, <1>15, <1>17
<1>24. d.ip = e.from.ip /\ (e.intact => d.cs = e.from.cs) /\ (e.from.f.vm => d.ds = e.from.ds)
  BY <1>2, <1>5, <1>7, <1>15, <1>17
<1>25. Esp(d) = e.from.esp /\ Esp(n) = e.esp
  BY <1>1, <1>6, <1>15, <1>18
<1>26. IsReturn(n, d, e)
  BY <1>1, <1>18, <1>19, <1>20, <1>21, <1>22, <1>23, <1>24, <1>25, Landed
<1> QED BY <1>9, <1>26

LEMMA Retfs ==
    ASSUME NEW n, NEW us, Running(n, us), us[n.tr] # <<>>, NEW e, e = Last(us[n.tr]),
           e.kind = "call", e.esp = Esp(n), n.exception_pending = FALSE
    PROVE  IsReturn(n, Retf(n, e.params), e)
<1>1. CASE Switched(e)
  BY <1>1, RetfOuter
<1>2. CASE ~ Switched(e)
  BY <1>2, RetfSame
<1> QED BY <1>1, <1>2

LEMMA Irets ==
    ASSUME NEW n, NEW us, Running(n, us), us[n.tr] # <<>>, NEW e, e = Last(us[n.tr]),
           e.kind = "interrupt", e.esp = Esp(n), n.exception_pending = FALSE
    PROVE  IsReturn(n, Iret(n), e)
<1>1. AtReturn(n, e)
  <2>1. e.kind # "task"
    OBVIOUS
  <2> QED BY <2>1, Returning0
<1>2. CASE e.from.f.vm
  BY <1>1, <1>2, IretVm
<1>3. CASE ~ e.from.f.vm /\ Switched(e)
  BY <1>1, <1>3, IretOuter
<1>4. CASE ~ Switched(e)
  BY <1>1, <1>4, IretSame
<1> QED BY <1>2, <1>3, <1>4

\* A return within the task.
LEMMA InTaskReturnStep ==
    ASSUME IsGood(m, unreturned), NEW kind, kind \in {"call", "interrupt"}, Returning(kind),
           NEW d, IsReturn(Fetched, d, Last(Pending)), Continues(d, Front(Pending))
    PROVE  GoodStep(m, unreturned, m', unreturned')
<1> DEFINE n == Fetched
           e == Last(Pending)
           x == unreturned[n.tr]
           c == Context(n)
<1>1. ~ m.reset /\ Pending # <<>> /\ e.kind = kind
  BY DEF Returning
<1>2. /\ Running(n, unreturned) /\ n.exception_pending = FALSE /\ n.tr = m.tr
  BY <1>1, Begins
<1>3. x = Pending
  BY <1>2 DEF Pending
<1>4. /\ IsMachine(d) /\ SameTasks(d, n) /\ SameElsewhere(d, n) /\ ReturnsTo(n, d, e)
      /\ d.exception_pending = n.exception_pending
      /\ d.f = IF e.kind = "call" THEN n.f ELSE e.from.f
      /\ e.intact /\ d.f.nt = e.from.f.nt => Left(d, FALSE) = e.from
  BY DEF IsReturn
<1>5. e.kind # "task"
  BY <1>1
<1>6. d.exception_pending = FALSE
  BY <1>2, <1>4
<1>7. TwoTasks /\ AllKeep(n, unreturned) => d.f.nt = e.from.f.nt
  <2>1. CASE e.kind = "call"
    <3>1. /\ IsSeq(x) /\ n.tr \in DOMAIN Tasks /\ c.f = n.f
      BY <1>2, Current
    <3>2. Len(x) \in 1 .. Len(x) /\ x[Len(x)] = Last(x)
      BY <1>1, <1>3, <3>1, Shorter
    <3>3. AllKeep(n, unreturned) => KeepsTasks(x, c)
      <4>1. ContextIn(n, n.tr) = c
        BY DEF ContextIn
      <4> QED BY <3>1, <4>1 DEF AllKeep
    <3>4. After(x, c, Len(x)) = c
      BY DEF After
    <3>5. x[Len(x)] = e
      BY <1>3, <3>2
    <3> HIDE DEF x, c, e, n
    <3>6. KeepsTasks(x, c) => c.f.nt = e.from.f.nt
      BY <1>5, <2>1, <3>2, <3>4, <3>5 DEF KeepsTasks
    <3>7. d.f = c.f
      BY <1>4, <2>1, <3>1
    <3> QED BY <3>3, <3>6, <3>7
  <2>2. CASE e.kind # "call"
    BY <1>4, <2>2
  <2> QED BY <2>1, <2>2
<1> QED BY <1>1, <1>4, <1>5, <1>6, <1>7, ReturnStep

LEMMA ReturnFromCallStep ==
    ASSUME IsGood(m, unreturned), ReturnFromCall
    PROVE  GoodStep(m, unreturned, m', unreturned')
<1> DEFINE n == Fetched
           e == Last(Pending)
           d == Retf(n, e.params)
           kind == "call"
<1>1. /\ Returning("call") /\ Continues(d, Front(Pending))
  BY DEF ReturnFromCall
<1>2. /\ ~ m.reset /\ Pending # <<>> /\ e.kind = "call" /\ e.esp = Esp(m)
  BY <1>1 DEF Returning
<1>3. /\ Running(m, unreturned) /\ Running(n, unreturned) /\ n.exception_pending = FALSE
      /\ Like(n, m) /\ n.tr = m.tr
  BY <1>2, Begins
<1>4. Esp(n) = Esp(m)
  BY <1>3, LikeRuns
<1>5. unreturned[n.tr] = Pending
  BY <1>3 DEF Pending
<1> HIDE DEF n
<1>6. unreturned[n.tr] # <<>> /\ e = Last(unreturned[n.tr]) /\ e.kind = "call" /\ e.esp = Esp(n)
  BY <1>2, <1>4, <1>5
<1> HIDE DEF e
<1>7. IsReturn(n, d, e)
  BY <1>3, <1>6, Retfs
<1> HIDE DEF d
<1>8. IsReturn(Fetched, d, Last(Pending))
  BY <1>7 DEF n, e
<1>9. kind \in {"call", "interrupt"} /\ Returning(kind)
  BY <1>1
<1> QED BY <1>1, <1>8, <1>9, InTaskReturnStep

LEMMA ReturnFromInterruptStep ==
    ASSUME IsGood(m, unreturned), ReturnFromInterrupt
    PROVE  GoodStep(m, unreturned, m', unreturned')
<1> DEFINE n == Fetched
           e == Last(Pending)
           d == Iret(n)
           kind == "interrupt"
<1>1. /\ Returning("interrupt") /\ Continues(d, Front(Pending))
  BY DEF ReturnFromInterrupt
<1>2. /\ ~ m.reset /\ Pending # <<>> /\ e.kind = "interrupt" /\ e.esp = Esp(m)
  BY <1>1 DEF Returning
<1>3. /\ Running(m, unreturned) /\ Running(n, unreturned) /\ n.exception_pending = FALSE
      /\ Like(n, m) /\ n.tr = m.tr
  BY <1>2, Begins
<1>4. Esp(n) = Esp(m)
  BY <1>3, LikeRuns
<1>5. unreturned[n.tr] = Pending
  BY <1>3 DEF Pending
<1> HIDE DEF n
<1>6. unreturned[n.tr] # <<>> /\ e = Last(unreturned[n.tr]) /\ e.kind = "interrupt" /\ e.esp = Esp(n)
  BY <1>2, <1>4, <1>5
<1> HIDE DEF e
<1>7. IsReturn(n, d, e)
  BY <1>3, <1>6, Irets
<1> HIDE DEF d
<1>8. IsReturn(Fetched, d, Last(Pending))
  BY <1>7 DEF n, e
<1>9. kind \in {"call", "interrupt"} /\ Returning(kind)
  BY <1>1
<1> QED BY <1>1, <1>8, <1>9, InTaskReturnStep

LEMMA ReturnFromTaskStep ==
    ASSUME IsGood(m, unreturned), ReturnFromTask
    PROVE  GoodStep(m, unreturned, m', unreturned')
<1> DEFINE n == Fetched
           e == Last(Pending)
           u == n.link[n.tr]
           task == Sel(u, 0)
           d == TaskSwitched(n, task, FALSE, TRUE, <<>>)
           vs == [unreturned EXCEPT ![n.tr] = Front(@)]
<1>1. /\ Returning("task") /\ m.f.nt /\ Continues(Iret(n), Front(Pending))
  BY DEF ReturnFromTask
<1>2. /\ ~ m.reset /\ Pending # <<>> /\ e.kind = "task"
  BY <1>1 DEF Returning
<1>3. /\ Running(m, unreturned) /\ Running(n, unreturned) /\ n.exception_pending = FALSE
      /\ Like(n, m) /\ n.tr = m.tr /\ (TwoTasks => AllKeep(n, unreturned))
  BY <1>2, Begins
<1>4. n.f.nt
  BY <1>1, <1>3 DEF Like
<1>5. unreturned[n.tr] = Pending
  BY <1>3 DEF Pending
<1>6. IsMachine(n) /\ Nested(n) /\ u # n.tr
  BY <1>3, <1>4, Current
<1>7. u \in DOMAIN Tasks /\ n.busy[u]
  <2>1. n.busy[n.tr]
    BY <1>6 DEF Nested, IsChain
  <2> QED BY <1>6, <2>1 DEF Nested, IsChain
<1>8. task.index = u
  BY DEF Sel
<1>9. TaskFault(n, task, TRUE) = "none"
  <2>1. Table[u].type = "tss" /\ Table[u].present
    BY <1>7, ProtectedModeAssumption DEF TasksAssumption
  <2> QED BY <1>7, <1>8, <2>1 DEF TaskFault, DescriptorOf
<1>10. Iret(n) = TaskSwitch(n, task, FALSE, TRUE)
  BY <1>4 DEF Iret
<1>11. Iret(n) = d
  BY <1>9, <1>10 DEF TaskSwitch
<1>12. Returned(n, d, u)
  <2> HIDE DEF task, n, u
  <2>1. ASSUME NEW call \in BOOLEAN, call = FALSE
        PROVE  LET x == TaskSwitched(n, task, call, ~ call, <<>>)
               IN  /\ SwitchesTo(n, x, task.index) /\ x.f.nt = call
                   /\ x.busy = BusyAfter(n, task.index, call)
                   /\ x.link = [n.link EXCEPT ![task.index] = IF call THEN n.tr ELSE @]
    <3>1. task.index \in DOMAIN Tasks \ {n.tr}
      BY <1>6, <1>7, <1>8
    <3> QED BY <1>3, <3>1, SwitchIs
  <2>2. SwitchesTo(n, d, u) /\ d.f.nt = FALSE /\ d.busy = BusyAfter(n, u, FALSE)
        /\ d.link = [n.link EXCEPT ![u] = n.link[u]]
    <3>1. (~ FALSE) = TRUE
      OBVIOUS
    <3> QED BY <1>8, <2>1, <3>1
  <2> HIDE DEF d
  <2>3. n.busy \in [DOMAIN Tasks -> BOOLEAN] /\ n.link \in [DOMAIN Tasks -> DOMAIN Tasks]
    BY <1>6 DEF IsMachine
  <2>4. BusyAfter(n, u, FALSE) = [t \in DOMAIN Tasks |-> t = u \/ (n.busy[t] /\ t # n.tr)]
    BY <2>3 DEF BusyAfter
  <2>5. [n.link EXCEPT ![u] = n.link[u]] = n.link
    BY <2>3
  <2> QED BY <2>2, <2>4, <2>5 DEF Returned
<1> HIDE DEF d, n, task
<1>13. unreturned[n.tr] # <<>> /\ e = Last(unreturned[n.tr]) /\ e.kind = "task"
  BY <1>2, <1>5
<1> HIDE DEF e
<1>14. /\ d.exception_pending = n.exception_pending
       /\ Running(d, vs)
       /\ AllKeep(n, unreturned) => AllKeep(d, vs) /\ Context(d) = e.from
  <2>1. Running(n, unreturned) /\ n.f.nt /\ unreturned[n.tr] # <<>> /\ e = Last(unreturned[n.tr])
        /\ e.kind = "task" /\ Returned(n, d, n.link[n.tr])
    BY <1>3, <1>4, <1>12, <1>13
  <2> HIDE DEF u
  <2>2. d.exception_pending = n.exception_pending
    BY <2>1, TaskReturned
  <2>3. Running(d, [unreturned EXCEPT ![n.tr] = Front(@)])
    BY <2>1, TaskReturned
  <2>4. AllKeep(n, unreturned) => AllKeep(d, [unreturned EXCEPT ![n.tr] = Front(@)])
    BY <2>1, TaskReturned
  <2>5. AllKeep(n, unreturned) => Resumes(d, e)
    BY <2>1, TaskReturned
  <2> QED BY <2>2, <2>3, <2>4, <2>5 DEF Resumes
<1>15. d.exception_pending = FALSE /\ (TwoTasks => AllKeep(d, vs) /\ Context(d) = e.from)
  BY <1>3, <1>14
<1>16. TwoTasks => Restores(unreturned, d, vs)
  <2> SUFFICES ASSUME TwoTasks, NEW t \in DOMAIN unreturned, Len(vs[t]) < Len(unreturned[t]),
                      Last(unreturned[t]).intact
               PROVE  LET from == Last(unreturned[t]).from
                      IN  Left(d, Last(unreturned[t]).kind = "task") = from
    BY DEF Restores
  <2>1. t \in DOMAIN Tasks
    BY <1>3 DEF Running
  <2>2. Len(unreturned[t]) \in Nat
    <3>1. IsSeq(unreturned[t])
      BY <1>3, <2>1 DEF Running, GoodTask, IsHistory
    <3> QED BY <3>1, Longer
  <2>3. t = n.tr
    <3>1. t # n.tr => vs[t] = unreturned[t]
      BY <1>3, <2>1 DEF Running
    <3> QED BY <2>2, <3>1
  <2>4. Last(unreturned[t]) = e
    BY <1>13, <2>3
  <2>5. Left(d, e.kind = "task") = Context(d)
    BY <1>13 DEF Left
  <2>6. Context(d) = e.from
    BY <1>15
  <2> QED BY <2>4, <2>5, <2>6
<1>17. vs = [unreturned EXCEPT ![m.tr] = Front(Pending)]
  BY <1>3, <1>5
<1>18. Continues(d, Front(Pending))
  BY <1>1, <1>11
<1> HIDE DEF vs
<1> QED BY <1>2, <1>14, <1>15, <1>16, <1>17, <1>18, ContinuesStep

-----------------------------------------------------------------------------
(* The initial state, the steps and the theorems. *)

\* n starts in task t.
StartsIn(n, idt, t, start) ==
    n = [ip |-> start.ip, f |-> start.f, cs |-> start.cs, ss |-> start.ss, ds |-> start.ds,
         cpl |-> IF start.f.vm THEN 3 ELSE start.cs.rpl, insn_ip |-> 0,
         exception_pending |-> FALSE, reset |-> FALSE,
         stack |-> [x \in StackNames |->
                      IF x = start.ss.index THEN [i \in 1 .. start.esp |-> [ip |-> 0]] ELSE <<>>],
         tr |-> t, busy |-> [u \in DOMAIN Tasks |-> u = t],
         tss |-> [u \in DOMAIN Tasks \ {t} |-> CHOOSE c \in Tasks[u].starts : c.esp = 0],
         link |-> [u \in DOMAIN Tasks |-> u],
         idt |-> idt]

LEMMA StartIs ==
    ASSUME PmInit
    PROVE  /\ m.tr \in DOMAIN Tasks /\ Context(m) \in Tasks[m.tr].starts
           /\ unreturned = [t \in DOMAIN Tasks |-> <<>>]
           /\ \E idt \in Idts : StartsIn(m, idt, m.tr, Context(m))
<1>1. PICK t \in DOMAIN Tasks : \E idt \in Idts : \E start \in Tasks[t].starts : StartsIn(m, idt, t, start)
  BY DEF PmInit, StartsIn
<1>2. PICK idt \in Idts : \E start \in Tasks[t].starts : StartsIn(m, idt, t, start)
  BY <1>1
<1>9. PICK start \in Tasks[t].starts : StartsIn(m, idt, t, start)
  BY <1>2
<1>10. /\ m.tr = t /\ m.ip = start.ip /\ m.f = start.f /\ m.cs = start.cs /\ m.ss = start.ss /\ m.ds = start.ds
      /\ m.stack = [x \in StackNames |->
                     IF x = start.ss.index THEN [i \in 1 .. start.esp |-> [ip |-> 0]] ELSE <<>>]
  BY <1>9 DEF StartsIn
<1>3. start.ss.index \in StackNames
  <2>1. start.ss \in StacksOf(t)
    BY DEF StacksOf
  <2> QED BY <2>1, StackOf
<1>4. Stack(m) = [i \in 1 .. start.esp |-> [ip |-> 0]]
  BY <1>10, <1>3 DEF Stack
<1>5. IsContext(start) /\ start.esp \in Nat
  BY ProtectedModeAssumption DEF TasksAssumption, IsContext
<1>6. Esp(m) = start.esp
  BY <1>4, <1>5 DEF Esp
<1>7. Context(m) = start
  <2>1. start = [ip |-> start.ip, f |-> start.f, cs |-> start.cs, ss |-> start.ss, ds |-> start.ds,
                 esp |-> start.esp]
    BY <1>5 DEF IsContext
  <2>2. m.ip = start.ip /\ m.f = start.f /\ m.cs = start.cs /\ m.ss = start.ss /\ m.ds = start.ds
    BY <1>10
  <2> QED BY <1>6, <2>1, <2>2 DEF Context
<1>8. unreturned = [x \in DOMAIN Tasks |-> <<>>]
  BY DEF PmInit
<1> QED BY <1>9, <1>10, <1>7, <1>8

LEMMA InitIsGood ==
    ASSUME PmInit
    PROVE  IsGood(m, unreturned)
<1> DEFINE c == Context(m)
<1>1. /\ m.tr \in DOMAIN Tasks /\ c \in Tasks[m.tr].starts
      /\ unreturned = [t \in DOMAIN Tasks |-> <<>>]
  BY StartIs
<1>2. PICK idt \in Idts : StartsIn(m, idt, m.tr, c)
  BY StartIs
<1> HIDE DEF c
<1>3. /\ m.f = c.f /\ m.cs = c.cs /\ m.ss = c.ss /\ m.ds = c.ds
      /\ m.cpl = (IF c.f.vm THEN 3 ELSE c.cs.rpl)
      /\ m.exception_pending = FALSE /\ m.reset = FALSE /\ m.idt = idt
      /\ m.stack = [x \in StackNames |->
                     IF x = c.ss.index THEN [i \in 1 .. c.esp |-> [ip |-> 0]] ELSE <<>>]
      /\ m.busy = [u \in DOMAIN Tasks |-> u = m.tr] /\ m.link = [u \in DOMAIN Tasks |-> u]
      /\ m.tss = [u \in DOMAIN Tasks \ {m.tr} |-> CHOOSE x \in Tasks[u].starts : x.esp = 0]
  <2> DEFINE t == m.tr
  <2> HIDE DEF t
  <2>1. StartsIn(m, idt, t, c)
    BY <1>2 DEF t
  <2>2. /\ m.f = c.f /\ m.cs = c.cs /\ m.ss = c.ss /\ m.ds = c.ds
      /\ m.cpl = (IF c.f.vm THEN 3 ELSE c.cs.rpl)
      /\ m.exception_pending = FALSE /\ m.reset = FALSE /\ m.idt = idt
      /\ m.stack = [x \in StackNames |->
                     IF x = c.ss.index THEN [i \in 1 .. c.esp |-> [ip |-> 0]] ELSE <<>>]
      /\ m.busy = [u \in DOMAIN Tasks |-> u = t] /\ m.link = [u \in DOMAIN Tasks |-> u]
      /\ m.tss = [u \in DOMAIN Tasks \ {t} |-> CHOOSE x \in Tasks[u].starts : x.esp = 0]
    BY <2>1 DEF StartsIn
  <2> QED BY <2>2 DEF t
<1>4. m = [x \in Fields |-> m[x]]
  BY <1>2 DEF Fields, StartsIn
<1>5. ASSUME NEW t \in DOMAIN Tasks, NEW x \in Tasks[t].starts
      PROVE  IsContext(x) /\ ~ x.f.nt /\ x.ss \in StacksOf(t)
  BY ProtectedModeAssumption DEF TasksAssumption, StacksOf
<1>6. IsContext(c) /\ ~ c.f.nt /\ c.ss \in StacksOf(m.tr)
  BY <1>1, <1>5
<1>7. HasStacks(m)
  <2>1. ASSUME NEW y \in StackNames PROVE IsSeq(m.stack[y])
    <3>1. c.esp \in Nat
      BY <1>6 DEF IsContext
    <3>2. [i \in 1 .. c.esp |-> [ip |-> 0]] \in Seq({[ip |-> 0]})
      BY <3>1
    <3>3. IsSeq([i \in 1 .. c.esp |-> [ip |-> 0]])
      BY <3>2 DEF IsSeq
    <3>4. IsSeq(<<>>)
      BY EmptySeq DEF IsSeq
    <3> QED BY <1>3, <3>3, <3>4
  <2>2. m.stack = [y \in StackNames |-> m.stack[y]]
    BY <1>3
  <2> QED BY <1>1, <1>3, <1>4, <1>6, <2>1, <2>2 DEF HasStacks
<1>8. IsMachine(m)
  <2>1. c.f \in [if : BOOLEAN, nt : BOOLEAN, vm : BOOLEAN]
        /\ IF c.f.vm THEN c.cs = Real /\ c.ss = Real /\ c.ds = Real
           ELSE Fit(c.cs, c.ss, c.ds)
    BY <1>6 DEF IsContext
  <2>2. m.busy \in [DOMAIN Tasks -> BOOLEAN] /\ m.link \in [DOMAIN Tasks -> DOMAIN Tasks]
        /\ m.tss = [t \in DOMAIN Tasks \ {m.tr} |-> m.tss[t]]
    BY <1>3
  <2>3. /\ m.f = c.f /\ m.cs = c.cs /\ m.ss = c.ss /\ m.ds = c.ds
        /\ m.cpl = (IF c.f.vm THEN 3 ELSE c.cs.rpl)
        /\ m.exception_pending \in BOOLEAN /\ m.reset = FALSE /\ m.idt \in Idts
    BY <1>3
  <2> QED BY <1>7, <2>1, <2>2, <2>3 DEF IsMachine
<1>9. Nested(m)
  <2>1. /\ \A t \in DOMAIN Tasks : m.busy[t] <=> t = m.tr
        /\ \A t \in DOMAIN Tasks : m.link[t] = t
    BY <1>3
  <2>2. IsChain(m.tr, m.busy, m.link)
    BY <1>1, <2>1 DEF IsChain
  <2> QED BY <1>1, <1>8, <2>2 DEF IsMachine, Nested
<1>10. ASSUME NEW t \in DOMAIN Tasks PROVE ContextIn(m, t) \in Tasks[t].starts
  <2>1. CASE t = m.tr
    BY <1>1, <2>1 DEF ContextIn, c
  <2>2. CASE t # m.tr
    <3>1. \E x \in Tasks[t].starts : x.esp = 0
      BY ProtectedModeAssumption DEF TasksAssumption
    <3>2. (CHOOSE x \in Tasks[t].starts : x.esp = 0) \in Tasks[t].starts
      BY <3>1
    <3> QED BY <1>3, <2>2, <3>2 DEF ContextIn
  <2> QED BY <2>1, <2>2
<1>11. ASSUME NEW t \in DOMAIN Tasks
       PROVE  GoodTask(m, unreturned, t) /\ KeepsTasks(unreturned[t], ContextIn(m, t))
  <2> DEFINE x == ContextIn(m, t)
  <2>1. x \in Tasks[t].starts
    BY <1>10
  <2> HIDE DEF x
  <2>2. IsContext(x) /\ ~ x.f.nt /\ x.ss \in StacksOf(t)
    BY <1>5, <2>1
  <2>3. unreturned[t] = <<>>
    BY <1>1
  <2>4. IsHistory(t, unreturned[t], x, m.stack) /\ KeepsTasks(unreturned[t], x)
    BY <2>3, NoHistory
  <2>5. Len(unreturned[t]) = 0
    BY <2>3
  <2>6. \A i \in 1 .. Len(unreturned[t]) : IsLinked(m, t, unreturned[t][i])
    BY <2>5
  <2>7. GoodTask(m, unreturned, t)
    BY <2>2, <2>3, <2>4, <2>6 DEF GoodTask, x
  <2> QED BY <2>4, <2>7 DEF x
<1>12. unreturned = [t \in DOMAIN Tasks |-> unreturned[t]]
  BY <1>1
<1>13. Running(m, unreturned)
  BY <1>8, <1>9, <1>11, <1>12 DEF Running
<1>14. AllKeep(m, unreturned)
  BY <1>11 DEF AllKeep
<1> QED BY <1>3, <1>9, <1>13, <1>14 DEF IsGood

\* No program leaves the processor where it cannot return from what it entered.
LEMMA NextIsGood ==
    ASSUME IsGood(m, unreturned), PmNext
    PROVE  GoodStep(m, unreturned, m', unreturned')
<1>1. ASSUME NEW reg \in {"ds", "ss"}, NEW sel \in Loads, MovSegment(reg, sel)
      PROVE  GoodStep(m, unreturned, m', unreturned')
  BY <1>1, MovSegmentStep
<1>2. ASSUME NEW sel \in Calls, FarCall(sel) PROVE GoodStep(m, unreturned, m', unreturned')
  BY <1>2, FarCallStep
<1>3. ASSUME NEW sel \in Jumps, FarJump(sel) PROVE GoodStep(m, unreturned, m', unreturned')
  BY <1>3, FarJumpStep
<1>4. ASSUME NEW v \in SoftwareInts, IntN(v) PROVE GoodStep(m, unreturned, m', unreturned')
  BY <1>4, IntNStep
<1>5. ASSUME NEW sel \in Returns, ChangeReturn(sel) PROVE GoodStep(m, unreturned, m', unreturned')
  BY <1>5, ChangeReturnStep
<1>6. CASE UndefinedOpcode
  BY <1>6, UndefinedOpcodeStep
<1>7. CASE Irq
  BY <1>7, IrqStep
<1>8. CASE DropErrorCode
  BY <1>8, DropErrorCodeStep
<1>9. CASE ReturnFromCall
  BY <1>9, ReturnFromCallStep
<1>10. CASE ReturnFromInterrupt
  BY <1>10, ReturnFromInterruptStep
<1>11. CASE ReturnFromTask
  BY <1>11, ReturnFromTaskStep
<1> QED BY <1>1, <1>2, <1>3, <1>4, <1>5, <1>6, <1>7, <1>8, <1>9, <1>10, <1>11 DEF PmNext

LEMMA GoodAgrees ==
    ASSUME IsGood(m, unreturned)
    PROVE  LevelsAndTasksAgree
<1> DEFINE busy == {t \in DOMAIN m.busy : m.busy[t]}
           waiting == {t \in DOMAIN m.busy : \E u \in busy \ {t} : m.link[u] = t}
<1>1. /\ m.tr \in DOMAIN Tasks /\ DOMAIN m.busy = DOMAIN Tasks
      /\ IsChain(m.tr, m.busy, m.link)
  BY DEF IsGood, Nested
<1>2. busy = {m.tr} \cup waiting
  <2>1. ASSUME NEW t \in busy PROVE t \in {m.tr} \cup waiting
    <3>1. CASE t # m.tr
      <4>1. PICK u \in DOMAIN Tasks \ {t} : m.busy[u] /\ m.link[u] = t
        BY <1>1, <3>1 DEF IsChain
      <4> QED BY <1>1, <4>1
    <3> QED BY <3>1
  <2>2. ASSUME NEW t \in {m.tr} \cup waiting PROVE t \in busy
    <3>1. CASE t = m.tr
      BY <1>1, <3>1 DEF IsChain
    <3>2. CASE t \in waiting
      <4>1. PICK u \in busy : m.link[u] = t
        BY <3>2
      <4>2. m.busy[m.link[u]]
        BY <1>1 DEF IsChain
      <4> QED BY <1>1, <3>2, <4>1, <4>2
    <3> QED BY <3>1, <3>2
  <2> QED BY <2>1, <2>2
<1>3. ASSUME ~ m.reset
      PROVE  IF m.f.vm THEN m.cpl = 3
             ELSE /\ m.cs.rpl = m.cpl
                  /\ m.ss.rpl = m.cpl /\ DescriptorOf(m.ss).dpl = m.cpl
                  /\ m.ds = Null \/ IsConforming(m.ds) \/ m.cpl <= DescriptorOf(m.ds).dpl
  <2>1. IsMachine(m)
    BY <1>3 DEF IsGood, Running
  <2>2. CASE m.f.vm
    BY <2>1, <2>2 DEF IsMachine
  <2>3. CASE ~ m.f.vm
    <3>1. Fit(m.cs, m.ss, m.ds) /\ m.cpl = m.cs.rpl
      BY <2>1, <2>3 DEF IsMachine
    <3>2. SegmentFault("ss", m.ss, m.cpl) = "none" /\ m.ss.rpl = m.cpl
      BY <3>1, FitRings DEF Fit
    <3>3. DescriptorOf(m.ss).dpl = m.cpl
      BY <3>2 DEF SegmentFault
    <3>4. m.ds = Null \/ IsConforming(m.ds) \/ m.cpl <= DescriptorOf(m.ds).dpl
      BY <3>1 DEF Fit
    <3> QED BY <2>3, <3>1, <3>2, <3>3, <3>4
  <2> QED BY <2>2, <2>3
<1> QED BY <1>2, <1>3 DEF LevelsAndTasksAgree

LEMMA GoodStays ==
    IsGood(m, unreturned) /\ [PmNext]_pm => IsGood(m, unreturned)'
<1> SUFFICES ASSUME IsGood(m, unreturned), [PmNext]_pm
             PROVE  IsGood(m', unreturned')
  OBVIOUS
<1>1. CASE PmNext
  BY <1>1, NextIsGood DEF GoodStep
<1>2. CASE UNCHANGED pm
  <2>1. m' = m /\ unreturned' = unreturned
    BY <1>2 DEF pm
  <2> QED BY <2>1
<1> QED BY <1>1, <1>2

\* The privilege level is that of the selectors in CS and SS and of their
\* descriptors, no data segment is of an inner level, and the busy tasks are
\* those that run or wait for a return: load_segment, task_switch, the gates
\* and the returns keep it so, for every table, task set and program.
THEOREM PrivilegeIsKept == PmSpec => []LevelsAndTasksAgree
<1>1. PmInit => IsGood(m, unreturned)
  BY InitIsGood
<1>2. IsGood(m, unreturned) => LevelsAndTasksAgree
  BY GoodAgrees
<1> QED BY <1>1, <1>2, GoodStays, PTL DEF PmSpec

\* Whatever faults, raise_exception and do_interrupt_pm leave on the handler's
\* stack the instruction, flags and stack from before it.
THEOREM EveryFaultIsRestartable == PmSpec => FaultsAreRestartable
<1> DEFINE Delivers ==
        m'.exception_pending /\ ~ m'.reset =>
            /\ Esp(m') >= 3
            /\ Described(m', m.f.vm \/ m'.cpl # m.cpl) =
                  [ip |-> m.ip, cs |-> m.cs, f |-> m.f, ss |-> m.ss, esp |-> Esp(m)]
<1>1. PmInit => IsGood(m, unreturned)
  BY InitIsGood
<1>2. IsGood(m, unreturned) /\ PmNext => Delivers
  <2>1. Restartable(m, m') => Delivers
    BY DEF Restartable
  <2> QED BY <2>1, NextIsGood DEF GoodStep
<1>3. IsGood(m, unreturned) /\ [PmNext]_pm => [Delivers]_pm
  <2> HIDE DEF Delivers
  <2> QED BY <1>2
<1> QED BY <1>1, <1>3, GoodStays, PTL DEF PmSpec, FaultsAreRestartable

\* RETF and IRET go back to what far_call_or_jmp, do_interrupt_pm and task_switch
\* left, whatever was called, interrupted and switched to in between, where
\* task calls do not nest (IRET clears NT in the task it returns to).
THEOREM EveryReturnRestores ==
    ASSUME TwoTasks
    PROVE  PmSpec => ReturnsRestore
<1> DEFINE Returns0 ==
        \A t \in DOMAIN unreturned :
          Len(unreturned'[t]) < Len(unreturned[t]) /\ Last(unreturned[t]).intact =>
              LET from == Last(unreturned[t]).from
              IN  Left(m', Last(unreturned[t]).kind = "task") = from
<1>1. PmInit => IsGood(m, unreturned)
  BY InitIsGood
<1>2. IsGood(m, unreturned) /\ PmNext => Returns0
  <2>1. Restores(unreturned, m', unreturned') => Returns0
    BY DEF Restores
  <2> QED BY <2>1, NextIsGood DEF GoodStep
<1>3. IsGood(m, unreturned) /\ [PmNext]_pm => [Returns0]_pm
  <2> HIDE DEF Returns0
  <2> QED BY <1>2
<1> QED BY <1>1, <1>3, GoodStays, PTL DEF PmSpec, ReturnsRestore
=============================================================================
