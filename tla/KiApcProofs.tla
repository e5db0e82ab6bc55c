---------------------------- MODULE KiApcProofs ----------------------------
(***************************************************************************)
(* Proofs about APCs for any number of threads and APCs, any depth of      *)
(* calls and both values of satisfy_wait_apc_flags.                        *)
(***************************************************************************)
EXTENDS KiApc, ListLemmas

(* The shape of a thread's stack: the thread's own code or its end at the bottom, a call of *)
(* KiInsertQueueApc only on top, and the thread's end only when it takes no more APCs.      *)
StackOf(t) ==
    /\ stack[t][1].at \in {"guest", "empty", "dead"}
    /\ \A i \in 1..Len(stack[t]) - 1 : stack[t][i].at \notin {"insert", "mark"}
    /\ \A i \in 1..Len(stack[t]) :
          stack[t][i].at \in {"empty", "dead"} => ~ApcQueueable[t]

StackOK == \A t \in Threads : StackOf(t)

(* A thread about to link an APC: it is the APC of the thread it goes to, and a user APC is *)
(* a pool block that nobody else has and that is in no list.                              *)
InsertOf(t) ==
    /\ At(t, "insert") \/ At(t, "mark") => Top(t).thread \in Threads
    /\ At(t, "insert") =>
          /\ Top(t).apc \in Apcs
          /\ ApcThread[Top(t).apc] = Top(t).thread
          /\ Top(t).apc \in UserApcs => ~Inserted[Top(t).apc]

InsertOK ==
    /\ \A a \in KernelApcs : ApcThread[a] \in Threads
    /\ \A t \in Threads : InsertOf(t)
    /\ \A t, u \in Threads :
          /\ At(t, "insert") /\ At(u, "insert")
          /\ Top(t).apc = Top(u).apc
          /\ Top(t).apc \in UserApcs
          => t = u

IInv == TypeOK /\ StackOK /\ InsertOK /\ QueuesExact /\ KernelApcNotForgotten

-----------------------------------------------------------------------------
(* The stack of a thread *)

(* A frame of KiExecuteApc for mode m. *)
Runs(f, m) == f.at \in {"clear", "drain", "routine"} /\ f.mode = m

(* The stack of t changes, the frames up to keep stay, and the frame on top is top. *)
Restacked(t, keep, top) ==
    /\ stack' \in [Threads -> Seq(Frames) \ {<<>>}]
    /\ \A u \in Threads \ {t} : stack'[u] = stack[u]
    /\ keep \in 0..Len(stack'[t])
    /\ keep <= Len(stack[t])
    /\ \A i \in 1..keep : stack'[t][i] = stack[t][i]
    /\ stack'[t][Len(stack'[t])] = top

(* The frames the kernel functions push are frames. *)
LEMMA FrameTypes ==
    /\ Guest \in Frames
    /\ \A a \in Apcs, u \in Threads : InsertFrame(a, u) \in Frames
    /\ \A m \in Modes : ExecuteFrame(m) \in Frames
    /\ \A l \in Labels, w \in WaitArgs : WaitFrame(l, w) \in Frames
    /\ \A f \in Frames, l \in Labels : [f EXCEPT !.at = l] \in Frames
BY DEF Frames, Guest, InsertFrame, ExecuteFrame, WaitFrame, Labels, Modes, WaitArgs, PlainWait

(* A stack is not empty and its top is a frame. *)
LEMMA TopFrame ==
    ASSUME TypeOK, NEW t \in Threads
    PROVE  /\ stack[t] \in Seq(Frames)
           /\ Len(stack[t]) \in Nat /\ Len(stack[t]) >= 1
           /\ Top(t) = stack[t][Len(stack[t])]
           /\ Top(t) \in Frames
<1>1. stack[t] \in Seq(Frames) /\ stack[t] # <<>>
  BY DEF TypeOK
<1>2. Len(stack[t]) \in Nat /\ Len(stack[t]) >= 1
  BY <1>1, EmptySeq
<1> QED
  BY <1>1, <1>2 DEF Top, Last

(* Only the stack of t changes. *)
LEMMA NewStack ==
    ASSUME TypeOK, NEW t \in Threads, NEW s \in Seq(Frames), Len(s) >= 1,
           stack' = [stack EXCEPT ![t] = s]
    PROVE  /\ stack' \in [Threads -> Seq(Frames) \ {<<>>}]
           /\ stack'[t] = s
           /\ \A u \in Threads \ {t} : stack'[u] = stack[u]
<1>1. s # <<>>
  OBVIOUS
<1>2. stack \in [Threads -> Seq(Frames) \ {<<>>}]
  BY DEF TypeOK
<1> QED
  BY <1>1, <1>2

(* A call. *)
LEMMA Pushed ==
    ASSUME TypeOK, NEW t \in Threads, NEW f \in Frames, Push(t, f)
    PROVE  /\ Restacked(t, Len(stack[t]), f)
           /\ Len(stack'[t]) = Len(stack[t]) + 1
<1> DEFINE s == Append(stack[t], f)
<1>1. /\ s \in Seq(Frames)
      /\ Len(s) = Len(stack[t]) + 1
      /\ \A i \in 1..Len(stack[t]) : s[i] = stack[t][i]
      /\ s[Len(stack[t]) + 1] = f
  BY TopFrame, AppendProperties
<1>2. stack' = [stack EXCEPT ![t] = s]
  BY DEF Push
<1> HIDE DEF s
<1>3. Len(s) >= 1
  BY <1>1, <1>2, TopFrame
<1>4. /\ stack' \in [Threads -> Seq(Frames) \ {<<>>}]
      /\ stack'[t] = s
      /\ \A u \in Threads \ {t} : stack'[u] = stack[u]
  BY <1>1, <1>2, <1>3, NewStack
<1> QED
  BY <1>1, <1>2, <1>4, TopFrame DEF Restacked

(* The frames below the top. *)
LEMMA FrontFrames ==
    ASSUME TypeOK, NEW t \in Threads
    PROVE  /\ Front(stack[t]) \in Seq(Frames)
           /\ Len(Front(stack[t])) = Len(stack[t]) - 1
           /\ \A i \in 1..Len(stack[t]) - 1 : Front(stack[t])[i] = stack[t][i]
BY TopFrame, SubSeqProperties, \A i \in 1..Len(stack[t]) - 1 : stack[t][i] \in Frames DEF Front

(* A return to the frame below. *)
LEMMA Popped ==
    ASSUME TypeOK, NEW t \in Threads, Len(stack[t]) >= 2, Pop(t)
    PROVE  /\ Restacked(t, Len(stack[t]) - 1, stack[t][Len(stack[t]) - 1])
           /\ Len(stack'[t]) = Len(stack[t]) - 1
<1>1. stack' = [stack EXCEPT ![t] = Front(stack[t])]
  BY DEF Pop
<1>2. Len(Front(stack[t])) >= 1
  BY <1>1, FrontFrames, TopFrame
<1>3. /\ stack' \in [Threads -> Seq(Frames) \ {<<>>}]
      /\ stack'[t] = Front(stack[t])
      /\ \A u \in Threads \ {t} : stack'[u] = stack[u]
  BY <1>1, FrontFrames, <1>2, NewStack
<1> QED
  BY <1>1, FrontFrames, <1>3, TopFrame DEF Restacked

(* A frame goes on, or gives its place to another. *)
LEMMA Became ==
    ASSUME TypeOK, NEW t \in Threads, NEW f \in Frames, Become(t, f)
    PROVE  /\ Restacked(t, Len(stack[t]) - 1, f)
           /\ Len(stack'[t]) = Len(stack[t])
<1> DEFINE s == Front(stack[t])
<1>0. s \in Seq(Frames) /\ Len(s) = Len(stack[t]) - 1 /\ \A i \in 1..Len(stack[t]) - 1 : s[i] = stack[t][i]
  BY FrontFrames
<1>1. stack' = [stack EXCEPT ![t] = Append(s, f)]
  BY DEF Become
<1> HIDE DEF s
<1>2. /\ Append(s, f) \in Seq(Frames)
      /\ Len(Append(s, f)) = Len(stack[t])
      /\ \A i \in 1..Len(stack[t]) - 1 : Append(s, f)[i] = stack[t][i]
      /\ Append(s, f)[Len(stack[t])] = f
  BY <1>0, AppendProperties, TopFrame
<1>3. Len(Append(s, f)) >= 1
  BY <1>1, <1>2, TopFrame
<1>4. /\ stack' \in [Threads -> Seq(Frames) \ {<<>>}]
      /\ stack'[t] = Append(s, f)
      /\ \A u \in Threads \ {t} : stack'[u] = stack[u]
  BY <1>1, <1>2, <1>3, NewStack
<1> QED
  BY <1>1, <1>2, <1>4, TopFrame DEF Restacked

(* A frame goes on and calls KiExecuteApc. *)
LEMMA BecameCaller ==
    ASSUME TypeOK, NEW t \in Threads, NEW f \in Frames, NEW g \in Frames,
           stack' = [stack EXCEPT ![t] = Front(@) \o <<f, g>>]
    PROVE  /\ Restacked(t, Len(stack[t]) - 1, g)
           /\ Len(stack'[t]) = Len(stack[t]) + 1
           /\ stack'[t][Len(stack[t])] = f
<1> DEFINE s == Front(stack[t])
           r == Append(Append(s, f), g)
<1>1. /\ s \in Seq(Frames)
      /\ Len(s) = Len(stack[t]) - 1
      /\ \A i \in 1..Len(stack[t]) - 1 : s[i] = stack[t][i]
  BY FrontFrames
<1>0. s \o <<f, g>> = r
  BY <1>1, ConcatTwo
<1>2. stack' = [stack EXCEPT ![t] = r]
  BY <1>0
<1> HIDE DEF s
<1>3. /\ Append(s, f) \in Seq(Frames)
      /\ Len(Append(s, f)) = Len(stack[t])
      /\ \A i \in 1..Len(stack[t]) - 1 : Append(s, f)[i] = stack[t][i]
      /\ Append(s, f)[Len(stack[t])] = f
  BY <1>1, TopFrame, AppendProperties
<1>4. /\ r \in Seq(Frames)
      /\ Len(r) = Len(stack[t]) + 1
      /\ \A i \in 1..Len(stack[t]) - 1 : r[i] = stack[t][i]
      /\ r[Len(stack[t])] = f
      /\ r[Len(stack[t]) + 1] = g
  BY <1>3, TopFrame, AppendProperties
<1> HIDE DEF r
<1>6. Len(stack[t]) \in Nat /\ Len(stack[t]) >= 1 /\ Len(r) >= 1
  BY <1>4, TopFrame
<1>5. /\ stack' \in [Threads -> Seq(Frames) \ {<<>>}]
      /\ stack'[t] = r
      /\ \A u \in Threads \ {t} : stack'[u] = stack[u]
  BY <1>2, <1>4, <1>6, NewStack
<1>7. /\ Len(stack'[t]) = Len(stack[t]) + 1
      /\ \A i \in 1..Len(stack[t]) - 1 : stack'[t][i] = stack[t][i]
      /\ stack'[t][Len(stack[t])] = f
      /\ stack'[t][Len(stack'[t])] = g
  BY <1>4, <1>5
<1> QED
  BY <1>5, <1>6, <1>7 DEF Restacked

Bottom == {"guest", "empty", "dead"}

(* What a change of t's stack means for the invariant: every stack keeps its shape, nobody  *)
(* else's changes, and a KiExecuteApc below the top stays where it is while t lives.       *)
StackStep(t, top) ==
    /\ stack' \in [Threads -> Seq(Frames) \ {<<>>}]
    /\ StackOK'
    /\ \A u \in Threads \ {t} : Top(u)' = Top(u)
    /\ Top(t)' = top
    /\ \A u \in Threads \ {t}, m \in Modes : Executing(u, m) => Executing(u, m)'
    /\ \A m \in Modes :
          Alive(t)' /\ Executing(t, m) /\ ~Runs(Top(t), m) => Executing(t, m)'
    /\ \A m \in Modes : Runs(top, m) => Executing(t, m)'

(* It follows from what stays, from t's new stack being well formed and its new top. *)
LEMMA RestackedStep ==
    ASSUME TypeOK, StackOK, NEW t \in Threads, NEW keep, NEW top, Restacked(t, keep, top),
           keep >= Len(stack[t]) - 1,
           \A u \in Threads \ {t} : ApcQueueable'[u] = ApcQueueable[u],
           StackOf(t)'
    PROVE  StackStep(t, top)
<1>1. stack' \in [Threads -> Seq(Frames) \ {<<>>}] /\ \A u \in Threads \ {t} : stack'[u] = stack[u]
  BY DEF Restacked
<1>2. \A u \in Threads \ {t} : Top(u)' = Top(u) /\ StackOf(u)'
  BY <1>1 DEF Top, StackOf, StackOK
<1>3. \A u \in Threads \ {t}, m \in Modes : Executing(u, m) => Executing(u, m)'
  BY <1>1 DEF Executing
<1>4. /\ stack[t] \in Seq(Frames) /\ Len(stack[t]) \in Nat
      /\ stack'[t] \in Seq(Frames) /\ Len(stack'[t]) \in Nat /\ Len(stack'[t]) >= 1
  <2>1. stack'[t] \in Seq(Frames) /\ stack'[t] # <<>>
    BY <1>1
  <2>2. Len(stack'[t]) \in Nat /\ Len(stack'[t]) >= 1
    BY <2>1, EmptySeq
  <2> QED
    BY <2>1, <2>2, TopFrame
<1>5. Top(t)' = top
  BY DEF Restacked, Top, Last
<1>6. ASSUME NEW m \in Modes, Executing(t, m), ~Runs(Top(t), m) PROVE Executing(t, m)'
  <2>1. PICK i \in 1..Len(stack[t]) : Runs(stack[t][i], m)
    BY <1>4, <1>6 DEF Executing, Runs
  <2>2. i # Len(stack[t])
    BY <1>6, <2>1 DEF Top, Last
  <2>3. i \in 1..keep /\ i \in 1..Len(stack'[t])
    BY <1>4, <2>1, <2>2 DEF Restacked
  <2>4. stack'[t][i] = stack[t][i]
    BY <2>3 DEF Restacked
  <2> QED
    BY <1>4, <2>1, <2>3, <2>4 DEF Executing, Runs
<1>7. ASSUME NEW m \in Modes, Runs(top, m) PROVE Executing(t, m)'
  <2>1. Len(stack'[t]) \in DOMAIN stack'[t]
    BY <1>4
  <2> QED
    BY <1>7, <2>1 DEF Executing, Runs, Restacked
<1>8. StackOK'
  BY <1>2 DEF StackOK
<1> QED
  BY <1>1, <1>2, <1>3, <1>5, <1>6, <1>7, <1>8 DEF StackStep

(* A call from a frame that is not in KiInsertQueueApc. *)
LEMMA PushStep ==
    ASSUME TypeOK, StackOK, NEW t \in Threads, NEW f \in Frames, Push(t, f),
           ApcQueueable' = ApcQueueable, Top(t).at \notin {"insert", "mark"},
           f.at \notin {"empty", "dead"}
    PROVE  StackStep(t, f) /\ \A m \in Modes : Executing(t, m) => Executing(t, m)'
<1>1. Restacked(t, Len(stack[t]), f) /\ Len(stack'[t]) = Len(stack[t]) + 1
  BY Pushed
<1>2. Len(stack[t]) \in Nat /\ Len(stack[t]) >= 1 /\ Top(t) = stack[t][Len(stack[t])]
  BY TopFrame
<1>3. /\ \A i \in 1..Len(stack[t]) : stack'[t][i] = stack[t][i]
      /\ stack'[t][Len(stack[t]) + 1] = f
  BY <1>1, <1>2 DEF Restacked
<1>4. StackOf(t)'
  BY <1>1, <1>2, <1>3 DEF StackOK, StackOf
<1>5. StackStep(t, f)
  BY <1>1, <1>2, <1>4, RestackedStep
<1>6. ASSUME NEW m \in Modes, Executing(t, m) PROVE Executing(t, m)'
  <2>1. DOMAIN stack[t] = 1..Len(stack[t]) /\ DOMAIN stack'[t] = 1..Len(stack[t]) + 1
    BY <1>1, TopFrame DEF Restacked
  <2> QED
    BY <1>2, <1>3, <1>6, <2>1 DEF Executing
<1> QED
  BY <1>5, <1>6

(* A return from a kernel function, which is never the bottom of the stack. *)
LEMMA PopStep ==
    ASSUME TypeOK, StackOK, NEW t \in Threads, Pop(t),
           ApcQueueable' = ApcQueueable, Top(t).at \notin Bottom
    PROVE  /\ StackStep(t, stack[t][Len(stack[t]) - 1])
           /\ stack[t][Len(stack[t]) - 1].at \notin {"insert", "mark"}
<1>1. Len(stack[t]) \in Nat /\ Len(stack[t]) >= 1 /\ Top(t) = stack[t][Len(stack[t])]
  BY TopFrame
<1>2. Len(stack[t]) >= 2
  BY <1>1 DEF StackOK, StackOf, Bottom
<1>3. /\ Restacked(t, Len(stack[t]) - 1, stack[t][Len(stack[t]) - 1])
      /\ Len(stack'[t]) = Len(stack[t]) - 1
  BY <1>2, Popped
<1>4. \A i \in 1..Len(stack[t]) - 1 : stack'[t][i] = stack[t][i]
  BY <1>3 DEF Restacked
<1>5. stack[t][Len(stack[t]) - 1].at \notin {"insert", "mark"}
  BY <1>1, <1>2 DEF StackOK, StackOf
<1>6. StackOf(t)'
  <2>1. StackOf(t)
    BY DEF StackOK
  <2>2. stack'[t][1] = stack[t][1]
    BY <1>1, <1>2, <1>4
  <2>3. \A i \in 1..Len(stack'[t]) : /\ i \in 1..Len(stack[t]) - 1
                                     /\ i \in 1..Len(stack[t])
                                     /\ stack'[t][i] = stack[t][i]
    BY <1>1, <1>3, <1>4
  <2>4. \A i \in 1..Len(stack'[t]) - 1 : i \in 1..Len(stack'[t])
    BY <1>1, <1>3
  <2> QED
    BY <2>1, <2>2, <2>3, <2>4 DEF StackOf
<1> QED
  BY <1>1, <1>3, <1>5, <1>6, RestackedStep

(* A frame goes on. *)
LEMMA BecomeStep ==
    ASSUME TypeOK, StackOK, NEW t \in Threads, NEW f \in Frames, Become(t, f),
           ApcQueueable' = ApcQueueable, Top(t).at \notin Bottom \/ f.at \in Bottom,
           f.at \in {"empty", "dead"} => Top(t).at \in {"empty", "dead"}
    PROVE  StackStep(t, f)
<1>1. Len(stack[t]) \in Nat /\ Len(stack[t]) >= 1 /\ Top(t) = stack[t][Len(stack[t])]
  BY TopFrame
<1>2. Restacked(t, Len(stack[t]) - 1, f) /\ Len(stack'[t]) = Len(stack[t])
  BY Became
<1>3. /\ \A i \in 1..Len(stack[t]) - 1 : stack'[t][i] = stack[t][i]
      /\ stack'[t][Len(stack[t])] = f
  BY <1>2 DEF Restacked
<1>4. f.at \in Bottom \/ Len(stack[t]) >= 2
  BY <1>1 DEF StackOK, StackOf, Bottom
<1>5. f.at \in {"empty", "dead"} => ~ApcQueueable[t]
  BY <1>1 DEF StackOK, StackOf
<1>6. StackOf(t)'
  BY <1>1, <1>2, <1>3, <1>4, <1>5, SMTT(30) DEF StackOK, StackOf, Bottom
<1> QED
  BY <1>1, <1>2, <1>6, RestackedStep

(* A frame goes on and calls KiExecuteApc. *)
LEMMA CallStep ==
    ASSUME TypeOK, StackOK, NEW t \in Threads, NEW f \in Frames, NEW g \in Frames,
           stack' = [stack EXCEPT ![t] = Front(@) \o <<f, g>>],
           ApcQueueable' = ApcQueueable, Top(t).at \notin Bottom,
           f.at \notin {"insert", "mark", "empty", "dead"}, g.at \notin {"empty", "dead"}
    PROVE  StackStep(t, g)
<1>1. Len(stack[t]) \in Nat /\ Len(stack[t]) >= 1 /\ Top(t) = stack[t][Len(stack[t])]
  BY TopFrame
<1>2. /\ Restacked(t, Len(stack[t]) - 1, g)
      /\ Len(stack'[t]) = Len(stack[t]) + 1
      /\ stack'[t][Len(stack[t])] = f
  BY BecameCaller
<1>3. /\ \A i \in 1..Len(stack[t]) - 1 : stack'[t][i] = stack[t][i]
      /\ stack'[t][Len(stack[t]) + 1] = g
  BY <1>1, <1>2 DEF Restacked
<1>4. Len(stack[t]) >= 2
  BY <1>1 DEF StackOK, StackOf, Bottom
<1>6. StackOf(t)'
  <2>1. StackOf(t)
    BY DEF StackOK
  <2>2. stack'[t][1] = stack[t][1]
    BY <1>1, <1>3, <1>4
  <2>3. \A i \in 1..Len(stack'[t]) :
           \/ /\ i \in 1..Len(stack[t]) - 1
              /\ i \in 1..Len(stack[t])
              /\ stack'[t][i] = stack[t][i]
           \/ stack'[t][i] = f
           \/ stack'[t][i] = g /\ i \notin 1..Len(stack'[t]) - 1
    BY <1>1, <1>2, <1>3, SMTT(30)
  <2>4. \A i \in 1..Len(stack'[t]) - 1 : i \in 1..Len(stack'[t])
    BY <1>1, <1>2
  <2> QED
    BY <2>1, <2>2, <2>3, <2>4 DEF StackOf
<1> QED
  BY <1>1, <1>2, <1>6, RestackedStep

-----------------------------------------------------------------------------
(* The invariant *)

(* The frame on top is one of the stack. *)
LEMMA RunsExecutes ==
    ASSUME TypeOK, NEW t \in Threads, NEW m \in Modes, Runs(Top(t), m)
    PROVE  Executing(t, m)
<1>1. Len(stack[t]) \in DOMAIN stack[t] /\ Top(t) = stack[t][Len(stack[t])]
  BY TopFrame
<1> QED
  BY <1>1 DEF Executing, Runs

(* A step that changes no stack is a step of any thread. *)
LEMMA SameStack ==
    ASSUME TypeOK, StackOK, UNCHANGED stack, ApcQueueable' = ApcQueueable, NEW t \in Threads
    PROVE  StackStep(t, Top(t))
<1>1. \A u \in Threads : StackOf(u)' /\ Top(u)' = Top(u)
  BY DEF StackOK, StackOf, Top
<1>2. \A u \in Threads, m \in Modes : Executing(u, m)' <=> Executing(u, m)
  BY DEF Executing
<1>3. \A m \in Modes : Runs(Top(t), m) => Executing(t, m)
  BY RunsExecutes
<1> QED
  BY <1>1, <1>2, <1>3 DEF StackStep, StackOK, TypeOK

(* A reason for which kernel APCs queued to t are not forgotten. *)
Covered(t) ==
    \/ Pending[t]["Kernel"]
    \/ AboutToMark(t, "Kernel")
    \/ Executing(t, "Kernel")
    \/ KernelApcDisable[t] # 0

(* A step of t takes no reason away without giving another. *)
Covers(t, top) ==
    /\ \A u \in Threads \ {t} : /\ Pending[u]["Kernel"] => Pending'[u]["Kernel"]
                                /\ KernelApcDisable'[u] = KernelApcDisable[u]
    /\ Pending[t]["Kernel"] => Pending'[t]["Kernel"] \/ Runs(top, "Kernel")
    /\ At(t, "mark") /\ ModeOf(Top(t).apc) = "Kernel" =>
          Pending'[Top(t).thread]["Kernel"] \/ top = Top(t)
    /\ KernelApcDisable[t] # 0 \/ (Runs(Top(t), "Kernel") /\ ~Executing(t, "Kernel")') =>
          \/ KernelApcDisable'[t] # 0
          \/ Pending'[t]["Kernel"]
          \/ Runs(top, "Kernel")
          \/ ApcList'[t]["Kernel"] = <<>>

(* Such a step, when it links no APC, forgets none. *)
LEMMA CoversStep ==
    ASSUME IInv, NEW t \in Threads, NEW top, StackStep(t, top), Covers(t, top),
           \A u \in Threads : /\ Alive(u)' => Alive(u)
                              /\ ApcList[u]["Kernel"] = <<>> => ApcList'[u]["Kernel"] = <<>>
    PROVE  KernelApcNotForgotten'
<1> SUFFICES ASSUME NEW u \in Threads, Alive(u)', ApcList'[u]["Kernel"] # <<>>
             PROVE  Covered(u)'
  BY DEF KernelApcNotForgotten, Covered
<1>0. "Kernel" \in Modes
  BY DEF Modes
<1>1. Covered(u)
  BY DEF IInv, KernelApcNotForgotten, Covered
<1>2. ASSUME AboutToMark(u, "Kernel") PROVE Covered(u)'
  <2>1. PICK v \in Threads : At(v, "mark") /\ Top(v).thread = u /\ ModeOf(Top(v).apc) = "Kernel"
    BY <1>2 DEF AboutToMark
  <2>2. CASE Top(v)' = Top(v)
    BY <2>1, <2>2 DEF Covered, AboutToMark, At, ModeOf
  <2>3. CASE v = t /\ Pending'[u]["Kernel"]
    BY <2>3 DEF Covered
  <2> QED
    BY <2>1, <2>2, <2>3 DEF StackStep, Covers
<1>3. CASE u # t
  BY <1>0, <1>1, <1>2, <1>3 DEF Covered, Covers, StackStep
<1>4. CASE u = t
  BY <1>0, <1>1, <1>2, <1>4 DEF Covered, Covers, StackStep
<1> QED
  BY <1>3, <1>4

(* A step of t that links nothing and takes nothing out keeps the invariant. *)
LEMMA QuietStep ==
    ASSUME IInv, NEW t \in Threads, UNCHANGED lists, ApcQueueable' = ApcQueueable, TypeOK',
           NEW top, StackStep(t, top), Covers(t, top), top.at \in {"insert", "mark"} => top = Top(t)
    PROVE  IInv'
<1> USE DEF lists
<1>1. QueuesExact'
  BY DEF IInv, QueuesExact, Alive
<1>2. \A u \in Threads : At(u, "insert")' \/ At(u, "mark")' => Top(u)' = Top(u)
  BY DEF StackStep, At
<1>3. InsertOK'
  BY <1>2 DEF IInv, InsertOK, InsertOf, At
<1>4. KernelApcNotForgotten'
  BY CoversStep DEF Alive
<1> QED
  BY <1>1, <1>3, <1>4 DEF IInv, StackStep

(* The frame a thread is in, and the same frame gone on to l. *)
LEMMA TopFacts ==
    ASSUME TypeOK, NEW t \in Threads
    PROVE  /\ Top(t) \in Frames
           /\ Top(t).mode \in Modes /\ Top(t).apc \in Apcs \cup {NoApc}
           /\ \A l \in Labels :
                 LET f == [Top(t) EXCEPT !.at = l]
                 IN /\ f \in Frames
                    /\ f.at = l /\ f.mode = Top(t).mode /\ f.apc = Top(t).apc
                    /\ f.thread = Top(t).thread /\ f.wait = Top(t).wait
<1>1. Top(t) \in Frames
  BY TopFrame
<1> QED
  BY <1>1 DEF Frames

(* A kernel function that goes on to its next step. *)
LEMMA GotoStep ==
    ASSUME TypeOK, StackOK, NEW t \in Threads, NEW l \in Labels, Goto(t, l),
           ApcQueueable' = ApcQueueable, Top(t).at \notin Bottom \/ l \in Bottom,
           l \in {"empty", "dead"} => Top(t).at \in {"empty", "dead"}
    PROVE  StackStep(t, [Top(t) EXCEPT !.at = l])
<1> DEFINE f == [Top(t) EXCEPT !.at = l]
<1>1. f \in Frames /\ f.at = l
  BY TopFacts
<1>2. Become(t, f)
  BY DEF Goto
<1> HIDE DEF f
<1>3. StackStep(t, f)
  BY <1>1, <1>2, BecomeStep
<1> QED
  BY <1>3 DEF f

(* The frames the actions push. *)
LEMMA NewFrames ==
    /\ \A m \in Modes : /\ ExecuteFrame(m) \in Frames
                        /\ ExecuteFrame(m).at = "clear"
                        /\ Runs(ExecuteFrame(m), m)
    /\ \A a \in Apcs, u \in Threads : /\ InsertFrame(a, u) \in Frames
                                      /\ InsertFrame(a, u).at = "insert"
                                      /\ InsertFrame(a, u).apc = a
                                      /\ InsertFrame(a, u).thread = u
    /\ \A l \in Labels, w \in WaitArgs : WaitFrame(l, w) \in Frames /\ WaitFrame(l, w).at = l
<1>1. \A m \in Modes : /\ ExecuteFrame(m) \in Frames
                       /\ ExecuteFrame(m).at = "clear"
                       /\ Runs(ExecuteFrame(m), m)
  BY FrameTypes DEF ExecuteFrame, Guest, Runs
<1>2. \A a \in Apcs, u \in Threads : /\ InsertFrame(a, u) \in Frames
                                     /\ InsertFrame(a, u).at = "insert"
                                     /\ InsertFrame(a, u).apc = a
                                     /\ InsertFrame(a, u).thread = u
  BY FrameTypes DEF InsertFrame, Guest
<1>3. \A l \in Labels, w \in WaitArgs : WaitFrame(l, w) \in Frames /\ WaitFrame(l, w).at = l
  BY FrameTypes DEF WaitFrame, Guest
<1> QED
  BY <1>1, <1>2, <1>3

(* A pending flag set or cleared. *)
LEMMA PendingTyped ==
    ASSUME TypeOK, NEW u, NEW m, NEW b \in BOOLEAN,
           Pending' = Pending \/ Pending' = [Pending EXCEPT ![u][m] = b]
    PROVE  Pending' \in [Threads -> [Modes -> BOOLEAN]]
<1>1. Pending \in [Threads -> [Modes -> BOOLEAN]]
  BY DEF TypeOK
<1>2. u \in Threads => [Pending[u] EXCEPT ![m] = b] \in [Modes -> BOOLEAN]
  BY <1>1
<1> QED
  BY <1>1, <1>2

(* KiExecuteApc clears the flag before it looks at the list. *)
LEMMA ClearPendingStep ==
    ASSUME IInv, NEW t \in Threads, ClearPending(t)
    PROVE  IInv'
<1> DEFINE f == [Top(t) EXCEPT !.at = "drain"]
<1>1. f.at = "drain" /\ f.mode = Top(t).mode /\ Top(t).mode \in Modes
  BY TopFacts DEF Labels, IInv
<1>2. StackStep(t, f)
  BY GotoStep DEF IInv, ClearPending, threads, At, Bottom, Labels
<1> HIDE DEF f
<1>3. TypeOK'
  BY <1>1, <1>2 DEF IInv, TypeOK, ClearPending, lists, threads, StackStep
<1>4. Covers(t, f)
  BY <1>1 DEF IInv, TypeOK, Covers, ClearPending, threads, At, Runs, Modes
<1> QED
  BY <1>1, <1>2, <1>3, <1>4, QuietStep DEF ClearPending, threads

(* MarkPending: the flag, and KiExecuteApc when the APC is for the thread itself. *)
LEMMA MarkPendingStep ==
    ASSUME IInv, NEW t \in Threads, MarkPending(t)
    PROVE  IInv'
<1> DEFINE f == Top(t)
           m == ModeOf(f.apc)
<1>1. m \in Modes
  BY DEF ModeOf, Modes
<1>2. PICK top : StackStep(t, top) /\ top.at \notin {"insert", "mark"}
  <2>1. CASE Pop(t)
    BY <2>1, PopStep DEF IInv, MarkPending, threads, Bottom
  <2>2. CASE Become(t, ExecuteFrame(m))
    BY <1>1, <2>2, NewFrames, BecomeStep DEF IInv, MarkPending, threads, Bottom
  <2> QED
    BY <2>1, <2>2 DEF MarkPending
<1>3. TypeOK'
  <2>1. Pending' = Pending \/ Pending' = [Pending EXCEPT ![f.thread][m] = TRUE]
    BY DEF MarkPending
  <2>2. Pending' \in [Threads -> [Modes -> BOOLEAN]]
    BY <2>1, PendingTyped DEF IInv
  <2> QED
    BY <1>2, <2>2 DEF IInv, TypeOK, MarkPending, lists, threads, StackStep
<1>4. Covers(t, top)
  <2>1. f.thread \in Threads
    BY DEF MarkPending, IInv, InsertOK, InsertOf, At
  <2>2. /\ \A u \in Threads : Pending[u]["Kernel"] => Pending'[u]["Kernel"]
        /\ m = "Kernel" => Pending'[f.thread]["Kernel"]
    <3>1. CASE Pending' = Pending /\ m # "Kernel"
      BY <3>1
    <3>2. CASE Pending' = [Pending EXCEPT ![f.thread][m] = TRUE]
      <4>1. Pending \in [Threads -> [Modes -> BOOLEAN]] /\ "Kernel" \in Modes
        BY DEF IInv, TypeOK, Modes
      <4> QED
        BY <1>1, <2>1, <3>2, <4>1
    <3> QED
      BY <3>1, <3>2 DEF MarkPending, SetsPending
  <2> QED
    BY <2>2 DEF Covers, MarkPending, threads, Runs
<1> QED
  BY <1>2, <1>3, <1>4, QuietStep DEF MarkPending, threads

(* The NormalRoutine of an APC returns. *)
LEMMA RoutineReturnsStep ==
    ASSUME IInv, NEW t \in Threads, RoutineReturns(t)
    PROVE  IInv'
<1> DEFINE f == [Top(t) EXCEPT !.at = "drain"]
<1>0. Pending' \in [Threads -> [Modes -> BOOLEAN]]
  <2>1. Pending' = Pending \/ Pending' = [Pending EXCEPT ![t][Top(t).mode] = TRUE]
    BY DEF RoutineReturns, LeftPending
  <2> QED
    BY <2>1, PendingTyped DEF IInv
<1>1. f.at = "drain" /\ f.mode = Top(t).mode /\ Top(t).mode \in Modes
  BY TopFacts DEF Labels, IInv
<1>2. CASE Goto(t, "drain") /\ UNCHANGED Pending
  <2>1. StackStep(t, f)
    BY <1>2, GotoStep DEF IInv, RoutineReturns, threads, At, Bottom, Labels
  <2> HIDE DEF f
  <2>2. TypeOK'
    BY <1>0, <2>1 DEF IInv, TypeOK, RoutineReturns, lists, threads, StackStep
  <2>3. Covers(t, f)
    BY <1>1, <1>2 DEF IInv, TypeOK, Covers, RoutineReturns, threads, At, Runs, Modes
  <2> QED
    BY <1>1, <2>1, <2>2, <2>3, QuietStep DEF RoutineReturns, threads
<1>3. CASE Pop(t) /\ Pending' = LeftPending(t)
  <2>1. PICK top : StackStep(t, top) /\ top.at \notin {"insert", "mark"}
    BY <1>3, PopStep DEF IInv, RoutineReturns, threads, At, Bottom
  <2>2. TypeOK'
    BY <1>0, <2>1 DEF IInv, TypeOK, RoutineReturns, lists, threads, StackStep
  <2>3. Covers(t, top)
    BY <1>1, <1>3 DEF IInv, TypeOK, Covers, RoutineReturns, LeftPending, threads, At, Runs, Modes
  <2> QED
    BY <2>1, <2>2, <2>3, QuietStep DEF RoutineReturns, threads
<1> QED
  BY <1>2, <1>3 DEF RoutineReturns

(* The steps that change no list and no flag, and go to frame top. *)
LEMMA SilentStep ==
    ASSUME IInv, NEW t \in Threads, NEW top, StackStep(t, top), UNCHANGED <<lists, Pending, flags>>,
           KernelApcDisable' = KernelApcDisable, ApcQueueable' = ApcQueueable,
           Alertable' \in [Threads -> BOOLEAN],
           State' \in [Threads -> {"Running", "Waiting", "Ready"}],
           top.at \in {"insert", "mark"} => top = Top(t),
           At(t, "mark") => top = Top(t),
           Runs(Top(t), "Kernel") => \/ Runs(top, "Kernel")
                                    \/ KernelApcDisable[t] # 0
                                    \/ ApcList[t]["Kernel"] = <<>>
    PROVE  IInv'
<1>1. TypeOK'
  BY DEF IInv, TypeOK, lists, StackStep
<1>2. Covers(t, top)
  BY DEF Covers, lists
<1> QED
  BY <1>1, <1>2, QuietStep

(* The end of a call that locks the dispatcher database runs the kernel APCs pending. *)
LEMMA UnlockStep ==
    ASSUME IInv, NEW t \in Threads, KiUnlockDispatcherDatabase(t)
    PROVE  IInv'
<1> DEFINE f == ExecuteFrame("Kernel")
<1>1. f \in Frames /\ f.at = "clear" /\ Runs(f, "Kernel")
  BY NewFrames DEF Modes
<1> HIDE DEF f
<1>2. Push(t, f)
  BY DEF KiUnlockDispatcherDatabase, f
<1>3. StackStep(t, f)
  BY <1>1, <1>2, PushStep DEF IInv, KiUnlockDispatcherDatabase, threads, Calls, InGuest
<1> QED
  BY <1>1, <1>3, SilentStep
     DEF IInv, TypeOK, KiUnlockDispatcherDatabase, threads, Calls, InGuest, At

(* Waiting changes the thread's state and stack only. *)
LEMMA WaitingStep ==
    ASSUME IInv, NEW t \in Threads, BecomeWaiting(t) \/ \E w \in WaitArgs : HostWait(t, w)
    PROVE  IInv'
<1>1. CASE BecomeWaiting(t)
  <2> DEFINE f == [Top(t) EXCEPT !.at = "poll"]
  <2>1. f.at = "poll"
    BY TopFacts DEF Labels, IInv
  <2>2. StackStep(t, f)
    BY <1>1, GotoStep DEF IInv, BecomeWaiting, At, Bottom, Labels
  <2> HIDE DEF f
  <2>3. /\ Alertable' \in [Threads -> BOOLEAN]
        /\ State' \in [Threads -> {"Running", "Waiting", "Ready"}]
    BY <1>1 DEF IInv, TypeOK, BecomeWaiting
  <2> QED
    BY <1>1, <2>1, <2>2, <2>3, SilentStep DEF BecomeWaiting, At, Runs
<1>2. ASSUME NEW w \in WaitArgs, HostWait(t, w) PROVE IInv'
  <2> DEFINE f == WaitFrame("poll", w)
  <2>1. f \in Frames /\ f.at = "poll"
    BY NewFrames DEF Labels
  <2> HIDE DEF f
  <2>2. StackStep(t, f)
    BY <1>2, <2>1, PushStep DEF IInv, HostWait, At, f
  <2>3. /\ Alertable' \in [Threads -> BOOLEAN]
        /\ State' \in [Threads -> {"Running", "Waiting", "Ready"}]
    BY <1>2 DEF IInv, TypeOK, HostWait
  <2> QED
    BY <1>2, <2>1, <2>2, <2>3, SilentStep DEF HostWait, At, Runs
<1> QED
  BY <1>1, <1>2

(* KiUnwaitThread changes only State. *)
LEMMA UnwaitStep ==
    ASSUME IInv, NEW t \in Threads, KiUnwaitThread(t)
    PROVE  IInv'
<1>1. StackStep(t, Top(t))
  BY SameStack DEF IInv, KiUnwaitThread
<1>2. State' \in [Threads -> {"Running", "Waiting", "Ready"}] /\ Alertable' \in [Threads -> BOOLEAN]
  BY DEF IInv, TypeOK, KiUnwaitThread
<1> QED
  BY <1>1, <1>2, SilentStep DEF KiUnwaitThread

(* A wait ends. *)
LEMMA EndWaitStep ==
    ASSUME IInv, NEW t \in Threads, EndWait(t), Top(t).at \in {"poll", "unwait"}
    PROVE  IInv'
<1>1. PICK top : StackStep(t, top) /\ top.at \notin {"insert", "mark"}
  BY PopStep DEF IInv, EndWait, Bottom
<1>2. State' \in [Threads -> {"Running", "Waiting", "Ready"}] /\ Alertable' \in [Threads -> BOOLEAN]
  BY DEF IInv, TypeOK, EndWait
<1> QED
  BY <1>1, <1>2, SilentStep DEF EndWait, At, Runs

(* SatisfyWait looks for kernel APCs. *)
LEMMA SatisfyWaitStep ==
    ASSUME IInv, NEW t \in Threads, SatisfyWait(t)
    PROVE  IInv'
<1>1. CASE EndWait(t)
  BY <1>1, EndWaitStep DEF SatisfyWait, At
<1>2. CASE ~EndWait(t)
  <2> DEFINE f == [Top(t) EXCEPT !.at = "pollUser"]
             g == ExecuteFrame("Kernel")
  <2>1. f \in Frames /\ f.at = "pollUser" /\ g \in Frames /\ g.at = "clear"
    BY TopFacts, NewFrames, ZenonT(60) DEF Labels, IInv, Modes
  <2> HIDE DEF f, g
  <2>2. /\ Top(t).at = "poll"
        /\ UNCHANGED <<lists, Pending, threads, flags>>
        /\ \/ stack' = [stack EXCEPT ![t] = Front(@) \o <<f, g>>]
           \/ stack' = [stack EXCEPT ![t] = Front(@) \o <<f>>]
    BY <1>2 DEF SatisfyWait, At, f, g
  <2>3. CASE stack' = [stack EXCEPT ![t] = Front(@) \o <<f, g>>]
    <3>1. StackStep(t, g)
      BY <2>1, <2>2, <2>3, CallStep DEF IInv, threads, Bottom
    <3> QED
      BY <2>1, <2>2, <3>1, SilentStep DEF IInv, TypeOK, threads, At, Runs
  <2>4. CASE stack' = [stack EXCEPT ![t] = Front(@) \o <<f>>]
    <3>1. Front(stack[t]) \o <<f>> = Append(Front(stack[t]), f)
      BY <2>1, FrontFrames, AppendIsConcat DEF IInv
    <3>2. Become(t, f)
      BY <2>4, <3>1 DEF Become
    <3>3. StackStep(t, f)
      BY <2>1, <2>2, <3>2, BecomeStep DEF IInv, threads, Bottom
    <3> QED
      BY <2>1, <2>2, <3>3, SilentStep DEF IInv, TypeOK, threads, At, Runs
  <2> QED
    BY <2>2, <2>3, <2>4
<1> QED
  BY <1>1, <1>2

(* SatisfyWait looks for user APCs. *)
LEMMA SatisfyWaitUserStep ==
    ASSUME IInv, NEW t \in Threads, SatisfyWaitUser(t)
    PROVE  IInv'
<1> DEFINE f == [Top(t) EXCEPT !.at = "unwait"]
           g == ExecuteFrame("User")
           p == [Top(t) EXCEPT !.at = "poll"]
<1>1. f \in Frames /\ f.at = "unwait" /\ g \in Frames /\ g.at = "clear" /\ p.at = "poll"
  BY TopFacts, NewFrames, ZenonT(60) DEF Labels, IInv, Modes
<1>2. CASE Goto(t, "poll")
  <2>1. StackStep(t, p)
    BY <1>2, GotoStep DEF IInv, SatisfyWaitUser, threads, At, Bottom, Labels
  <2> HIDE DEF p
  <2> QED
    BY <1>1, <2>1, SilentStep DEF IInv, TypeOK, SatisfyWaitUser, threads, At, Runs
<1>3. CASE stack' = [stack EXCEPT ![t] = Front(@) \o <<f, g>>]
  <2> HIDE DEF f, g
  <2>1. StackStep(t, g)
    BY <1>1, <1>3, CallStep DEF IInv, SatisfyWaitUser, threads, At, Bottom
  <2> QED
    BY <1>1, <2>1, SilentStep DEF IInv, TypeOK, SatisfyWaitUser, threads, At, Runs
<1> QED
  BY <1>2, <1>3 DEF SatisfyWaitUser

(* The critical regions change KernelApcDisable, and leaving one runs what was held back. *)
LEMMA EnterStep ==
    ASSUME IInv, NEW t \in Threads, KeEnterCriticalRegion(t)
    PROVE  IInv'
<1>1. StackStep(t, Top(t))
  BY SameStack DEF IInv, KeEnterCriticalRegion
<1>2. /\ KernelApcDisable' \in [Threads -> {-1, 0}]
      /\ KernelApcDisable'[t] = -1
      /\ \A u \in Threads \ {t} : KernelApcDisable'[u] = KernelApcDisable[u]
  BY DEF IInv, TypeOK, KeEnterCriticalRegion
<1>3. TypeOK'
  BY <1>1, <1>2 DEF IInv, TypeOK, KeEnterCriticalRegion, lists, StackStep
<1>4. Covers(t, Top(t))
  BY <1>2 DEF KeEnterCriticalRegion, Covers
<1> QED
  BY <1>1, <1>3, <1>4, QuietStep DEF KeEnterCriticalRegion, lists

(* Leaving the region. *)
LEMMA LeaveStep ==
    ASSUME IInv, NEW t \in Threads, KeLeaveCriticalRegion(t)
    PROVE  IInv'
<1> DEFINE f == ExecuteFrame("Kernel")
<1>1. f \in Frames /\ f.at = "clear" /\ Runs(f, "Kernel")
  BY NewFrames DEF Modes
<1> HIDE DEF f
<1>2. KernelApcDisable[t] = -1
  BY DEF IInv, TypeOK, KeLeaveCriticalRegion
<1>3. /\ KernelApcDisable' \in [Threads -> {-1, 0}]
      /\ \A u \in Threads \ {t} : KernelApcDisable'[u] = KernelApcDisable[u]
  BY <1>2 DEF IInv, TypeOK, KeLeaveCriticalRegion
<1>4. /\ Top(t).at = "guest" /\ UNCHANGED lists
      /\ ApcQueueable' = ApcQueueable
  BY DEF KeLeaveCriticalRegion, At
<1>5. CASE RunsDelayed(t)
  <2>1. Push(t, f) /\ Pending' = [Pending EXCEPT ![t]["Kernel"] = TRUE]
    BY <1>5 DEF KeLeaveCriticalRegion, f
  <2>2. StackStep(t, f)
    BY <1>1, <1>4, <2>1, PushStep DEF IInv
  <2>3. /\ Pending' \in [Threads -> [Modes -> BOOLEAN]]
        /\ \A u \in Threads \ {t} : Pending'[u] = Pending[u]
    BY <2>1 DEF IInv, TypeOK
  <2>4. TypeOK'
    BY <1>3, <2>2, <2>3 DEF IInv, TypeOK, KeLeaveCriticalRegion, lists, StackStep
  <2>5. Covers(t, f)
    BY <1>1, <1>3, <1>4, <2>3 DEF Covers, At
  <2> QED
    BY <1>1, <1>4, <2>2, <2>4, <2>5, QuietStep
<1>6. CASE ~RunsDelayed(t)
  <2>1. UNCHANGED <<Pending, stack>>
    BY <1>6 DEF KeLeaveCriticalRegion
  <2>2. StackStep(t, Top(t))
    BY <1>4, <2>1, SameStack DEF IInv
  <2>3. TypeOK'
    BY <1>3, <2>1, <2>2 DEF IInv, TypeOK, KeLeaveCriticalRegion, lists, StackStep
  <2>4. ApcList'[t]["Kernel"] = <<>>
    BY <1>2, <1>4, <1>6 DEF RunsDelayed, lists
  <2>5. Covers(t, Top(t))
    BY <1>3, <2>1, <2>4 DEF Covers
  <2> QED
    BY <1>4, <2>2, <2>3, <2>5, QuietStep
<1> QED
  BY <1>5, <1>6

(* KeWaitForSingleObject up to Waiting. *)
LEMMA KeWaitStep ==
    ASSUME IInv, NEW t \in Threads, NEW w \in WaitArgs, KeWaitForSingleObject(t, w)
    PROVE  IInv'
<1>1. CASE Push(t, WaitFrame("block", w)) /\ UNCHANGED Pending
  <2> DEFINE f == WaitFrame("block", w)
  <2>1. f \in Frames /\ f.at = "block"
    BY NewFrames DEF Labels
  <2> HIDE DEF f
  <2>2. StackStep(t, f)
    BY <1>1, <2>1, PushStep DEF IInv, KeWaitForSingleObject, threads, At, f
  <2> QED
    BY <1>1, <2>1, <2>2, SilentStep DEF IInv, TypeOK, KeWaitForSingleObject, threads, At, Runs
<1>2. CASE UNCHANGED stack /\ Pending' = [Pending EXCEPT ![t]["User"] = TRUE]
  <2>1. StackStep(t, Top(t))
    BY <1>2, SameStack DEF IInv, KeWaitForSingleObject, threads
  <2>2. Pending' \in [Threads -> [Modes -> BOOLEAN]]
    BY <1>2, PendingTyped DEF IInv
  <2>3. \A u \in Threads : Pending'[u]["Kernel"] = Pending[u]["Kernel"]
    BY <1>2 DEF IInv, TypeOK, Modes
  <2>4. TypeOK'
    BY <2>1, <2>2 DEF IInv, TypeOK, KeWaitForSingleObject, lists, threads, StackStep
  <2>5. Covers(t, Top(t))
    BY <2>3 DEF Covers, KeWaitForSingleObject, threads
  <2> QED
    BY <2>1, <2>4, <2>5, QuietStep DEF KeWaitForSingleObject, threads
<1> QED
  BY <1>1, <1>2 DEF KeWaitForSingleObject

-----------------------------------------------------------------------------
(* Queueing and taking out *)

(* KeInsertQueueApc brings a thread to the insertion with the thread of its APC. *)
LEMMA KeInsertStep ==
    ASSUME IInv, NEW t \in Threads, NEW a \in KernelApcs, KeInsertQueueApc(t, a)
    PROVE  IInv'
<1> DEFINE f == InsertFrame(a, ApcThread[a])
<1>1. a \in Apcs /\ a \notin UserApcs /\ ApcThread[a] \in Threads
  BY ApcAssumption DEF Apcs, IInv, InsertOK
<1>2. f \in Frames /\ f.at = "insert" /\ f.apc = a /\ f.thread = ApcThread[a]
  BY <1>1, NewFrames
<1> HIDE DEF f
<1>3. Push(t, f) /\ UNCHANGED <<lists, Pending, threads, flags>> /\ Top(t).at \in {"guest", "routine"}
  BY DEF KeInsertQueueApc, f, Calls, InGuest
<1>4. StackStep(t, f)
  BY <1>2, <1>3, PushStep DEF IInv, threads
<1>5. TypeOK'
  BY <1>3, <1>4 DEF IInv, TypeOK, lists, threads, StackStep
<1>6. QueuesExact'
  BY <1>3 DEF IInv, QueuesExact, Alive, lists, threads
<1>7. InsertOK'
  <2>1. \A u \in Threads \ {t} : Top(u)' = Top(u)
    BY <1>4 DEF StackStep
  <2>2. Top(t)' = f
    BY <1>4 DEF StackStep
  <2> QED
    BY <1>1, <1>2, <1>3, <2>1, <2>2 DEF IInv, InsertOK, InsertOf, At, lists
<1>8. KernelApcNotForgotten'
  <2>1. Covers(t, f)
    <3>1. Runs(Top(t), "Kernel") => Executing(t, "Kernel")'
      BY <1>2, <1>3, PushStep, RunsExecutes DEF IInv, threads, Modes
    <3> QED
      BY <1>3, <3>1 DEF Covers, threads, At
  <2> QED
    BY <1>3, <1>4, <2>1, CoversStep DEF Alive, lists, threads
<1> QED
  BY <1>4, <1>5, <1>6, <1>7, <1>8 DEF IInv, StackStep

(* Nobody is about to link an APC of mode User that is in a list, and a block that is free  *)
(* is in no list and nobody is about to link it.                                          *)
LEMMA InsertFacts ==
    ASSUME IInv, NEW u \in Threads, At(u, "insert")
    PROVE  /\ Top(u).apc \in Apcs /\ Top(u).thread \in Threads
           /\ ApcThread[Top(u).apc] = Top(u).thread
           /\ ApcThread[Top(u).apc] # NoThread
           /\ \A v \in Threads, m \in Modes :
                 Top(u).apc \in ToSet(ApcList[v][m]) => Top(u).apc \notin UserApcs
<1>1. Top(u).apc \in Apcs /\ Top(u).thread \in Threads /\ ApcThread[Top(u).apc] = Top(u).thread
  BY DEF IInv, InsertOK, InsertOf
<1>2. \A v \in Threads, m \in Modes :
         Top(u).apc \in ToSet(ApcList[v][m]) => Inserted[Top(u).apc]
  BY DEF IInv, QueuesExact
<1> QED
  BY <1>1, <1>2, ApcAssumption DEF IInv, InsertOK, InsertOf

(* NtQueueApcThread takes a free block for the target. *)
LEMMA NtQueueStep ==
    ASSUME IInv, NEW t \in Threads, NEW a \in UserApcs, NEW target \in Targets,
           NtQueueApcThread(t, a, target)
    PROVE  IInv'
<1> DEFINE f == InsertFrame(a, target)
<1>1. a \in Apcs /\ a \notin KernelApcs /\ target \in Threads /\ ApcThread[a] = NoThread
  BY ApcAssumption DEF Apcs, NtQueueApcThread
<1>2. f \in Frames /\ f.at = "insert" /\ f.apc = a /\ f.thread = target
  BY <1>1, NewFrames
<1> HIDE DEF f
<1>3. /\ Push(t, f) /\ UNCHANGED <<ApcList, Pending, threads, flags>>
      /\ Top(t).at \in {"guest", "routine"}
      /\ ApcThread' = [ApcThread EXCEPT ![a] = target]
      /\ Inserted' = [Inserted EXCEPT ![a] = FALSE]
  BY DEF NtQueueApcThread, f, Calls, InGuest
<1>4. StackStep(t, f) /\ (Runs(Top(t), "Kernel") => Executing(t, "Kernel")')
  BY <1>2, <1>3, PushStep, RunsExecutes DEF IInv, threads, Modes
<1>5. TypeOK'
  BY <1>1, <1>3, <1>4 DEF IInv, TypeOK, threads, StackStep
<1>6. QueuesExact'
  <2>1. \A v \in Threads, m \in Modes : a \notin ToSet(ApcList[v][m])
    BY <1>1, ApcAssumption DEF IInv, QueuesExact
  <2>2. \A b \in Apcs \ {a} : ApcThread'[b] = ApcThread[b] /\ Inserted'[b] = Inserted[b]
    BY <1>3 DEF IInv, TypeOK
  <2>3. ~Inserted'[a]
    BY <1>1, <1>3 DEF IInv, TypeOK
  <2>4. \A v \in Threads, m \in Modes : ToSet(ApcList[v][m]) \subseteq Apcs
    BY DEF IInv, TypeOK, ToSet
  <2> QED
    BY <1>3, <2>1, <2>2, <2>3, <2>4 DEF IInv, QueuesExact, Alive, threads
<1>7. InsertOK'
  <2>1. \A u \in Threads \ {t} : Top(u)' = Top(u)
    BY <1>4 DEF StackStep
  <2>2. Top(t)' = f
    BY <1>4 DEF StackStep
  <2>3. \A u \in Threads : At(u, "insert") => Top(u).apc # a /\ Top(u).apc \in Apcs
    BY <1>1, InsertFacts
  <2>4. \A b \in Apcs \ {a} : ApcThread'[b] = ApcThread[b] /\ Inserted'[b] = Inserted[b]
    BY <1>3 DEF IInv, TypeOK
  <2>5. ApcThread'[a] = target /\ ~Inserted'[a]
    BY <1>1, <1>3 DEF IInv, TypeOK
  <2>6. \A b \in KernelApcs : ApcThread'[b] \in Threads
    BY <1>1, <2>4 DEF IInv, InsertOK, Apcs
  <2>7. ASSUME NEW u \in Threads PROVE InsertOf(u)'
    <3>1. CASE u = t
      BY <1>1, <1>2, <2>2, <2>5, <3>1 DEF InsertOf, At
    <3>2. CASE u # t
      BY <2>1, <2>3, <2>4, <3>2 DEF IInv, InsertOK, InsertOf, At
    <3> QED
      BY <3>1, <3>2
  <2> QED
    BY <1>2, <2>1, <2>2, <2>3, <2>6, <2>7 DEF IInv, InsertOK, At
<1>8. KernelApcNotForgotten'
  <2>1. Covers(t, f)
    BY <1>3, <1>4 DEF Covers, threads, At
  <2> QED
    BY <1>3, <1>4, <2>1, CoversStep DEF Alive, threads
<1> QED
  BY <1>4, <1>5, <1>6, <1>7, <1>8 DEF IInv, StackStep

(* KiInsertQueueApc links the APC unless it is linked, and goes on to the flag. *)
LEMMA KiInsertStep ==
    ASSUME IInv, NEW t \in Threads, KiInsertQueueApc(t)
    PROVE  IInv'
<1> DEFINE f == Top(t)
           a == f.apc
           v == f.thread
           m == ModeOf(a)
           g == [f EXCEPT !.at = "mark"]
<1>1. f.at = "insert" /\ UNCHANGED <<ApcThread, Pending, threads, flags>>
  BY DEF KiInsertQueueApc
<1>2. CASE Pop(t) /\ UNCHANGED <<ApcList, Inserted>>
  <2>1. PICK top : StackStep(t, top) /\ top.at \notin {"insert", "mark"}
    BY <1>1, <1>2, PopStep DEF IInv, threads, Bottom
  <2> QED
    BY <1>1, <1>2, <2>1, SilentStep DEF IInv, TypeOK, lists, threads, At, Runs
<1>3. CASE /\ ~AlreadyInserted(a)
           /\ ApcList' = [ApcList EXCEPT ![v][m] = Append(@, a)]
           /\ Inserted' = [Inserted EXCEPT ![a] = TRUE]
           /\ Goto(t, "mark")
  <2>1. /\ a \in Apcs /\ v \in Threads /\ m \in Modes
        /\ ApcThread[a] = v /\ ~Inserted[a]
    BY <1>1, <1>3, InsertFacts DEF At, ModeOf, Modes, AlreadyInserted
  <2>2. g.at = "mark" /\ g.thread = v /\ g.apc = a
    BY TopFacts DEF Labels, IInv
  <2>3. StackStep(t, g)
    BY <1>1, <1>3, GotoStep DEF IInv, threads, Bottom, Labels
  <2> HIDE DEF g
  <2>4. /\ ApcList' \in [Threads -> [Modes -> Seq(Apcs)]]
        /\ ApcList'[v][m] = Append(ApcList[v][m], a)
        /\ \A u \in Threads, n \in Modes : u # v \/ n # m => ApcList'[u][n] = ApcList[u][n]
    <3>1. ApcList \in [Threads -> [Modes -> Seq(Apcs)]]
      BY DEF IInv, TypeOK
    <3>2. Append(ApcList[v][m], a) \in Seq(Apcs)
      BY <2>1, <3>1
    <3> DEFINE s == Append(ApcList[v][m], a)
    <3>3. ApcList' = [ApcList EXCEPT ![v] = [ApcList[v] EXCEPT ![m] = s]]
      BY <1>3, <2>1, <3>1
    <3> HIDE DEF s, f, a, v, m
    <3>4. [ApcList[v] EXCEPT ![m] = s] \in [Modes -> Seq(Apcs)]
      BY <2>1, <3>1, <3>2 DEF s
    <3>5. ApcList' \in [Threads -> [Modes -> Seq(Apcs)]]
      BY <3>1, <3>3, <3>4
    <3>6. ApcList'[v][m] = s
      BY <2>1, <3>1, <3>3
    <3>7. \A u \in Threads, n \in Modes : u # v \/ n # m => ApcList'[u][n] = ApcList[u][n]
      BY <2>1, <3>1, <3>3
    <3> QED
      BY <3>5, <3>6, <3>7 DEF s
  <2>5. /\ Inserted' \in [Apcs -> BOOLEAN] /\ Inserted'[a]
        /\ \A b \in Apcs \ {a} : Inserted'[b] = Inserted[b]
    BY <1>3, <2>1 DEF IInv, TypeOK
  <2>6. TypeOK'
    BY <1>1, <2>3, <2>4, <2>5 DEF IInv, TypeOK, threads, StackStep
  <2> HIDE DEF f, a, v, m
  <2>7. QueuesExact'
    <3>1. /\ a \notin ToSet(ApcList[v][m]) /\ IsInjective(ApcList[v][m])
          /\ ApcList[v][m] \in Seq(Apcs)
      BY <2>1 DEF IInv, TypeOK, QueuesExact
    <3>2. /\ IsInjective(ApcList'[v][m])
          /\ ToSet(ApcList'[v][m]) = ToSet(ApcList[v][m]) \cup {a}
      BY <2>1, <2>4, <3>1, AppendUnlinked
    <3>3. \A u \in Threads, n \in Modes : ToSet(ApcList[u][n]) \subseteq Apcs
      BY DEF IInv, TypeOK, ToSet
    <3>4. \A u \in Threads, n \in Modes : a \notin ToSet(ApcList[u][n])
      BY <2>1 DEF IInv, QueuesExact
    <3>5. m = ModeOf(a)
      BY DEF m
    <3>6. ASSUME NEW u \in Threads, NEW n \in Modes
          PROVE  /\ IsInjective(ApcList'[u][n])
                 /\ \A b \in ToSet(ApcList'[u][n]) :
                       ModeOf(b) = n /\ ApcThread'[b] = u /\ Inserted'[b]
                 /\ Alive(u)' => \A b \in Apcs :
                       ModeOf(b) = n /\ ApcThread'[b] = u /\ Inserted'[b]
                          => b \in ToSet(ApcList'[u][n])
      <4>1. CASE u = v /\ n = m
        BY <1>1, <2>1, <2>5, <3>2, <3>3, <3>4, <3>5, <4>1 DEF IInv, QueuesExact, Alive, threads
      <4>2. CASE u # v \/ n # m
        <5>1. ApcList'[u][n] = ApcList[u][n] /\ ApcThread' = ApcThread /\ ApcQueueable' = ApcQueueable
          BY <1>1, <2>4, <4>2 DEF threads
        <5>2. \A b \in Apcs : ModeOf(b) = n /\ ApcThread[b] = u => b # a
          BY <2>1, <3>5, <4>2
        <5>3. /\ IsInjective(ApcList[u][n])
              /\ \A b \in ToSet(ApcList[u][n]) : ModeOf(b) = n /\ ApcThread[b] = u /\ Inserted[b]
              /\ ApcQueueable[u] => \A b \in Apcs :
                    ModeOf(b) = n /\ ApcThread[b] = u /\ Inserted[b] => b \in ToSet(ApcList[u][n])
          BY DEF IInv, QueuesExact, Alive
        <5> QED
          BY <2>5, <3>3, <5>1, <5>2, <5>3 DEF Alive
      <4> QED
        BY <4>1, <4>2
    <3> QED
      BY <3>6 DEF QueuesExact, ModeOf
  <2>8. InsertOK'
    <3>1. \A u \in Threads \ {t} : Top(u)' = Top(u)
      BY <2>3 DEF StackStep
    <3>2. Top(t)' = g
      BY <2>3 DEF StackStep
    <3>3. \A u \in Threads : At(u, "insert") => Top(u).apc \in Apcs
      BY InsertFacts
    <3>4. \A u \in Threads \ {t} : At(u, "insert") /\ Top(u).apc \in UserApcs => Top(u).apc # a
      BY <1>1 DEF IInv, InsertOK, At, f, a
    <3>5. ASSUME NEW u \in Threads PROVE InsertOf(u)'
      <4>1. CASE u = t
        BY <2>1, <2>2, <3>2, <4>1 DEF InsertOf, At
      <4>2. CASE u # t
        BY <1>1, <2>5, <3>1, <3>3, <3>4, <4>2 DEF IInv, InsertOK, InsertOf, At
      <4> QED
        BY <4>1, <4>2
    <3> QED
      BY <1>1, <2>2, <3>1, <3>2, <3>5 DEF IInv, InsertOK, At
  <2>9. KernelApcNotForgotten'
    <3>1. Top(t)' = g /\ \A u \in Threads \ {t} : Top(u)' = Top(u)
      BY <2>3 DEF StackStep
    <3>2. ASSUME NEW u \in Threads, Alive(u)', Covered(u) PROVE Covered(u)'
      <4>1. AboutToMark(u, "Kernel") => AboutToMark(u, "Kernel")'
        BY <1>1, <3>1 DEF AboutToMark, At, ModeOf, f
      <4>2. Executing(u, "Kernel") /\ Alive(u)' => Executing(u, "Kernel")'
        BY <1>1, <2>3 DEF StackStep, Runs, Modes, f
      <4> QED
        BY <1>1, <3>2, <4>1, <4>2 DEF Covered, threads
    <3>3. ASSUME NEW u \in Threads, u = v, m = "Kernel" PROVE Covered(u)'
      BY <2>2, <3>1, <3>3 DEF Covered, AboutToMark, At, m, ModeOf
    <3>4. \A u \in Threads : ApcList'[u]["Kernel"] = ApcList[u]["Kernel"] \/ (u = v /\ m = "Kernel")
      BY <2>4 DEF Modes
    <3> QED
      BY <1>1, <3>2, <3>3, <3>4 DEF IInv, KernelApcNotForgotten, Covered, Alive, threads
  <2> QED
    BY <2>3, <2>6, <2>7, <2>8, <2>9 DEF IInv, StackStep
<1> QED
  BY <1>2, <1>3 DEF KiInsertQueueApc

(* One turn of KiExecuteApc takes the head out, or ends when nothing is to be run. *)
LEMMA ExecuteNextStep ==
    ASSUME IInv, NEW t \in Threads, ExecuteNext(t)
    PROVE  IInv'
<1>0. PICK m \in Modes : m = Top(t).mode
  BY TopFacts DEF IInv
<1> DEFINE list == ApcList[t][m]
           f == [Top(t) EXCEPT !.at = "routine"]
<1>1. Top(t).at = "drain" /\ UNCHANGED <<Pending, threads, flags>>
  BY DEF ExecuteNext, At
<1>2. CASE (list = <<>> \/ HeldBack(t, m)) /\ Pop(t) /\ UNCHANGED lists
  <2>1. PICK top : StackStep(t, top) /\ top.at \notin {"insert", "mark"}
    BY <1>1, <1>2, PopStep DEF IInv, threads, Bottom
  <2>2. Runs(Top(t), "Kernel") => KernelApcDisable[t] # 0 \/ ApcList[t]["Kernel"] = <<>>
    BY <1>0, <1>2 DEF Runs, HeldBack
  <2> QED
    BY <1>1, <1>2, <2>1, <2>2, SilentStep DEF IInv, TypeOK, threads, At
<1>3. CASE /\ list # <<>>
           /\ ApcList' = [ApcList EXCEPT ![t][m] = Tail(@)]
           /\ Inserted' = [Inserted EXCEPT ![Head(list)] = FALSE]
           /\ ApcThread' = AfterKernelRoutine(Head(list))
           /\ Goto(t, "routine")
  <2>1. list \in Seq(Apcs) /\ IsInjective(list)
    BY DEF IInv, TypeOK, QueuesExact
  <2>2. PICK a \in Apcs : a = Head(list) /\ a \in ToSet(list)
    <3>1. Head(list) = list[1] /\ 1 \in 1..Len(list)
      BY <1>3, <2>1, TailIsRemoveAt
    <3> QED
      BY <2>1, <3>1 DEF ToSet
  <2>3. /\ Tail(list) \in Seq(Apcs)
        /\ IsInjective(Tail(list))
        /\ ToSet(Tail(list)) = ToSet(list) \ {a}
    <3>1. Tail(list) = RemoveAt(list, 1) /\ a = list[1] /\ 1 \in 1..Len(list)
      BY <1>3, <2>1, <2>2, TailIsRemoveAt
    <3>2. /\ RemoveAt(list, 1) \in Seq(Apcs)
          /\ IsInjective(RemoveAt(list, 1))
          /\ ToSet(RemoveAt(list, 1)) = ToSet(list) \ {list[1]}
      BY <2>1, <3>1, RemoveAtElements, RemoveLinked
    <3> QED
      BY <3>1, <3>2
  <2>4. /\ ApcList' \in [Threads -> [Modes -> Seq(Apcs)]]
        /\ ApcList'[t][m] = Tail(list)
        /\ \A u \in Threads, n \in Modes : u # t \/ n # m => ApcList'[u][n] = ApcList[u][n]
    <3>1. ApcList \in [Threads -> [Modes -> Seq(Apcs)]]
      BY DEF IInv, TypeOK
    <3> DEFINE s == Tail(list)
    <3>2. ApcList' = [ApcList EXCEPT ![t] = [ApcList[t] EXCEPT ![m] = s]]
      BY <1>3, <3>1
    <3> HIDE DEF s
    <3>3. [ApcList[t] EXCEPT ![m] = s] \in [Modes -> Seq(Apcs)]
      BY <2>3, <3>1 DEF s
    <3>4. ApcList' \in [Threads -> [Modes -> Seq(Apcs)]]
      BY <3>1, <3>2, <3>3
    <3>5. ApcList'[t][m] = s
      BY <3>1, <3>2
    <3>6. \A u \in Threads, n \in Modes : u # t \/ n # m => ApcList'[u][n] = ApcList[u][n]
      BY <3>1, <3>2
    <3> QED
      BY <3>4, <3>5, <3>6 DEF s
  <2>5. f.at = "routine" /\ f.mode = m
    BY <1>0, TopFacts DEF Labels, IInv
  <2>6. StackStep(t, f)
    BY <1>1, <1>3, GotoStep DEF IInv, threads, Bottom, Labels
  <2> HIDE DEF f
  <2>7. /\ Inserted' \in [Apcs -> BOOLEAN] /\ ~Inserted'[a]
        /\ \A b \in Apcs \ {a} : Inserted'[b] = Inserted[b]
    BY <1>3, <2>2 DEF IInv, TypeOK
  <2>8. /\ ApcThread' \in [Apcs -> Targets \cup {NoThread}]
        /\ \A b \in Apcs \ {a} : ApcThread'[b] = ApcThread[b]
        /\ a \notin UserApcs => ApcThread' = ApcThread
    BY <1>3, <2>2 DEF IInv, TypeOK, AfterKernelRoutine
  <2>9. TypeOK'
    BY <1>1, <2>4, <2>6, <2>7, <2>8 DEF IInv, TypeOK, threads, StackStep
  <2>10. QueuesExact'
    <3>1. ModeOf(a) = m /\ ApcThread[a] = t
      BY <2>2 DEF IInv, QueuesExact
    <3>2. \A u \in Threads, n \in Modes : /\ ToSet(ApcList[u][n]) \subseteq Apcs
                                          /\ u # t \/ n # m => a \notin ToSet(ApcList[u][n])
      BY <3>1 DEF IInv, TypeOK, QueuesExact, ToSet
    <3>3. ASSUME NEW u \in Threads, NEW n \in Modes
          PROVE  /\ IsInjective(ApcList'[u][n])
                 /\ \A b \in ToSet(ApcList'[u][n]) :
                       ModeOf(b) = n /\ ApcThread'[b] = u /\ Inserted'[b]
                 /\ Alive(u)' => \A b \in Apcs :
                       ModeOf(b) = n /\ ApcThread'[b] = u /\ Inserted'[b]
                          => b \in ToSet(ApcList'[u][n])
      <4>1. /\ IsInjective(ApcList[u][n])
            /\ \A b \in ToSet(ApcList[u][n]) : ModeOf(b) = n /\ ApcThread[b] = u /\ Inserted[b]
            /\ ApcQueueable[u] => \A b \in Apcs :
                  ModeOf(b) = n /\ ApcThread[b] = u /\ Inserted[b] => b \in ToSet(ApcList[u][n])
        BY DEF IInv, QueuesExact, Alive
      <4>2. ApcQueueable' = ApcQueueable
        BY <1>1 DEF threads
      <4>3. CASE u = t /\ n = m
        <5>1. ApcList'[u][n] = Tail(list) /\ ApcList[u][n] = list
          BY <2>4, <4>3
        <5> HIDE DEF list
        <5> QED
          BY <2>3, <2>7, <2>8, <3>2, <4>1, <4>2, <5>1 DEF Alive
      <4>4. CASE u # t \/ n # m
        <5>1. ApcList'[u][n] = ApcList[u][n]
          BY <2>4, <4>4
        <5> HIDE DEF list
        <5> QED
          BY <2>7, <2>8, <3>2, <4>1, <4>2, <4>4, <5>1 DEF Alive
      <4> QED
        BY <4>3, <4>4
    <3> QED
      BY <3>3 DEF QueuesExact, ModeOf
  <2>11. InsertOK'
    <3>1. \A u \in Threads \ {t} : Top(u)' = Top(u)
      BY <2>6 DEF StackStep
    <3>2. Top(t)' = f
      BY <2>6 DEF StackStep
    <3>3. \A u \in Threads :
             At(u, "insert") => Top(u).apc \in Apcs /\ (Top(u).apc \in UserApcs => Top(u).apc # a)
      BY <2>2, InsertFacts
    <3>4. \A b \in KernelApcs : ApcThread'[b] \in Threads
      BY <2>8, ApcAssumption DEF IInv, InsertOK, Apcs
    <3>5. ASSUME NEW u \in Threads \ {t}, At(u, "insert")
          PROVE  /\ ApcThread'[Top(u).apc] = ApcThread[Top(u).apc]
                 /\ Top(u).apc \in UserApcs => Inserted'[Top(u).apc] = Inserted[Top(u).apc]
      <4>1. CASE Top(u).apc = a
        BY <2>8, <3>3, <3>5, <4>1
      <4>2. CASE Top(u).apc # a
        BY <2>7, <2>8, <3>3, <3>5, <4>2
      <4> QED
        BY <4>1, <4>2
    <3>6. ASSUME NEW u \in Threads PROVE InsertOf(u)'
      <4>1. CASE u = t
        BY <2>5, <3>2, <4>1 DEF InsertOf, At
      <4>2. CASE u # t
        BY <3>1, <3>5, <4>2 DEF IInv, InsertOK, InsertOf, At
      <4> QED
        BY <4>1, <4>2
    <3> QED
      BY <2>5, <3>1, <3>2, <3>4, <3>6 DEF IInv, InsertOK, At
  <2>12. KernelApcNotForgotten'
    <3>1. Covers(t, f)
      BY <1>0, <1>1, <2>5 DEF Covers, threads, At, Runs
    <3>2. \A u \in Threads : ApcList[u]["Kernel"] = <<>> => ApcList'[u]["Kernel"] = <<>>
      BY <1>3, <2>4 DEF Modes
    <3> QED
      BY <1>1, <2>6, <3>1, <3>2, CoversStep DEF Alive, threads
  <2> QED
    BY <2>6, <2>9, <2>10, <2>11, <2>12 DEF IInv, StackStep
<1> QED
  BY <1>0, <1>2, <1>3 DEF ExecuteNext

-----------------------------------------------------------------------------
(* The end of a thread *)

(* KeEmptyQueueApc: the thread takes no more APCs, and its frames are left for good. *)
LEMMA KeEmptyStep ==
    ASSUME IInv, NEW t \in Threads, KeEmptyQueueApc(t)
    PROVE  IInv'
<1> DEFINE f == [Guest EXCEPT !.at = "empty"]
           g == ExecuteFrame("Kernel")
<1>1. f \in Frames /\ f.at = "empty" /\ g \in Frames /\ g.at = "clear"
  BY FrameTypes, NewFrames DEF Guest, Modes, Labels
<1> HIDE DEF f, g
<1>2. /\ Top(t).at = "guest" /\ UNCHANGED <<lists, KernelApcDisable, Alertable, State, flags>>
      /\ ApcQueueable' = [ApcQueueable EXCEPT ![t] = FALSE]
      /\ \/ /\ stack' = [stack EXCEPT ![t] = <<f, g>>]
            /\ Pending' = [Pending EXCEPT ![t]["Kernel"] = TRUE]
         \/ stack' = [stack EXCEPT ![t] = <<f>>] /\ UNCHANGED Pending
  BY DEF KeEmptyQueueApc, At, f, g
<1>3. /\ ApcQueueable' \in [Threads -> BOOLEAN] /\ ~ApcQueueable'[t]
      /\ \A u \in Threads \ {t} : ApcQueueable'[u] = ApcQueueable[u]
  BY <1>2 DEF IInv, TypeOK
<1>4. PICK s \in Seq(Frames) : /\ stack' = [stack EXCEPT ![t] = s]
                               /\ Len(s) \in 1..2 /\ s[1] = f /\ s[Len(s)] \in {f, g}
  <2>1. /\ <<f, g>> \in Seq(Frames) /\ Len(<<f, g>>) = 2
        /\ <<f, g>>[1] = f /\ <<f, g>>[2] = g
    BY <1>1
  <2>2. <<f>> \in Seq(Frames) /\ Len(<<f>>) = 1 /\ <<f>>[1] = f
    BY <1>1
  <2>3. CASE stack' = [stack EXCEPT ![t] = <<f, g>>]
    <3> DEFINE r == <<f, g>>
    <3>1. r \in Seq(Frames) /\ stack' = [stack EXCEPT ![t] = r] /\ Len(r) \in 1..2
          /\ r[1] = f /\ r[Len(r)] \in {f, g}
      BY <2>1, <2>3
    <3> HIDE DEF r
    <3> QED
      BY <3>1
  <2>4. CASE stack' = [stack EXCEPT ![t] = <<f>>]
    <3> DEFINE r == <<f>>
    <3>1. r \in Seq(Frames) /\ stack' = [stack EXCEPT ![t] = r] /\ Len(r) \in 1..2
          /\ r[1] = f /\ r[Len(r)] \in {f, g}
      BY <2>2, <2>4
    <3> HIDE DEF r
    <3> QED
      BY <3>1
  <2> QED
    BY <1>2, <2>3, <2>4
<1>5. /\ stack' \in [Threads -> Seq(Frames) \ {<<>>}]
      /\ stack'[t] = s
      /\ \A u \in Threads \ {t} : stack'[u] = stack[u]
  <2>1. Len(s) >= 1
    BY <1>4
  <2> QED
    BY <1>4, <2>1, NewStack DEF IInv
<1>6. StackStep(t, s[Len(s)])
  <2>1. StackOf(t)'
    BY <1>1, <1>3, <1>4, <1>5 DEF StackOf
  <2>2. \A u \in Threads \ {t} : Top(u)' = Top(u) /\ StackOf(u)'
    BY <1>3, <1>5 DEF IInv, Top, StackOf, StackOK
  <2>3. \A u \in Threads \ {t}, m \in Modes : Executing(u, m) => Executing(u, m)'
    BY <1>5 DEF Executing
  <2>4. Top(t)' = s[Len(s)]
    BY <1>5 DEF Top, Last
  <2>5. ASSUME NEW m \in Modes, Runs(s[Len(s)], m) PROVE Executing(t, m)'
    <3>1. Len(s) \in DOMAIN stack'[t]
      BY <1>4, <1>5
    <3> QED
      BY <1>5, <2>5, <3>1 DEF Executing, Runs
  <2>6. StackOK'
    BY <2>1, <2>2 DEF StackOK
  <2> QED
    BY <1>3, <1>5, <2>2, <2>3, <2>4, <2>5, <2>6 DEF StackStep, Alive
<1>7. Pending' \in [Threads -> [Modes -> BOOLEAN]] /\ \A u \in Threads \ {t} : Pending'[u] = Pending[u]
  <2>1. Pending' = Pending \/ Pending' = [Pending EXCEPT ![t]["Kernel"] = TRUE]
    BY <1>2
  <2> QED
    BY <2>1, PendingTyped DEF IInv, TypeOK
<1>8. TypeOK'
  BY <1>2, <1>3, <1>5, <1>7 DEF IInv, TypeOK, lists
<1>9. QueuesExact'
  BY <1>2, <1>3 DEF IInv, QueuesExact, Alive, lists
<1>10. InsertOK'
  <2>1. \A u \in Threads : At(u, "insert")' \/ At(u, "mark")' => Top(u)' = Top(u)
    BY <1>1, <1>4, <1>6 DEF StackStep, At
  <2> QED
    BY <1>2, <2>1 DEF IInv, InsertOK, InsertOf, At, lists
<1>11. KernelApcNotForgotten'
  <2>1. ASSUME NEW u \in Threads \ {t}, Covered(u) PROVE Covered(u)'
    <3>1. AboutToMark(u, "Kernel") => AboutToMark(u, "Kernel")'
      BY <1>2, <1>6 DEF StackStep, AboutToMark, At, ModeOf
    <3>2. Executing(u, "Kernel") => Executing(u, "Kernel")'
      BY <1>6 DEF StackStep, Modes
    <3> QED
      BY <1>2, <1>7, <2>1, <3>1, <3>2 DEF Covered
  <2> QED
    BY <1>2, <1>3, <2>1 DEF IInv, KernelApcNotForgotten, Covered, Alive, lists
<1> QED
  BY <1>6, <1>8, <1>9, <1>10, <1>11 DEF IInv, StackStep

(* The APCs left are freed: those of the thread's own lists. *)
LEMMA FreeQueuedStep ==
    ASSUME IInv, NEW t \in Threads, FreeQueuedApcs(t)
    PROVE  IInv'
<1> DEFINE f == [Top(t) EXCEPT !.at = "dead"]
           users == ToSet(ApcList[t]["User"])
<1>1. /\ Top(t).at = "empty" /\ UNCHANGED <<Inserted, Pending, threads, flags>>
      /\ ApcList' = [ApcList EXCEPT ![t] = [m \in Modes |-> <<>>]]
      /\ ApcThread' = [a \in Apcs |-> IF a \in users THEN NoThread ELSE ApcThread[a]]
      /\ Goto(t, "dead")
  BY DEF FreeQueuedApcs, At
<1>2. f.at = "dead"
  BY TopFacts DEF Labels, IInv
<1>3. StackStep(t, f)
  BY <1>1, GotoStep DEF IInv, threads, Bottom, Labels
<1> HIDE DEF f
<1>4. ~ApcQueueable[t] /\ ApcQueueable' = ApcQueueable
  <2>1. Len(stack[t]) \in 1..Len(stack[t]) /\ Top(t) = stack[t][Len(stack[t])]
    BY TopFrame DEF IInv
  <2> QED
    BY <1>1, <2>1 DEF IInv, StackOK, StackOf, threads
<1>5. /\ users \subseteq UserApcs /\ \A a \in users : ApcThread[a] = t /\ Inserted[a]
  <2>1. "User" \in Modes /\ users \subseteq Apcs
    BY DEF IInv, TypeOK, ToSet, Modes
  <2>2. \A a \in users : ModeOf(a) = "User" /\ ApcThread[a] = t /\ Inserted[a]
    BY <2>1 DEF IInv, QueuesExact
  <2> QED
    BY <2>1, <2>2 DEF ModeOf, Apcs
<1> HIDE DEF users
<1>6. /\ ApcList' \in [Threads -> [Modes -> Seq(Apcs)]]
      /\ \A m \in Modes : ApcList'[t][m] = <<>>
      /\ \A u \in Threads \ {t} : ApcList'[u] = ApcList[u]
  BY <1>1 DEF IInv, TypeOK
<1>7. /\ ApcThread' \in [Apcs -> Targets \cup {NoThread}]
      /\ \A a \in Apcs \ users : ApcThread'[a] = ApcThread[a]
      /\ \A a \in Apcs : ApcThread'[a] \in {ApcThread[a], NoThread}
  BY <1>1 DEF IInv, TypeOK
<1>8. TypeOK'
  BY <1>1, <1>3, <1>6, <1>7 DEF IInv, TypeOK, threads, StackStep
<1>9. QueuesExact'
  <2>1. ASSUME NEW u \in Threads, NEW n \in Modes
        PROVE  /\ IsInjective(ApcList'[u][n])
               /\ \A b \in ToSet(ApcList'[u][n]) :
                     ModeOf(b) = n /\ ApcThread'[b] = u /\ Inserted'[b]
               /\ Alive(u)' => \A b \in Apcs :
                     ModeOf(b) = n /\ ApcThread'[b] = u /\ Inserted'[b]
                        => b \in ToSet(ApcList'[u][n])
    <3>1. CASE u = t
      BY <1>4, <1>6, <3>1 DEF IsInjective, ToSet, Alive
    <3>2. CASE u # t
      <4>1. /\ IsInjective(ApcList[u][n])
            /\ \A b \in ToSet(ApcList[u][n]) : ModeOf(b) = n /\ ApcThread[b] = u /\ Inserted[b]
            /\ ApcQueueable[u] => \A b \in Apcs :
                  ModeOf(b) = n /\ ApcThread[b] = u /\ Inserted[b] => b \in ToSet(ApcList[u][n])
        BY DEF IInv, QueuesExact, Alive
      <4>2. ToSet(ApcList[u][n]) \subseteq Apcs \ users
        BY <1>5, <3>2, <4>1 DEF IInv, TypeOK, ToSet
      <4>3. NoThread # u
        BY ApcAssumption
      <4> QED
        BY <1>1, <1>4, <1>6, <1>7, <3>2, <4>1, <4>2, <4>3 DEF Alive
    <3> QED
      BY <3>1, <3>2
  <2> QED
    BY <2>1 DEF QueuesExact, ModeOf
<1>10. InsertOK'
  <2>1. \A u \in Threads : At(u, "insert")' \/ At(u, "mark")' => Top(u)' = Top(u)
    BY <1>2, <1>3 DEF StackStep, At
  <2>2. \A u \in Threads : At(u, "insert") => Top(u).apc \in Apcs \ users
    BY <1>5 DEF IInv, InsertOK, InsertOf
  <2>3. \A a \in KernelApcs : a \in Apcs \ users
    BY <1>5, ApcAssumption DEF Apcs
  <2>4. \A u \in Threads : InsertOf(u)'
    BY <1>1, <1>7, <2>1, <2>2 DEF IInv, InsertOK, InsertOf, At
  <2> QED
    BY <1>7, <2>1, <2>3, <2>4 DEF IInv, InsertOK, At
<1>11. KernelApcNotForgotten'
  <2>1. Covers(t, f)
    BY <1>1, <1>6 DEF Covers, threads, At, Modes
  <2> QED
    BY <1>3, <1>4, <1>6, <2>1, CoversStep DEF Alive, Modes
<1> QED
  BY <1>3, <1>8, <1>9, <1>10, <1>11 DEF IInv, StackStep

-----------------------------------------------------------------------------
(* A started thread has run nothing and nothing is queued. *)
LEMMA InitIInv == Init => IInv
<1> SUFFICES ASSUME Init PROVE IInv
  OBVIOUS
<1> DEFINE s == <<Guest, ExecuteFrame("Kernel")>>
<1>1. /\ s \in Seq(Frames) /\ s # <<>> /\ Len(s) = 2 /\ DOMAIN s = 1..2
      /\ s[1].at = "guest" /\ s[2].at = "clear"
  BY FrameTypes, NewFrames DEF Guest, Modes
<1>2. stack = [t \in Threads |-> s]
  BY DEF Init
<1> HIDE DEF s
<1>3. TypeOK
  <2>1. stack \in [Threads -> Seq(Frames) \ {<<>>}]
    BY <1>1, <1>2
  <2>2. ApcList \in [Threads -> [Modes -> Seq(Apcs)]]
    BY <<>> \in Seq(Apcs) DEF Init
  <2>3. Pending \in [Threads -> [Modes -> BOOLEAN]] /\ flags \in BOOLEAN
    BY ApcAssumption DEF Init
  <2> QED
    BY <2>1, <2>2, <2>3 DEF Init, TypeOK
<1>4. StackOK
  <2> SUFFICES ASSUME NEW t \in Threads PROVE StackOf(t)
    BY DEF StackOK
  <2>1. stack[t] = s
    BY <1>2
  <2>2. \A i \in 1..Len(s) : s[i].at = "guest" \/ s[i].at = "clear"
    <3>1. \A i \in 1..Len(s) : i = 1 \/ i = 2
      BY <1>1
    <3> QED
      BY <1>1, <3>1
  <2>3. \A i \in 1..Len(s) : s[i].at \notin {"insert", "mark", "empty", "dead"}
    BY <2>2
  <2>4. \A i \in 1..Len(s) - 1 : i \in 1..Len(s)
    BY <1>1
  <2> QED
    BY <1>1, <2>1, <2>3, <2>4 DEF StackOf
<1>5. InsertOK
  <2>1. \A t \in Threads : Top(t).at = "clear"
    BY <1>1, <1>2 DEF Top, Last
  <2>2. \A a \in KernelApcs : ApcThread[a] \in Threads
    BY ApcAssumption DEF Init, Apcs
  <2> QED
    BY <2>1, <2>2 DEF InsertOK, InsertOf, At
<1>6. QueuesExact
  BY DEF Init, QueuesExact, IsInjective, ToSet
<1>7. KernelApcNotForgotten
  BY DEF Init, KernelApcNotForgotten, Modes
<1> QED
  BY <1>3, <1>4, <1>5, <1>6, <1>7 DEF IInv

(* Every step of every thread keeps the invariant. *)
LEMMA NextIInv == IInv /\ [Next]_vars => IInv'
<1> SUFFICES ASSUME IInv, [Next]_vars PROVE IInv'
  OBVIOUS
<1>1. ASSUME NEW t \in Threads, KernelStep(t) PROVE IInv'
  <2>1. CASE UnwaitUserApc(t)
    BY <2>1, EndWaitStep DEF UnwaitUserApc, At
  <2> QED
    BY <1>1, <2>1, KiInsertStep, MarkPendingStep, ClearPendingStep, ExecuteNextStep, WaitingStep,
       SatisfyWaitStep, SatisfyWaitUserStep, FreeQueuedStep
       DEF KernelStep
<1>2. ASSUME NEW t \in Threads, GuestStep(t) PROVE IInv'
  BY <1>2, KeInsertStep, NtQueueStep, UnlockStep, EnterStep, LeaveStep, KeWaitStep, WaitingStep,
     KeEmptyStep
     DEF GuestStep
<1>3. CASE UNCHANGED vars
  <2>1. StackOK' /\ InsertOK'
    BY <1>3 DEF IInv, vars, lists, threads, StackOK, StackOf, InsertOK, InsertOf, At, Top
  <2>2. QueuesExact' /\ TypeOK'
    BY <1>3 DEF IInv, vars, lists, threads, QueuesExact, TypeOK, Alive
  <2>3. KernelApcNotForgotten'
    BY <1>3 DEF IInv, vars, lists, threads, KernelApcNotForgotten, Alive, AboutToMark, Executing, At, Top
  <2> QED
    BY <2>1, <2>2, <2>3 DEF IInv
<1> QED
  BY <1>1, <1>2, <1>3, RoutineReturnsStep, UnwaitStep DEF Next

(* The inductive invariant holds of every behaviour. *)
LEMMA Invariance == Spec => []IInv
<1> QED
  BY InitIInv, NextIInv, PTL DEF Spec

(* Every variable keeps the type its C++ declaration gives it, and no return pops the        *)
(* thread's own frame.                                                                     *)
THEOREM ApcTypes == Spec => []TypeOK
<1>1. IInv => TypeOK
  BY DEF IInv
<1> QED
  BY <1>1, Invariance, PTL

(* Whatever threads insert, run and empty at the same time, no KAPC is linked twice or on    *)
(* another thread's list, and Inserted tells the truth while its thread lives.              *)
THEOREM ApcQueues == Spec => []QueuesExact
<1>1. IInv => QueuesExact
  BY DEF IInv
<1> QED
  BY <1>1, Invariance, PTL

(* A queued kernel APC always has someone who will look: the unlocked writes of              *)
(* KernelApcPending never leave it without a flag, a runner or a region that ends.          *)
THEOREM KernelApcsKept == Spec => []KernelApcNotForgotten
<1>1. IInv => KernelApcNotForgotten
  BY DEF IInv
<1> QED
  BY <1>1, Invariance, PTL
=============================================================================
