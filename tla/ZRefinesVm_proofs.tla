-------------------------- MODULE ZRefinesVm_proofs --------------------------
(***************************************************************************)
(* The proof that the port implements the reference interpreter.  Every    *)
(* routine of lib/zstack.asm and lib/zvar.asm is taken with its            *)
(* counterpart of host/vm_state.c from one machine, seen both ways (View), *)
(* under any program counter: the two agree without condition (Same),      *)
(* except that a frame may be taken down from below its base.  The         *)
(* dispatchers' helpers and opcodes then agree unless the story is astray  *)
(* (Agree), and the actions of the port are the reference's.               *)
(***************************************************************************)
EXTENDS ZRefinesVm, ZDispatch_proofs

-----------------------------------------------------------------------------
(* The machine of the port as the reference sees it, with whatever program *)
(* counter: the port moves it before the operands are read, the reference  *)
(* after.                                                                  *)

HostFrames(f) == [k \in 1 .. Len(f) |-> HostFrame(f[k])]

View(s, c) ==
  [ eval |-> Prefix(s.zsmem, s.zsptr), frames |-> HostFrames(s.frames),
    globals |-> s.globals, pc |-> c ]

\* The two outcomes agree, value included.
Same(p, h, c) ==
  p.ok = h.ok /\ (p.ok => h.vm = View(p.vm, c) /\ h.value = p.value)

LEMMA HostValue ==
  ASSUME NEW s, NEW v
  PROVE  Host!Value(s, v) = Value(s, v)
BY DEF Host!Value, Value

LEMMA HostDone ==
  ASSUME NEW s
  PROVE  Host!Done(s) = Done(s)
BY DEF Host!Done, Host!Value, Done, Value

LEMMA HostFail ==
  ASSUME NEW s
  PROVE  Host!Fail(s) = Fail(s)
BY DEF Host!Fail, Fail

LEMMA HostEnds ==
  \A q : Host!Front(q) = Front(q) /\ Host!Last(q) = Last(q)
BY DEF Host!Front, Front, Host!Last, Last

LEMMA FailSame ==
  ASSUME NEW s, NEW t, NEW c
  PROVE  Same(Fail(s), Fail(t), c)
BY DEF Fail, Same

LEMMA ValueSame ==
  ASSUME NEW s, NEW v, NEW c
  PROVE  Same(Value(s, v), Value(View(s, c), v), c)
BY DEF Value, Same

LEMMA DoneSame ==
  ASSUME NEW s, NEW c
  PROVE  Same(Done(s), Done(View(s, c)), c)
BY DEF Done, Value, Same

LEMMA HostWords ==
  /\ Host!Word = Word /\ Host!Var = Var /\ Host!PcSpace = PcSpace /\ Host!Pc = Pc
  /\ \A w : Host!VarOf(w) = VarOf(w) /\ Host!Signed(w) = Signed(w)
  /\ \A h, x : Host!RoutineEntry(h, x) = RoutineEntry(h, x)
  /\ \A g, i : Host!Written(g, i) = Written(g, i)
  /\ \A q, n : Host!Prefix(q, n) = Prefix(q, n) /\ Host!WithTop(q, n) = WithTop(q, n)
BY DEF Host!Word, Word, Host!Var, Var, Host!PcSpace, PcSpace, Host!Pc, Pc, Host!VarOf, VarOf,
  Host!Signed, Signed, Host!RoutineEntry, RoutineEntry, Host!Written, Written,
  Host!Prefix, Prefix, Host!WithTop, WithTop

LEMMA PrefixPush ==
  ASSUME NEW m \in Seq(Word), NEW n \in 0 .. Len(m), n # Len(m), NEW v \in Word
  PROVE  Prefix([m EXCEPT ![n + 1] = v], n + 1) = Append(Prefix(m, n), v)
<1> DEFINE p == n + 1
           d == [m EXCEPT ![p] = v]
           e == Prefix(m, n)
           f == Prefix(d, p)
           g == Append(e, v)
<1>0. p \in 1 .. Len(m) /\ p \in Nat /\ n = p - 1
  OBVIOUS
<1> HIDE DEF p
<1>1. /\ d \in Seq(Word) /\ Len(d) = Len(m)
      /\ \A k \in 1 .. Len(m) : d[k] = IF k = p THEN v ELSE m[k]
  BY <1>0, ExceptSeq
<1>2. /\ d[p] = v
      /\ \A k \in 1 .. n : d[k] = m[k]
  BY <1>0, <1>1
<1>3. e \in Seq(Word) /\ Len(e) = n /\ \A k \in 1 .. n : e[k] = m[k]
  BY PrefixSeq
<1> HIDE DEF d, e
<1>4. f \in Seq(Word) /\ Len(f) = p /\ \A k \in 1 .. p : f[k] = d[k]
  BY <1>0, <1>1, PrefixSeq
<1>5. /\ g \in Seq(Word) /\ Len(g) = p
      /\ \A k \in 1 .. n : g[k] = e[k]
      /\ g[p] = v
  <2>1. /\ g \in Seq(Word) /\ Len(g) = Len(e) + 1
        /\ \A k \in 1 .. Len(e) : g[k] = e[k]
        /\ g[Len(e) + 1] = v
    BY <1>3, AppendSeq
  <2>2. Len(e) = n /\ Len(e) + 1 = p
    BY <1>0, <1>3
  <2> HIDE DEF g
  <2> QED
    BY <2>1, <2>2
<1> HIDE DEF f, g
<1>6. \A k \in 1 .. p : f[k] = g[k]
  <2> TAKE k \in 1 .. p
  <2>1. k = p \/ k \in 1 .. n
    BY <1>0
  <2> QED
    BY <1>2, <1>3, <1>4, <1>5, <2>1
<1>7. f = g
  BY <1>4, <1>5, <1>6, SeqEqual
<1> QED
  BY <1>7, Zenon DEF f, g, d, e, p

LEMMA PrefixPop ==
  ASSUME NEW m \in Seq(Word), NEW n \in 1 .. Len(m)
  PROVE  Front(Prefix(m, n)) = Prefix(m, n - 1) /\ Last(Prefix(m, n)) = m[n]
<1> DEFINE e == Prefix(m, n)
           f == Front(e)
           g == Prefix(m, n - 1)
<1>1. e \in Seq(Word) /\ Len(e) = n /\ \A k \in 1 .. n : e[k] = m[k]
  BY PrefixSeq
<1>2. g \in Seq(Word) /\ Len(g) = n - 1 /\ \A k \in 1 .. n - 1 : g[k] = m[k]
  <2>1. n - 1 \in 0 .. Len(m)
    OBVIOUS
  <2> QED
    BY <2>1, PrefixSeq
<1> HIDE DEF e, g
<1>3. /\ f \in Seq(Word) /\ Len(f) = n - 1 /\ Last(e) = e[n]
      /\ \A k \in 1 .. n - 1 : f[k] = e[k]
  <2>1. Len(e) # 0
    BY <1>1
  <2>2. /\ f \in Seq(Word) /\ Len(f) = Len(e) - 1 /\ Last(e) = e[Len(e)]
        /\ \A k \in 1 .. Len(e) - 1 : f[k] = e[k]
    BY <1>1, <2>1, FrontSeq
  <2> HIDE DEF f
  <2> QED
    BY <1>1, <2>2
<1> HIDE DEF f
<1>4. \A k \in 1 .. Len(f) : f[k] = g[k]
  BY <1>1, <1>2, <1>3
<1>5. f = g
  BY <1>2, <1>3, <1>4, SeqEqual
<1> QED
  BY <1>1, <1>3, <1>5 DEF e, f, g

LEMMA PrefixTop ==
  ASSUME NEW m \in Seq(Word), NEW n \in 1 .. Len(m), NEW v \in Word
  PROVE  Prefix([m EXCEPT ![n] = v], n) = WithTop(Prefix(m, n), v)
<1> DEFINE d == [m EXCEPT ![n] = v]
           e == Prefix(m, n)
           f == Prefix(d, n)
           g == WithTop(e, v)
<1>1. d \in Seq(Word) /\ Len(d) = Len(m)
  BY ExceptSeq
<1>2. \A k \in 1 .. n : d[k] = IF k = n THEN v ELSE m[k]
  BY <1>1
<1>3. e \in Seq(Word) /\ Len(e) = n /\ \A k \in 1 .. n : e[k] = m[k]
  BY PrefixSeq
<1> HIDE DEF d, e
<1>4. f \in Seq(Word) /\ Len(f) = n /\ \A k \in 1 .. n : f[k] = d[k]
  BY <1>1, PrefixSeq
<1>5. /\ g \in Seq(Word) /\ Len(g) = n
      /\ \A k \in 1 .. n : g[k] = IF k = n THEN v ELSE e[k]
  <2>1. Len(e) # 0
    BY <1>3
  <2>2. /\ g \in Seq(Word) /\ Len(g) = Len(e)
        /\ \A k \in 1 .. Len(e) : g[k] = IF k = Len(e) THEN v ELSE e[k]
    BY <1>3, <2>1, WithTopSeq
  <2> HIDE DEF g
  <2> QED
    BY <1>3, <2>2
<1> HIDE DEF f, g
<1>6. \A k \in 1 .. n : f[k] = g[k]
  BY <1>2, <1>3, <1>4, <1>5
<1>7. f = g
  BY <1>4, <1>5, <1>6, SeqEqual
<1> QED
  BY <1>7 DEF f, g, d, e

LEMMA PrefixCut ==
  ASSUME NEW m \in Seq(Word), NEW n \in 0 .. Len(m), NEW b \in 0 .. n
  PROVE  (IF Len(Prefix(m, n)) > b THEN Prefix(Prefix(m, n), b) ELSE Prefix(m, n))
           = Prefix(m, b)
<1> DEFINE e == Prefix(m, n)
           f == Prefix(e, b)
           g == Prefix(m, b)
<1>1. e \in Seq(Word) /\ Len(e) = n /\ \A k \in 1 .. n : e[k] = m[k]
  BY PrefixSeq
<1>2. g \in Seq(Word) /\ Len(g) = b /\ \A k \in 1 .. b : g[k] = m[k]
  <2>1. b \in 0 .. Len(m)
    OBVIOUS
  <2> QED
    BY <2>1, PrefixSeq
<1>3. CASE n = b
  BY <1>1, <1>3
<1>4. CASE n # b
  <2> HIDE DEF e, g
  <2>1. f \in Seq(Word) /\ Len(f) = b /\ \A k \in 1 .. b : f[k] = e[k]
    BY <1>1, PrefixSeq
  <2> HIDE DEF f
  <2>2. \A k \in 1 .. b : f[k] = g[k]
    BY <1>1, <1>2, <2>1
  <2>3. f = g
    BY <1>2, <2>1, <2>2, SeqEqual
  <2>4. Len(e) > b
    BY <1>1, <1>4
  <2> QED
    BY <2>3, <2>4 DEF e, f, g
<1> QED
  BY <1>3, <1>4

-----------------------------------------------------------------------------
(* Addresses in one number, and the frames that keep them.                 *)

LEMMA ModUnique ==
  ASSUME NEW n \in Nat \ {0}, NEW x \in Int, NEW m \in Int, NEW r \in 0 .. n - 1,
         x = m * n + r
  PROVE  x % n = r
BY SMT

LEMMA PcSpaceNat == PcSpace \in Nat \ {0}
BY WordModAssumption, BanksAssumption DEF PcSpace

LEMMA AddressPc ==
  ASSUME NEW b \in Bank, NEW o \in Word
  PROVE  Address(b, o) \in Pc
<1>1. WordMod \in Nat \ {0} /\ Banks \in Nat \ {0}
  BY WordModAssumption, BanksAssumption
<1>2. b \in 0 .. Banks - 1 /\ o \in 0 .. WordMod - 1
  BY DEF Bank, Word
<1>3. b * WordMod \in Nat /\ b * WordMod <= (Banks - 1) * WordMod
  BY <1>1, <1>2
<1>4. (Banks - 1) * WordMod = WordMod * Banks - WordMod
  BY <1>1
<1>5. WordMod * Banks \in Int
  BY <1>1
<1> QED
  BY <1>1, <1>2, <1>3, <1>4, <1>5 DEF Address, Pc, PcSpace

\* A carry out of the offset into the bank, and out of the last bank.
LEMMA WideSum ==
  ASSUME NEW bank \in Int, NEW sum \in Int
  PROVE  Address((bank + sum \div WordMod) % Banks, sum % WordMod)
           = (bank * WordMod + sum) % PcSpace
<1> DEFINE q == sum \div WordMod
           r == sum % WordMod
           t == bank + q
           tq == t \div Banks
           tr == t % Banks
           x == bank * WordMod + sum
           a == Address(tr, r)
<1>0. WordMod \in Nat \ {0} /\ Banks \in Nat \ {0} /\ PcSpace = WordMod * Banks
  BY WordModAssumption, BanksAssumption DEF PcSpace
<1>1. q \in Int /\ r \in 0 .. WordMod - 1 /\ sum = WordMod * q + r
  BY <1>0, Division
<1> HIDE DEF q, r
<1>2. t \in Int
  BY <1>1
<1>3. tq \in Int /\ tr \in 0 .. Banks - 1 /\ t = Banks * tq + tr
  BY <1>0, <1>2, Division
<1>4. tr = bank + q - Banks * tq
  BY <1>0, <1>1, <1>3
<1> HIDE DEF tq, tr
<1>5. a \in 0 .. PcSpace - 1
  BY <1>1, <1>3, AddressPc DEF Bank, Word, Pc
<1>6. tr * WordMod = bank * WordMod + q * WordMod - tq * (WordMod * Banks)
  BY <1>0, <1>1, <1>3, <1>4
<1>7. x = tq * PcSpace + a
  BY <1>0, <1>1, <1>3, <1>6 DEF Address
<1>8. x \in Int
  BY <1>0
<1> HIDE DEF x, a
<1>9. x % PcSpace = a
  BY <1>3, <1>5, <1>7, <1>8, PcSpaceNat, ModUnique
<1> QED
  BY <1>9 DEF x, a, tr, t, q, r

LEMMA HostFrameOK ==
  ASSUME NEW g \in ZFrame
  PROVE  HostFrame(g) \in Host!Frame
<1>1. Address(g.return_pc_bank, g.return_pc) \in Pc
  BY AddressPc DEF ZFrame
<1> QED
  BY <1>1, HostWords DEF HostFrame, ZFrame, Host!Frame

LEMMA FramesSeq ==
  ASSUME NEW f \in Seq(ZFrame)
  PROVE  /\ HostFrames(f) \in Seq(Host!Frame) /\ Len(HostFrames(f)) = Len(f)
         /\ \A k \in 1 .. Len(f) : HostFrames(f)[k] = HostFrame(f[k])
<1> DEFINE F == Host!Frame
<1>1. \A k \in 1 .. Len(f) : HostFrame(f[k]) \in F
  BY HostFrameOK
<1> HIDE DEF F
<1>2. HostFrames(f) \in [1 .. Len(f) -> F] /\ Len(f) \in Nat
  BY <1>1 DEF HostFrames
<1>3. HostFrames(f) \in Seq(F) /\ Len(HostFrames(f)) = Len(f)
  BY <1>2
<1>4. \A k \in 1 .. Len(f) : HostFrames(f)[k] = HostFrame(f[k])
  BY DEF HostFrames
<1> QED
  BY <1>3, <1>4 DEF F

LEMMA FramesFront ==
  ASSUME NEW f \in Seq(ZFrame), Len(f) # 0
  PROVE  HostFrames(Front(f)) = Front(HostFrames(f)) /\ Last(HostFrames(f)) = HostFrame(Last(f))
<1> DEFINE n == Len(f)
           d == Front(f)
           h == HostFrames(f)
           u == HostFrames(d)
           v == Front(h)
<1>1. n \in Nat /\ n # 0
  OBVIOUS
<1>2. /\ d \in Seq(ZFrame) /\ Len(d) = n - 1 /\ Last(f) = f[n]
      /\ \A k \in 1 .. n - 1 : d[k] = f[k]
  BY FrontSeq
<1>3. h \in Seq(Host!Frame) /\ Len(h) = n /\ \A k \in 1 .. n : h[k] = HostFrame(f[k])
  BY FramesSeq
<1> HIDE DEF n, d, h
<1>4. /\ u \in Seq(Host!Frame) /\ Len(u) = n - 1
      /\ \A k \in 1 .. n - 1 : u[k] = HostFrame(d[k])
  <2>1. /\ u \in Seq(Host!Frame) /\ Len(u) = Len(d)
        /\ \A k \in 1 .. Len(d) : u[k] = HostFrame(d[k])
    BY <1>2, FramesSeq
  <2> HIDE DEF u
  <2> QED
    BY <1>2, <2>1
<1>5. /\ v \in Seq(Host!Frame) /\ Len(v) = n - 1 /\ Last(h) = h[n]
      /\ \A k \in 1 .. n - 1 : v[k] = h[k]
  <2>1. Len(h) # 0
    BY <1>1, <1>3
  <2>2. /\ v \in Seq(Host!Frame) /\ Len(v) = Len(h) - 1 /\ Last(h) = h[Len(h)]
        /\ \A k \in 1 .. Len(h) - 1 : v[k] = h[k]
    BY <1>3, <2>1, FrontSeq
  <2> HIDE DEF v
  <2> QED
    BY <1>3, <2>2
<1> HIDE DEF u, v
<1>6. \A k \in 1 .. Len(u) : u[k] = v[k]
  BY <1>1, <1>2, <1>3, <1>4, <1>5
<1>7. u = v
  BY <1>4, <1>5, <1>6, SeqEqual
<1>8. Last(h) = HostFrame(Last(f))
  BY <1>1, <1>2, <1>3, <1>5
<1> QED
  BY <1>7, <1>8 DEF u, v, h, d

LEMMA FramesAppend ==
  ASSUME NEW f \in Seq(ZFrame), NEW g \in ZFrame
  PROVE  HostFrames(Append(f, g)) = Append(HostFrames(f), HostFrame(g))
<1> DEFINE n == Len(f)
           d == Append(f, g)
           h == HostFrames(f)
           e == HostFrame(g)
           u == HostFrames(d)
           v == Append(h, e)
<1>1. n \in Nat /\ e \in Host!Frame
  BY HostFrameOK
<1>2. /\ d \in Seq(ZFrame) /\ Len(d) = n + 1 /\ d[n + 1] = g
      /\ \A k \in 1 .. n : d[k] = f[k]
  BY AppendSeq
<1>3. h \in Seq(Host!Frame) /\ Len(h) = n /\ \A k \in 1 .. n : h[k] = HostFrame(f[k])
  BY FramesSeq
<1> HIDE DEF n, d, h, e
<1>4. /\ u \in Seq(Host!Frame) /\ Len(u) = n + 1
      /\ \A k \in 1 .. n + 1 : u[k] = HostFrame(d[k])
  <2>1. /\ u \in Seq(Host!Frame) /\ Len(u) = Len(d)
        /\ \A k \in 1 .. Len(d) : u[k] = HostFrame(d[k])
    BY <1>2, FramesSeq
  <2> HIDE DEF u
  <2> QED
    BY <1>2, <2>1
<1>5. /\ v \in Seq(Host!Frame) /\ Len(v) = n + 1 /\ v[n + 1] = e
      /\ \A k \in 1 .. n : v[k] = h[k]
  <2>1. /\ v \in Seq(Host!Frame) /\ Len(v) = Len(h) + 1 /\ v[Len(h) + 1] = e
        /\ \A k \in 1 .. Len(h) : v[k] = h[k]
    BY <1>1, <1>3, AppendSeq
  <2> HIDE DEF v
  <2> QED
    BY <1>3, <2>1
<1> HIDE DEF u, v
<1>6. \A k \in 1 .. n + 1 : u[k] = v[k]
  <2> TAKE k \in 1 .. n + 1
  <2>1. CASE k = n + 1
    BY <1>1, <1>2, <1>4, <1>5, <2>1 DEF e
  <2>2. CASE k \in 1 .. n
    BY <1>1, <1>2, <1>3, <1>4, <1>5, <2>2
  <2> QED
    BY <1>1, <2>1, <2>2
<1>7. u = v
  BY <1>4, <1>5, <1>6, SeqEqual
<1> QED
  BY <1>7 DEF u, v, h, d, e

LEMMA FramesWithTop ==
  ASSUME NEW f \in Seq(ZFrame), NEW g \in ZFrame, Len(f) # 0
  PROVE  HostFrames(WithTop(f, g)) = WithTop(HostFrames(f), HostFrame(g))
<1> DEFINE n == Len(f)
           d == WithTop(f, g)
           h == HostFrames(f)
           e == HostFrame(g)
           u == HostFrames(d)
           v == WithTop(h, e)
<1>1. n \in Nat /\ n # 0 /\ e \in Host!Frame
  BY HostFrameOK
<1>2. /\ d \in Seq(ZFrame) /\ Len(d) = n
      /\ \A k \in 1 .. n : d[k] = IF k = n THEN g ELSE f[k]
  BY WithTopSeq
<1>3. h \in Seq(Host!Frame) /\ Len(h) = n /\ \A k \in 1 .. n : h[k] = HostFrame(f[k])
  BY FramesSeq
<1> HIDE DEF n, d, h, e
<1>4. /\ u \in Seq(Host!Frame) /\ Len(u) = n
      /\ \A k \in 1 .. n : u[k] = HostFrame(d[k])
  <2>1. /\ u \in Seq(Host!Frame) /\ Len(u) = Len(d)
        /\ \A k \in 1 .. Len(d) : u[k] = HostFrame(d[k])
    BY <1>2, FramesSeq
  <2> HIDE DEF u
  <2> QED
    BY <1>2, <2>1
<1>5. /\ v \in Seq(Host!Frame) /\ Len(v) = n
      /\ \A k \in 1 .. n : v[k] = IF k = n THEN e ELSE h[k]
  <2>1. h \in Seq(Host!Frame) /\ e \in Host!Frame /\ Len(h) # 0
    BY <1>1, <1>3
  <2>2. /\ v \in Seq(Host!Frame) /\ Len(v) = Len(h)
        /\ \A k \in 1 .. Len(h) : v[k] = IF k = Len(h) THEN e ELSE h[k]
    BY <2>1, WithTopSeq
  <2> HIDE DEF v
  <2> QED
    BY <1>3, <2>2
<1> HIDE DEF u, v
<1>6. \A k \in 1 .. n : u[k] = v[k]
  <2> TAKE k \in 1 .. n
  <2>1. CASE k = n
    BY <1>1, <1>2, <1>4, <1>5, <2>1 DEF e
  <2>2. CASE k # n
    BY <1>1, <1>2, <1>3, <1>4, <1>5, <2>2
  <2> QED
    BY <2>1, <2>2
<1>7. u = v
  BY <1>4, <1>5, <1>6, SeqEqual
<1> QED
  BY <1>7 DEF u, v, h, d, e

-----------------------------------------------------------------------------
(* Each routine of lib/zstack.asm and lib/zvar.asm against its counterpart  *)
(* in host/vm_state.c, from the same machine under any program counter.    *)

LEMMA ViewEval ==
  ASSUME NEW s, NEW t, NEW c, t.frames = s.frames, t.globals = s.globals
  PROVE  View(t, c) = [View(s, c) EXCEPT !.eval = Prefix(t.zsmem, t.zsptr)]
BY DEF View

LEMMA ViewFrames ==
  ASSUME NEW s, NEW t, NEW c, t.zsmem = s.zsmem, t.zsptr = s.zsptr, t.globals = s.globals
  PROVE  View(t, c) = [View(s, c) EXCEPT !.frames = HostFrames(t.frames)]
BY DEF View

LEMMA ViewGlobals ==
  ASSUME NEW s, NEW t, NEW c, t.zsmem = s.zsmem, t.zsptr = s.zsptr, t.frames = s.frames
  PROVE  View(t, c) = [View(s, c) EXCEPT !.globals = t.globals]
BY DEF View

Popped(x, f, e) == [x EXCEPT !.frames = f, !.eval = e]

LEMMA ViewPopped ==
  ASSUME NEW s, NEW t, NEW c, t.globals = s.globals
  PROVE  View(t, c) = Popped(View(s, c), HostFrames(t.frames), Prefix(t.zsmem, t.zsptr))
<1> DEFINE a == HostFrames(t.frames)
           b == Prefix(t.zsmem, t.zsptr)
           m == HostFrames(s.frames)
           n == Prefix(s.zsmem, s.zsptr)
           g == s.globals
<1>1. View(s, c) = [eval |-> n, frames |-> m, globals |-> g, pc |-> c]
  BY DEF View
<1>2. View(t, c) = [eval |-> b, frames |-> a, globals |-> g, pc |-> c]
  BY DEF View
<1> HIDE DEF a, b, m, n, g
<1>3. [View(s, c) EXCEPT !.frames = a] = [eval |-> n, frames |-> a, globals |-> g, pc |-> c]
  BY <1>1
<1> DEFINE x == [View(s, c) EXCEPT !.frames = a]
<1>4. [x EXCEPT !.eval = b] = View(t, c)
  <2> HIDE DEF x
  <2>1. x = [eval |-> n, frames |-> a, globals |-> g, pc |-> c]
    BY <1>3 DEF x
  <2> QED
    BY <1>2, <2>1
<1> QED
  BY <1>4, Zenon DEF Popped, a, b

LEMMA StackSeq ==
  ASSUME NEW s, ZMachineOK(s), NEW c
  PROVE  /\ s.zsmem \in Seq(Word) /\ Len(s.zsmem) = EvalMax /\ s.zsptr \in 0 .. EvalMax
         /\ EvalMax \in Nat /\ s.zsptr \in 0 .. Len(s.zsmem)
         /\ View(s, c).eval \in Seq(Word) /\ Len(View(s, c).eval) = s.zsptr
<1>1. /\ s.zsmem \in Seq(Word) /\ Len(s.zsmem) = EvalMax /\ s.zsptr \in 0 .. EvalMax
      /\ EvalMax \in Nat
  BY ZFields, EvalMaxAssumption DEF ZMemOK
<1>2. View(s, c).eval = Prefix(s.zsmem, s.zsptr)
  BY DEF View
<1> QED
  BY <1>1, <1>2, PrefixSeq

LEMMA PushSame ==
  ASSUME NEW s, ZMachineOK(s), NEW v \in Word, NEW c
  PROVE  Same(zstack_push(s, v), Host!vm_push(View(s, c), v), c)
<1> DEFINE e == View(s, c).eval
           n == s.zsptr
           d == [s.zsmem EXCEPT ![n + 1] = v]
           t == [s EXCEPT !.zsmem = d, !.zsptr = n + 1]
           h == [View(s, c) EXCEPT !.eval = Append(e, v)]
<1>1. Len(e) = n /\ n \in Nat /\ EvalMax \in Nat
  BY StackSeq
<1>2. CASE n + 1 > EvalMax
  <2>1. zstack_push(s, v) = Fail(s)
    BY <1>2 DEF zstack_push
  <2>2. Host!vm_push(View(s, c), v) = Fail(View(s, c))
    BY <1>1, <1>2, HostFail DEF Host!vm_push
  <2> QED
    BY <2>1, <2>2, FailSame
<1>3. CASE ~ (n + 1 > EvalMax)
  <2>1. zstack_push(s, v) = Done(t)
    BY <1>3 DEF zstack_push
  <2>2. Host!vm_push(View(s, c), v) = Done(h)
    BY <1>1, <1>3, HostDone DEF Host!vm_push
  <2>3. Append(e, v) = Prefix(d, n + 1)
    <3>1. s.zsmem \in Seq(Word) /\ n \in 0 .. Len(s.zsmem) /\ n # Len(s.zsmem)
      BY <1>1, <1>3, StackSeq
    <3>2. e = Prefix(s.zsmem, n)
      BY DEF View
    <3> QED
      BY <3>1, <3>2, PrefixPush
  <2>4. View(t, c) = h
    <3> HIDE DEF d
    <3>1. t.zsmem = d /\ t.zsptr = n + 1 /\ t.frames = s.frames /\ t.globals = s.globals
      BY ZFields DEF ZMachine
    <3> HIDE DEF t
    <3>2. View(t, c) = [View(s, c) EXCEPT !.eval = Prefix(t.zsmem, t.zsptr)]
      BY <3>1, ViewEval
    <3> QED
      BY <2>3, <3>1, <3>2
  <2> QED
    BY <2>1, <2>2, <2>4, DoneSame
<1> QED
  BY <1>2, <1>3

LEMMA PopSame ==
  ASSUME NEW s, ZMachineOK(s), NEW c
  PROVE  Same(zstack_pop(s), Host!vm_pop(View(s, c)), c)
<1> DEFINE e == View(s, c).eval
           n == s.zsptr
           w == s.zsmem[n]
           t == [s EXCEPT !.zsptr = n - 1]
           h == [View(s, c) EXCEPT !.eval = Front(e)]
<1>1. Len(e) = n /\ n \in Nat
  BY StackSeq
<1>2. CASE n = 0
  <2>1. zstack_pop(s) = Fail(s)
    BY <1>2 DEF zstack_pop
  <2>2. Host!vm_pop(View(s, c)) = Fail(View(s, c))
    BY <1>1, <1>2, HostFail DEF Host!vm_pop
  <2> QED
    BY <2>1, <2>2, FailSame
<1>3. CASE n # 0
  <2>1. zstack_pop(s) = Value(t, w)
    BY <1>3 DEF zstack_pop
  <2>2. Host!vm_pop(View(s, c)) = Value(h, Last(e))
    BY <1>1, <1>3, HostValue, HostEnds DEF Host!vm_pop
  <2>3. Front(e) = Prefix(s.zsmem, n - 1) /\ Last(e) = w
    <3>1. s.zsmem \in Seq(Word) /\ n \in 1 .. Len(s.zsmem)
      BY <1>1, <1>3, StackSeq
    <3>2. e = Prefix(s.zsmem, n)
      BY DEF View
    <3> QED
      BY <3>1, <3>2, PrefixPop
  <2>4. View(t, c) = h
    <3>1. /\ t.zsmem = s.zsmem /\ t.zsptr = n - 1 /\ t.frames = s.frames
          /\ t.globals = s.globals
      BY ZFields DEF ZMachine
    <3> HIDE DEF t
    <3>2. View(t, c) = [View(s, c) EXCEPT !.eval = Prefix(t.zsmem, t.zsptr)]
      BY <3>1, ViewEval
    <3> QED
      BY <2>3, <3>1, <3>2
  <2> QED
    BY <2>1, <2>2, <2>3, <2>4, ValueSame
<1> QED
  BY <1>2, <1>3

LEMMA FramePushSame ==
  ASSUME NEW s, ZMachineOK(s), NEW pc \in Word, NEW bank \in Bank, NEW v \in Var,
         NEW l \in Seq(Word), NEW c
  PROVE  Same(zvar_frame_push(s, pc, bank, v, l),
              Host!vm_frame_push(View(s, c), Address(bank, pc), v, l), c)
<1> DEFINE g == [ return_pc |-> pc, return_pc_bank |-> bank, store_variable |-> v,
                  locals |-> l, stack_base |-> s.zsptr ]
           f == Append(s.frames, g)
           t == [s EXCEPT !.frames = f]
           b == Len(View(s, c).eval)
           hg == [ return_pc |-> Address(bank, pc), store_variable |-> v, locals |-> l,
                   stack_base |-> b ]
           h == [View(s, c) EXCEPT !.frames = Append(View(s, c).frames, hg)]
           full == Len(l) > LocalLimit \/ Len(s.frames) + 1 > FrameMax
<1>1. /\ b = s.zsptr /\ s.frames \in Seq(ZFrame) /\ Len(s.frames) \in Nat /\ FrameMax \in Nat
      /\ Len(View(s, c).frames) = Len(s.frames)
  <2>1. s.frames \in Seq(ZFrame)
    BY ZFields DEF ZFramesOK
  <2>2. View(s, c).frames = HostFrames(s.frames)
    BY DEF View
  <2> QED
    BY <2>1, <2>2, StackSeq, FramesSeq, FrameMaxAssumption
<1>2. Len(View(s, c).frames) >= FrameMax <=> Len(s.frames) + 1 > FrameMax
  BY <1>1
<1>3. CASE full
  <2>1. zvar_frame_push(s, pc, bank, v, l) = Fail(s)
    BY <1>3 DEF zvar_frame_push
  <2>2. Host!vm_frame_push(View(s, c), Address(bank, pc), v, l) = Fail(View(s, c))
    BY <1>2, <1>3, HostFail DEF Host!vm_frame_push
  <2> QED
    BY <2>1, <2>2, FailSame
<1>4. CASE ~ full
  <2>1. zvar_frame_push(s, pc, bank, v, l) = Done(t)
    BY <1>4 DEF zvar_frame_push
  <2>2. Host!vm_frame_push(View(s, c), Address(bank, pc), v, l) = Done(h)
    BY <1>2, <1>4, HostDone DEF Host!vm_frame_push
  <2>3. g \in ZFrame /\ HostFrame(g) = hg
    BY <1>1, ZFields DEF ZFrame, HostFrame
  <2> HIDE DEF g, hg
  <2>4. HostFrames(f) = Append(View(s, c).frames, hg)
    <3>1. View(s, c).frames = HostFrames(s.frames)
      BY DEF View
    <3> QED
      BY <1>1, <2>3, <3>1, FramesAppend
  <2>5. View(t, c) = h
    <3> HIDE DEF f
    <3>1. /\ t.zsmem = s.zsmem /\ t.zsptr = s.zsptr /\ t.frames = f
          /\ t.globals = s.globals
      BY ZFields DEF ZMachine
    <3> HIDE DEF t
    <3>2. View(t, c) = [View(s, c) EXCEPT !.frames = HostFrames(t.frames)]
      BY <3>1, ViewFrames
    <3> QED
      BY <2>4, <3>1, <3>2
  <2> QED
    BY <2>1, <2>2, <2>5, DoneSame
<1> QED
  BY <1>3, <1>4

\* A frame is taken down alike unless the stack has sunk below its base; that
\* the port goes up again then is what astray stands for.
LEMMA FramePopSame ==
  ASSUME NEW s, ZMachineOK(s), NEW c
  PROVE  LET p == zvar_frame_pop(s)
             h == Host!vm_frame_pop(View(s, c))
         IN  ~ p.vm.astray =>
               /\ p.ok = h.ok
               /\ p.ok => h.vm = View(p.vm, c) /\ h.value = HostFrame(p.value)
<1> DEFINE f == s.frames
           hf == View(s, c).frames
           e == View(s, c).eval
           p == zvar_frame_pop(s)
           h == Host!vm_frame_pop(View(s, c))
<1>1. f \in Seq(ZFrame) /\ hf = HostFrames(f) /\ Len(hf) = Len(f)
  BY ZFields, FramesSeq DEF View, ZFramesOK
<1>2. CASE Len(f) = 0
  <2>1. p = Fail(s)
    BY <1>2 DEF zvar_frame_pop
  <2>2. h = Fail(View(s, c))
    BY <1>1, <1>2, HostFail DEF Host!vm_frame_pop
  <2> QED
    BY <2>1, <2>2 DEF Fail
<1>3. CASE Len(f) # 0
  <2> DEFINE frame == Last(f)
             b == frame.stack_base
             d == Front(f)
             a == s.astray \/ s.zsptr < b
             t == [s EXCEPT !.frames = d, !.zsptr = b, !.astray = a]
             cut == IF Len(e) > b THEN Prefix(e, b) ELSE e
             ht == [View(s, c) EXCEPT !.frames = Front(hf), !.eval = cut]
  <2>1. frame \in ZFrame /\ b \in 0 .. EvalMax
    BY <1>3, ZFields, ZFramesTop DEF ZFrame
  <2>2. Front(hf) = HostFrames(d) /\ Last(hf) = HostFrame(frame)
    BY <1>1, <1>3, FramesFront
  <2>3. HostFrame(frame).stack_base = b
    BY DEF HostFrame
  <2>4. p = Value(t, frame)
    BY <1>3 DEF zvar_frame_pop
  <2>5. h = Value(ht, HostFrame(frame))
    BY <1>1, <1>3, <2>2, <2>3, HostValue, HostEnds, HostWords DEF Host!vm_frame_pop
  <2> HIDE DEF frame, d
  <2>6. ASSUME ~ a
        PROVE  View(t, c) = ht
    <3>1. /\ t.zsmem = s.zsmem /\ t.zsptr = b /\ t.frames = d
          /\ t.globals = s.globals
      BY ZFields DEF ZMachine
    <3>2. cut = Prefix(s.zsmem, b)
      <4>1. /\ s.zsmem \in Seq(Word) /\ s.zsptr \in 0 .. Len(s.zsmem)
            /\ b \in 0 .. s.zsptr
        BY <2>1, <2>6, StackSeq
      <4>2. e = Prefix(s.zsmem, s.zsptr)
        BY DEF View
      <4> HIDE DEF b
      <4> QED
        BY <4>1, <4>2, PrefixCut
    <3>4. ht = Popped(View(s, c), Front(hf), cut)
      BY DEF Popped
    <3> HIDE DEF t, cut, a, b, ht
    <3>3. View(t, c) = Popped(View(s, c), HostFrames(t.frames), Prefix(t.zsmem, t.zsptr))
      BY <3>1, ViewPopped
    <3> QED
      BY <2>2, <3>1, <3>2, <3>3, <3>4
  <2>7. t.astray = a
    BY ZFields DEF ZMachine
  <2> HIDE DEF t, ht, a, p, h
  <2>8. p.ok /\ p.vm = t /\ p.value = frame /\ h.ok /\ h.vm = ht /\ h.value = HostFrame(frame)
    BY <2>4, <2>5, Results
  <2> QED
    BY <2>6, <2>7, <2>8 DEF p, h
<1> QED
  BY <1>2, <1>3

LEMMA LocalSame ==
  ASSUME NEW s, ZMachineOK(s), NEW v \in Var, v # 0, NEW c
  PROVE  /\ Host!IsLocal(View(s, c), v) <=> v <= LocalLimit /\ HasLocal(s, v)
         /\ HasLocal(s, v) => /\ Len(s.frames) # 0
                              /\ Last(View(s, c).frames) = HostFrame(Last(s.frames))
<1> DEFINE f == s.frames
           h == View(s, c).frames
<1>1. f \in Seq(ZFrame) /\ h = HostFrames(f) /\ Len(h) = Len(f) /\ Len(f) \in Nat
  BY ZFields, FramesSeq DEF View, ZFramesOK
<1>2. Len(f) # 0 => Last(h) = HostFrame(Last(f))
  BY <1>1, FramesFront
<1>3. HostFrame(Last(f)).locals = Last(f).locals
  BY DEF HostFrame
<1>4. v \in Nat \ {0} /\ LocalLimit \in Nat
  BY ByteModAssumption, LocalLimitAssumption DEF Var
<1>5. Len(h) > 0 <=> Len(f) # 0
  BY <1>1
<1>6. Host!IsLocal(View(s, c), v)
        <=> v <= LocalLimit /\ Len(f) # 0 /\ v <= Len(Host!Last(h).locals)
  BY <1>4, <1>5 DEF Host!IsLocal
<1>7. Host!Last(h) = Last(h)
  BY HostEnds
<1> HIDE DEF f, h
<1>8. HasLocal(s, v) <=> Len(f) # 0 /\ v <= Len(Last(f).locals)
  BY DEF HasLocal, f
<1>9. Host!IsLocal(View(s, c), v) <=> v <= LocalLimit /\ HasLocal(s, v)
  BY <1>2, <1>3, <1>6, <1>7, <1>8
<1> QED
  BY <1>2, <1>8, <1>9 DEF f, h

LEMMA NamedReadSame ==
  ASSUME NEW s, ZMachineOK(s), NEW v \in Var, v # 0, NEW c
  PROVE  Same(zv_local_or_global_read(s, v), Host!NamedRead(View(s, c), v), c)
<1>0. v <= LocalLimit => v \notin Globals
  <2>1. v \in Nat /\ LocalLimit \in Nat
    BY ByteModAssumption, LocalLimitAssumption DEF Var
  <2> QED
    BY <2>1, GlobalsAssumption
<1> DEFINE local == v <= LocalLimit /\ HasLocal(s, v)
<1>1. CASE local
  <2> DEFINE w == Last(s.frames).locals[v]
  <2>1. zv_local_or_global_read(s, v) = Value(s, w)
    BY <1>1 DEF zv_local_or_global_read
  <2>2. Host!NamedRead(View(s, c), v) = Value(View(s, c), w)
    <3>1. Host!IsLocal(View(s, c), v) /\ Last(View(s, c).frames) = HostFrame(Last(s.frames))
      BY <1>1, LocalSame
    <3>2. HostFrame(Last(s.frames)).locals = Last(s.frames).locals
      BY DEF HostFrame
    <3>3. Host!NamedRead(View(s, c), v) = Host!Value(View(s, c), Host!Last(View(s, c).frames).locals[v])
      BY <3>1 DEF Host!NamedRead
    <3> QED
      BY <3>1, <3>2, <3>3, HostValue, HostEnds
  <2> QED
    BY <2>1, <2>2, ValueSame
<1>2. CASE ~ (v <= LocalLimit) /\ v \in Globals
  <2> DEFINE w == s.globals[v]
  <2>1. zv_local_or_global_read(s, v) = Value(s, w)
    BY <1>2 DEF zv_local_or_global_read
  <2>2. ~ Host!IsLocal(View(s, c), v) /\ View(s, c).globals = s.globals
    BY <1>2, LocalSame DEF View
  <2>3. Host!NamedRead(View(s, c), v) = Value(View(s, c), w)
    BY <1>2, <2>2, HostValue DEF Host!NamedRead
  <2> QED
    BY <2>1, <2>3, ValueSame
<1>3. CASE ~ local /\ ~ (~ (v <= LocalLimit) /\ v \in Globals)
  <2>1. zv_local_or_global_read(s, v) = Fail(s)
    BY <1>3 DEF zv_local_or_global_read
  <2>2. ~ Host!IsLocal(View(s, c), v) /\ v \notin Globals
    BY <1>0, <1>3, LocalSame
  <2>3. Host!NamedRead(View(s, c), v) = Fail(View(s, c))
    BY <2>2, HostFail DEF Host!NamedRead
  <2> QED
    BY <2>1, <2>3, FailSame
<1> QED
  BY <1>1, <1>2, <1>3

LEMMA NamedWriteSame ==
  ASSUME NEW s, ZMachineOK(s), NEW v \in Var, v # 0, NEW w \in Word, NEW c
  PROVE  Same(zv_local_or_global_write(s, v, w), Host!NamedWrite(View(s, c), v, w), c)
<1>0. v <= LocalLimit => v \notin Globals
  <2>1. v \in Nat /\ LocalLimit \in Nat
    BY ByteModAssumption, LocalLimitAssumption DEF Var
  <2> QED
    BY <2>1, GlobalsAssumption
<1> DEFINE local == v <= LocalLimit /\ HasLocal(s, v)
           vw == View(s, c)
<1>1. CASE local
  <2> DEFINE frame == Last(s.frames)
             locals == [frame.locals EXCEPT ![v] = w]
             g == [frame EXCEPT !.locals = locals]
             f == WithTop(s.frames, g)
             t == [s EXCEPT !.frames = f]
             hframe == HostFrame(frame)
             hg == [hframe EXCEPT !.locals = locals]
             h == [vw EXCEPT !.frames = WithTop(vw.frames, hg)]
  <2>1. zv_local_or_global_write(s, v, w) = Done(t)
    BY <1>1 DEF zv_local_or_global_write
  <2>2. Host!IsLocal(vw, v) /\ Last(vw.frames) = hframe /\ Len(s.frames) # 0
    BY <1>1, LocalSame
  <2>3. hframe.locals = frame.locals
    BY DEF HostFrame
  <2>4. Host!NamedWrite(vw, v, w) = Done(h)
    <3>1. Host!Last(vw.frames) = hframe
      BY <2>2, HostEnds
    <3> HIDE DEF vw, hframe
    <3>2. Host!NamedWrite(vw, v, w)
            = Host!Done([vw EXCEPT !.frames = Host!WithTop(vw.frames, hg)])
      BY <2>2, <2>3, <3>1 DEF Host!NamedWrite
    <3> HIDE DEF hg
    <3> QED
      BY <3>2, HostDone, HostWords
  <2>5. frame \in ZFrame /\ Len(frame.locals) <= LocalLimit
    BY <2>2, ZFields, ZFramesTop
  <2>6. locals \in Seq(Word)
    <3>1. frame.locals \in Seq(Word)
      BY <2>5 DEF ZFrame
    <3>2. v \in 1 .. Len(frame.locals)
      <4>1. v \in Nat \ {0}
        BY ByteModAssumption DEF Var
      <4> QED
        BY <1>1, <3>1, <4>1 DEF HasLocal
    <3> HIDE DEF frame
    <3> QED
      BY <3>1, <3>2, ExceptSeq
  <2>7. g \in ZFrame /\ HostFrame(g) = hg
    <3> HIDE DEF frame, locals
    <3>1. g \in ZFrame
      BY <2>5, <2>6 DEF ZFrame
    <3>2. HostFrame(g) = hg
      BY <2>5 DEF ZFrame, HostFrame
    <3> QED
      BY <3>1, <3>2
  <2> HIDE DEF g, hg
  <2>8. HostFrames(f) = WithTop(vw.frames, hg)
    <3>1. s.frames \in Seq(ZFrame) /\ vw.frames = HostFrames(s.frames)
      BY ZFields DEF View, ZFramesOK
    <3> QED
      BY <2>2, <2>7, <3>1, FramesWithTop
  <2>9. View(t, c) = h
    <3> HIDE DEF f
    <3>1. /\ t.zsmem = s.zsmem /\ t.zsptr = s.zsptr /\ t.frames = f
          /\ t.globals = s.globals
      BY ZFields DEF ZMachine
    <3> HIDE DEF t
    <3>2. View(t, c) = [View(s, c) EXCEPT !.frames = HostFrames(t.frames)]
      BY <3>1, ViewFrames
    <3> QED
      BY <2>8, <3>1, <3>2
  <2> HIDE DEF t, h
  <2> QED
    BY <2>1, <2>4, <2>9, DoneSame
<1>2. CASE ~ (v <= LocalLimit) /\ v \in Globals
  <2> DEFINE g == [s.globals EXCEPT ![v] = w]
             t == [s EXCEPT !.globals = g]
             h == [vw EXCEPT !.globals = g]
  <2>1. zv_local_or_global_write(s, v, w) = Done(t)
    BY <1>2 DEF zv_local_or_global_write
  <2>2. ~ Host!IsLocal(vw, v) /\ vw.globals = s.globals
    BY <1>2, LocalSame DEF View
  <2>3. Host!NamedWrite(vw, v, w) = Done(h)
    <3> HIDE DEF vw
    <3> QED
      BY <1>2, <2>2, HostDone DEF Host!NamedWrite
  <2>4. View(t, c) = h
    <3> HIDE DEF g
    <3>1. /\ t.zsmem = s.zsmem /\ t.zsptr = s.zsptr /\ t.frames = s.frames
          /\ t.globals = g
      BY ZFields DEF ZMachine
    <3> HIDE DEF t
    <3>2. View(t, c) = [View(s, c) EXCEPT !.globals = t.globals]
      BY <3>1, ViewGlobals
    <3> QED
      BY <3>1, <3>2
  <2> HIDE DEF t, h
  <2> QED
    BY <2>1, <2>3, <2>4, DoneSame
<1>3. CASE ~ local /\ ~ (~ (v <= LocalLimit) /\ v \in Globals)
  <2>1. zv_local_or_global_write(s, v, w) = Fail(s)
    BY <1>3 DEF zv_local_or_global_write
  <2>2. ~ Host!IsLocal(vw, v) /\ v \notin Globals
    BY <1>0, <1>3, LocalSame
  <2>3. Host!NamedWrite(vw, v, w) = Fail(vw)
    BY <2>2, HostFail DEF Host!NamedWrite
  <2> QED
    BY <2>1, <2>3, FailSame
<1> QED
  BY <1>1, <1>2, <1>3

LEMMA ReadSame ==
  ASSUME NEW s, ZMachineOK(s), NEW v \in Var, NEW c
  PROVE  Same(zvar_read(s, v), Host!vm_read_variable(View(s, c), v), c)
BY PopSame, NamedReadSame DEF zvar_read, Host!vm_read_variable

LEMMA WriteSame ==
  ASSUME NEW s, ZMachineOK(s), NEW v \in Var, NEW w \in Word, NEW c
  PROVE  Same(zvar_write(s, v, w), Host!vm_write_variable(View(s, c), v, w), c)
BY PushSame, NamedWriteSame DEF zvar_write, Host!vm_write_variable

LEMMA ReadIndirectSame ==
  ASSUME NEW s, ZMachineOK(s), NEW v \in Var, NEW c
  PROVE  Same(zvar_read_indirect(s, v), Host!vm_read_variable_indirect(View(s, c), v), c)
<1> DEFINE e == View(s, c).eval
           n == s.zsptr
<1>0. Len(e) = n /\ n \in Nat
  BY StackSeq
<1>1. CASE v # 0
  BY <1>1, NamedReadSame DEF zvar_read_indirect, Host!vm_read_variable_indirect
<1>2. CASE v = 0 /\ n = 0
  <2>1. zvar_read_indirect(s, v) = Fail(s)
    BY <1>2 DEF zvar_read_indirect
  <2>2. Host!vm_read_variable_indirect(View(s, c), v) = Fail(View(s, c))
    BY <1>0, <1>2, HostFail DEF Host!vm_read_variable_indirect
  <2> QED
    BY <2>1, <2>2, FailSame
<1>3. CASE v = 0 /\ n # 0
  <2>1. zvar_read_indirect(s, v) = Value(s, s.zsmem[n])
    BY <1>3 DEF zvar_read_indirect
  <2>2. Host!vm_read_variable_indirect(View(s, c), v) = Value(View(s, c), Last(e))
    BY <1>0, <1>3, HostValue, HostEnds DEF Host!vm_read_variable_indirect
  <2>3. Last(e) = s.zsmem[n]
    <3>1. s.zsmem \in Seq(Word) /\ n \in 1 .. Len(s.zsmem)
      BY <1>0, <1>3, StackSeq
    <3>2. e = Prefix(s.zsmem, n)
      BY DEF View
    <3> QED
      BY <3>1, <3>2, PrefixPop
  <2> QED
    BY <2>1, <2>2, <2>3, ValueSame
<1> QED
  BY <1>1, <1>2, <1>3

LEMMA WriteIndirectSame ==
  ASSUME NEW s, ZMachineOK(s), NEW v \in Var, NEW w \in Word, NEW c
  PROVE  Same(zvar_write_indirect(s, v, w),
              Host!vm_write_variable_indirect(View(s, c), v, w), c)
<1> DEFINE vw == View(s, c)
           e == vw.eval
           n == s.zsptr
<1>0. Len(e) = n /\ n \in Nat
  BY StackSeq
<1>1. CASE v # 0
  BY <1>1, NamedWriteSame DEF zvar_write_indirect, Host!vm_write_variable_indirect
<1>2. CASE v = 0 /\ n = 0
  <2>1. zvar_write_indirect(s, v, w) = Fail(s)
    BY <1>2 DEF zvar_write_indirect
  <2>2. Host!vm_write_variable_indirect(vw, v, w) = Fail(vw)
    BY <1>0, <1>2, HostFail DEF Host!vm_write_variable_indirect
  <2> QED
    BY <2>1, <2>2, FailSame
<1>3. CASE v = 0 /\ n # 0
  <2> DEFINE d == [s.zsmem EXCEPT ![n] = w]
             t == [s EXCEPT !.zsmem = d]
             h == [vw EXCEPT !.eval = WithTop(e, w)]
  <2>1. zvar_write_indirect(s, v, w) = Done(t)
    BY <1>3 DEF zvar_write_indirect
  <2>2. Host!vm_write_variable_indirect(vw, v, w) = Done(h)
    <3> HIDE DEF vw
    <3> QED
      BY <1>0, <1>3, HostDone, HostWords DEF Host!vm_write_variable_indirect
  <2>3. WithTop(e, w) = Prefix(d, n)
    <3>1. s.zsmem \in Seq(Word) /\ n \in 1 .. Len(s.zsmem)
      BY <1>0, <1>3, StackSeq
    <3>2. e = Prefix(s.zsmem, n)
      BY DEF View
    <3> QED
      BY <3>1, <3>2, PrefixTop
  <2>4. View(t, c) = h
    <3> HIDE DEF d
    <3>1. t.zsmem = d /\ t.zsptr = n /\ t.frames = s.frames /\ t.globals = s.globals
      BY ZFields DEF ZMachine
    <3> HIDE DEF t
    <3>2. View(t, c) = [View(s, c) EXCEPT !.eval = Prefix(t.zsmem, t.zsptr)]
      BY <3>1, ViewEval
    <3> QED
      BY <2>3, <3>1, <3>2
  <2> HIDE DEF t, h
  <2> QED
    BY <2>1, <2>2, <2>4, DoneSame
<1> QED
  BY <1>1, <1>2, <1>3

-----------------------------------------------------------------------------
(* The dispatchers' helpers.  From here on the program counter is the       *)
(* port's own: bank and offset as one address.                             *)

Here(s) == Address(s.zdisp_pc_bank, s.zdisp_pc)

\* What is claimed of a routine that may lead the story astray.
Agree(p, h) ==
  ~ p.vm.astray => p.ok = h.ok /\ (p.ok => h.vm = HostVm(p.vm))

LEMMA HostView ==
  ASSUME NEW s
  PROVE  HostVm(s) = View(s, Here(s))
BY DEF HostVm, View, Here, HostFrames

LEMMA DoneAgree ==
  ASSUME NEW s
  PROVE  Agree(Done(s), Done(HostVm(s)))
BY DEF Agree, Done, Value

LEMMA FailAgree ==
  ASSUME NEW s, NEW t
  PROVE  Agree(Fail(s), Fail(t))
BY DEF Agree, Fail

\* A routine that leaves the program counter alone.
LEMMA SameAgree ==
  ASSUME NEW s, NEW p, NEW h, Quiet(s, p), Same(p, h, Here(s))
  PROVE  Agree(p, h)
<1>1. Here(p.vm) = Here(s)
  BY DEF Quiet, Here
<1> QED
  BY <1>1, HostView DEF Same, Agree

LEMMA ViewPc ==
  ASSUME NEW s, NEW t, NEW c, NEW d, t.zsmem = s.zsmem, t.zsptr = s.zsptr,
         t.frames = s.frames, t.globals = s.globals
  PROVE  [View(s, c) EXCEPT !.pc = d] = View(t, d)
BY DEF View

LEMMA ViewSame ==
  ASSUME NEW s, NEW t, NEW c, t.zsmem = s.zsmem, t.zsptr = s.zsptr,
         t.frames = s.frames, t.globals = s.globals
  PROVE  View(s, c) = View(t, c)
BY DEF View

LEMMA FallthroughSame ==
  ASSUME NEW s, ZMachineOK(s), NEW i \in Instrs
  PROVE  /\ Here(Fallthrough(s, i)) = Host!NextPc(HostVm(s), i)
         /\ \A c : View(Fallthrough(s, i), c) = View(s, c)
<1> DEFINE bank == s.zdisp_pc_bank
           offset == s.zdisp_pc
           n == i.length
           sum == offset + n
           p == sum % WordMod
           b == (bank + sum \div WordMod) % Banks
           t == [s EXCEPT !.zdisp_pc = p, !.zdisp_pc_bank = b]
<1>0. bank \in Int /\ offset \in Int /\ n \in Int /\ WordMod \in Int
  BY ZFields, InstrFields, WordModAssumption, BanksAssumption DEF Word, Bank
<1>1. Fallthrough(s, i) = t
  BY DEF Fallthrough
<1>2. Host!NextPc(HostVm(s), i) = (Address(bank, offset) + n) % PcSpace
  <2>1. HostVm(s).pc = Address(bank, offset)
    BY DEF HostVm
  <2> HIDE DEF bank, offset
  <2> QED
    BY <2>1, HostWords DEF Host!NextPc
<1>3. Address(b, p) = (Address(bank, offset) + n) % PcSpace
  <2> HIDE DEF bank, offset, n
  <2>1. sum \in Int /\ bank * WordMod + sum = Address(bank, offset) + n
    BY <1>0 DEF Address
  <2> HIDE DEF sum
  <2>2. Address(b, p) = (bank * WordMod + sum) % PcSpace
    BY <1>0, <2>1, WideSum
  <2> QED
    BY <2>1, <2>2
<1> HIDE DEF p, b
<1>4. /\ t.zdisp_pc = p /\ t.zdisp_pc_bank = b /\ t.zsmem = s.zsmem /\ t.zsptr = s.zsptr
      /\ t.frames = s.frames /\ t.globals = s.globals
  BY ZFields DEF ZMachine
<1> HIDE DEF t
<1>5. \A c : View(t, c) = View(s, c)
  BY <1>4 DEF View
<1> QED
  BY <1>1, <1>2, <1>3, <1>4, <1>5 DEF Here

\* A return's frame is taken down before the result is written; in between the
\* result waits in a scratch word, where the port's stacks do not reach it.
LEMMA ReturnSame ==
  ASSUME NEW s, ZMachineOK(s), NEW v \in Word, NEW c
  PROVE  Agree(zdisp_return(s, v), Host!do_return(View(s, c), v))
<1> DEFINE u == [s EXCEPT !.zdisp_value = v]
           r == zvar_frame_pop(u)
           g == Host!vm_frame_pop(View(s, c))
           p == r.value.return_pc
           b == r.value.return_pc_bank
           st == r.value.store_variable
           q == [r.vm EXCEPT !.zdisp_pc = p, !.zdisp_pc_bank = b]
           hq == [g.vm EXCEPT !.pc = g.value.return_pc]
           w == zvar_write(q, st, v)
           hw == Host!vm_write_variable(hq, g.value.store_variable, v)
<1>1. /\ ZMachineOK(u) /\ u.zdisp_value = v
      /\ u.zsmem = s.zsmem /\ u.zsptr = s.zsptr
      /\ u.frames = s.frames /\ u.globals = s.globals
  BY PutValue, ZFields DEF ZMachine
<1> HIDE DEF u
<1>2. View(s, c) = View(u, c)
  BY <1>1, ViewSame
<1>3. Quiet(u, r) /\ (r.ok => r.value \in ZFrame)
  BY <1>1, ZFramePopOK
<1>4. ~ r.vm.astray =>
        /\ r.ok = g.ok
        /\ r.ok => g.vm = View(r.vm, c) /\ g.value = HostFrame(r.value)
  BY <1>1, <1>2, FramePopSame
<1>5. zdisp_return(s, v) =
        IF r.ok THEN zvar_write(q, st, r.vm.zdisp_value) ELSE r
  BY DEF zdisp_return, Then, u
<1>6. Host!do_return(View(s, c), v) = IF g.ok THEN hw ELSE g
  BY DEF Host!do_return, Host!Then
<1> HIDE DEF r, g
<1>7. CASE r.ok
  <2>1. p \in Word /\ b \in Bank /\ st \in Var
    BY <1>3, <1>7 DEF ZFrame
  <2>2. ZMachineOK(r.vm) /\ r.vm.zdisp_value = v
    BY <1>1, <1>3 DEF Quiet, Kept
  <2>3. HostFrame(r.value).return_pc = Address(b, p) /\ HostFrame(r.value).store_variable = st
    BY DEF HostFrame
  <2> HIDE DEF p, b, st
  <2>4. ZMachineOK([r.vm EXCEPT !.zdisp_pc = p, !.zdisp_pc_bank = b])
    BY <2>1, <2>2, PutPc, Zenon
  <2>5. /\ q.zdisp_pc = p /\ q.zdisp_pc_bank = b /\ q.astray = r.vm.astray
        /\ q.zsmem = r.vm.zsmem /\ q.zsptr = r.vm.zsptr
        /\ q.frames = r.vm.frames /\ q.globals = r.vm.globals
    BY <2>2, ZFields DEF ZMachine
  <2>6. ZMachineOK(q)
    BY <2>4
  <2> HIDE DEF q
  <2>7. Quiet(q, w)
    BY <2>1, <2>6, ZWriteOK
  <2>8. ASSUME ~ w.vm.astray
        PROVE  g.ok /\ hw = Host!vm_write_variable(View(q, Here(q)), st, v)
    <3>1. ~ r.vm.astray
      BY <2>5, <2>7, <2>8 DEF Quiet, Kept
    <3>2. g.ok /\ g.vm = View(r.vm, c) /\ g.value = HostFrame(r.value)
      BY <1>4, <1>7, <3>1
    <3>3. hq = View(q, Here(q))
      <4>1. [View(r.vm, c) EXCEPT !.pc = Address(b, p)] = View(q, Address(b, p))
        BY <2>5, ViewPc
      <4>2. Here(q) = Address(b, p)
        BY <2>5 DEF Here
      <4> QED
        BY <2>3, <3>2, <4>1, <4>2
    <3> HIDE DEF hq
    <3> QED
      BY <2>3, <3>2, <3>3
  <2>9. Same(w, Host!vm_write_variable(View(q, Here(q)), st, v), Here(q))
    BY <2>1, <2>6, WriteSame
  <2>10. zdisp_return(s, v) = w
    BY <1>5, <1>7, <2>2
  <2> HIDE DEF w, hw
  <2>11. Agree(w, Host!vm_write_variable(View(q, Here(q)), st, v))
    BY <2>7, <2>9, SameAgree
  <2> QED
    BY <1>6, <2>8, <2>10, <2>11 DEF Agree
<1>8. CASE ~ r.ok
  BY <1>4, <1>5, <1>6, <1>8 DEF Agree
<1> QED
  BY <1>7, <1>8

\* A jump whose distance fits a word lands on the same byte.
LEMMA JumpSame ==
  ASSUME NEW s, ZMachineOK(s), NEW delta \in Int
  PROVE  Agree(Done(JumpBy(s, delta)),
               Done([HostVm(s) EXCEPT !.pc = (HostVm(s).pc + delta - 2) % PcSpace]))
<1> DEFINE bank == s.zdisp_pc_bank
           offset == s.zdisp_pc
           word == (delta - 2) % WordMod
           target == zwide_add_signed(bank, offset, word)
           p == target.offset
           b == target.bank
           a == s.astray \/ Signed(word) # delta - 2
           t == [s EXCEPT !.zdisp_pc = p, !.zdisp_pc_bank = b, !.astray = a]
           x == (HostVm(s).pc + delta - 2) % PcSpace
           h == [HostVm(s) EXCEPT !.pc = x]
<1>0. bank \in Int /\ offset \in Int /\ WordMod \in Int
  BY ZFields, WordModAssumption, BanksAssumption DEF Word, Bank
<1>1. JumpBy(s, delta) = t
  BY DEF JumpBy
<1>2. Signed(word) = delta - 2 => Address(b, p) = x
  <2>1. HostVm(s).pc = Address(bank, offset)
    BY DEF HostVm
  <2> DEFINE sum == offset + Signed(word)
  <2>2. p = sum % WordMod /\ b = (bank + sum \div WordMod) % Banks
    BY DEF zwide_add_signed
  <2> SUFFICES ASSUME Signed(word) = delta - 2
               PROVE  Address(b, p) = x
    OBVIOUS
  <2>3. sum = offset + (delta - 2)
    OBVIOUS
  <2> HIDE DEF bank, offset, word, p, b, target, sum
  <2>4. sum \in Int /\ bank * WordMod + sum = Address(bank, offset) + delta - 2
    BY <1>0, <2>3 DEF Address
  <2>5. Address((bank + sum \div WordMod) % Banks, sum % WordMod)
          = (bank * WordMod + sum) % PcSpace
    BY <1>0, <2>4, WideSum
  <2> QED
    BY <2>1, <2>2, <2>4, <2>5
<1> HIDE DEF p, b, a, x, word, target
<1>3. /\ t.zdisp_pc = p /\ t.zdisp_pc_bank = b /\ t.astray = a
      /\ t.zsmem = s.zsmem /\ t.zsptr = s.zsptr
      /\ t.frames = s.frames /\ t.globals = s.globals
  BY ZFields DEF ZMachine
<1> HIDE DEF t
<1>4. ~ a => HostVm(t) = h
  <2> SUFFICES ASSUME ~ a
               PROVE  HostVm(t) = h
    OBVIOUS
  <2>1. Here(t) = x
    BY <1>2, <1>3 DEF Here, a
  <2>2. HostVm(s) = View(s, Here(s)) /\ HostVm(t) = View(t, Here(t))
    BY HostView
  <2>3. [View(s, Here(s)) EXCEPT !.pc = x] = View(t, x)
    BY <1>3, ViewPc
  <2> QED
    BY <2>1, <2>2, <2>3
<1> HIDE DEF h
<1>5. Agree(Done(t), Done(h))
  BY <1>3, <1>4, Results DEF Agree
<1> QED
  BY <1>1, <1>5, Zenon DEF h, x

LEMMA BranchSame ==
  ASSUME NEW s, ZMachineOK(s), NEW i \in Instrs, NEW c
  PROVE  Agree(zdisp_branch(s, i, c), Host!do_branch(HostVm(s), i, c))
<1>1. CASE c # i.on_true
  <2>1. zdisp_branch(s, i, c) = Done(s)
    BY <1>1 DEF zdisp_branch
  <2>2. Host!do_branch(HostVm(s), i, c) = Done(HostVm(s))
    BY <1>1, HostDone DEF Host!do_branch
  <2> QED
    BY <2>1, <2>2, DoneAgree
<1>2. ASSUME c = i.on_true, NEW v \in {0, 1}, i.offset = v
      PROVE  Agree(zdisp_branch(s, i, c), Host!do_branch(HostVm(s), i, c))
  <2>1. zdisp_branch(s, i, c) = zdisp_return(s, v)
    BY <1>2 DEF zdisp_branch
  <2>2. Host!do_branch(HostVm(s), i, c) = Host!do_return(View(s, Here(s)), v)
    BY <1>2, HostView DEF Host!do_branch
  <2> QED
    BY <2>1, <2>2, ReturnSame, SmallWords
<1>3. CASE c = i.on_true /\ i.offset \notin {0, 1}
  <2> DEFINE t == JumpBy(s, i.offset)
             h == [HostVm(s) EXCEPT !.pc = (HostVm(s).pc + i.offset - 2) % PcSpace]
  <2>1. zdisp_branch(s, i, c) = Done(t)
    BY <1>3 DEF zdisp_branch
  <2>2. Host!do_branch(HostVm(s), i, c) = Done(h)
    BY <1>3, HostDone, HostWords DEF Host!do_branch
  <2>3. Agree(Done(t), Done(h))
    BY JumpSame, InstrFields
  <2> QED
    BY <2>1, <2>2, <2>3
<1> QED
  BY <1>1, <1>2, <1>3

\* The first instruction of a routine, behind its header.
LEMMA EntrySame ==
  ASSUME NEW x \in Word, NEW n \in 0 .. LocalLimit
  PROVE  LET entry == zwide_add_signed((2 * x) \div WordMod, (2 * x) % WordMod, 1 + 2 * n)
         IN  Address(entry.bank, entry.offset) = RoutineEntry(x, n)
<1> DEFINE m == 2 * x
           q == m \div WordMod
           r == m % WordMod
           d == 1 + 2 * n
           entry == zwide_add_signed(q, r, d)
           sum == r + Signed(d)
<1>0. /\ WordMod \in Nat \ {0} /\ Banks \in Nat \ {0} /\ LocalLimit \in Nat
      /\ m \in Int /\ d \in Int /\ x \in Int /\ n \in Int
  BY WordModAssumption, BanksAssumption, LocalLimitAssumption DEF Word
<1>1. entry.offset = sum % WordMod /\ entry.bank = (q + sum \div WordMod) % Banks
  BY DEF zwide_add_signed
<1>2. q \in Int /\ r \in Int /\ m = WordMod * q + r
  <2> HIDE DEF m
  <2> QED
    BY <1>0, Division
<1>3. RoutineEntry(x, n) = (m + d) % PcSpace
  <2>1. 2 * x + 1 + 2 * n = m + d
    BY <1>0
  <2> QED
    BY <2>1 DEF RoutineEntry
<1> HIDE DEF entry, m, q, r
<1>4. Signed(d) = d \/ (Banks = 1 /\ Signed(d) = d - WordMod)
  BY <1>0, HeaderAssumption DEF Signed
<1> HIDE DEF d
<1>5. sum \in Int /\ Signed(d) \in Int
  BY <1>0, <1>2, <1>4
<1>6. Address(entry.bank, entry.offset) = (q * WordMod + sum) % PcSpace
  <2> HIDE DEF sum
  <2> QED
    BY <1>1, <1>2, <1>5, WideSum
<1>7. CASE Signed(d) = d
  <2>1. q * WordMod + sum = m + d
    BY <1>0, <1>2, <1>7
  <2> QED
    BY <1>3, <1>6, <2>1 DEF entry, m, q, r, d
<1>8. CASE Banks = 1 /\ Signed(d) = d - WordMod
  <2>1. q * WordMod + sum = (m + d) - WordMod /\ PcSpace = WordMod
    BY <1>0, <1>2, <1>8 DEF PcSpace
  <2>2. ((m + d) - WordMod) % WordMod = (m + d) % WordMod
    <3> DEFINE y == m + d
               k == y \div WordMod
               l == y % WordMod
    <3>1. y \in Int
      BY <1>0
    <3> HIDE DEF y
    <3>2. k \in Int /\ l \in 0 .. WordMod - 1 /\ y = WordMod * k + l
      BY <1>0, <3>1, Division
    <3> HIDE DEF k, l
    <3>3. k - 1 \in Int /\ y - WordMod = (k - 1) * WordMod + l /\ y - WordMod \in Int
      BY <1>0, <3>1, <3>2
    <3>4. (y - WordMod) % WordMod = l
      BY <1>0, <3>2, <3>3, ModUnique
    <3> QED
      BY <3>4 DEF y, l
  <2> QED
    BY <1>3, <1>6, <2>1, <2>2 DEF entry, m, q, r, d
<1> QED
  BY <1>4, <1>7, <1>8

LEMMA CallLocalsSame ==
  ASSUME NEW h \in Seq(Word), NEW x \in Seq(Word)
  PROVE  Host!CallLocals(h, x) = CallLocals(h, x)
<1>1. Len(x) \in Nat /\ Len(h) \in Nat
  OBVIOUS
<1>2. \A k \in 1 .. Len(h) : k < Len(x) <=> k + 1 <= Len(x)
  BY <1>1
<1> QED
  BY <1>2 DEF Host!CallLocals, CallLocals

LEMMA CallSame ==
  ASSUME NEW s, ZMachineOK(s), NEW i \in Instrs, NEW x \in Seq(Word), Len(x) >= 1
  PROVE  Agree(zdisp_do_call(s, i, x), Host!do_call(HostVm(s), i, x))
<1> DEFINE vw == View(s, Here(s))
<1>0. HostVm(s) = vw /\ i.store \in Var /\ x[1] \in Word
  BY HostView, InstrFields
<1>1. CASE x[1] = 0
  <2>1. zdisp_do_call(s, i, x) = zvar_write(s, i.store, 0)
    BY <1>1 DEF zdisp_do_call
  <2>2. Host!do_call(HostVm(s), i, x) = Host!vm_write_variable(vw, i.store, 0)
    BY <1>0, <1>1 DEF Host!do_call
  <2>3. Same(zvar_write(s, i.store, 0), Host!vm_write_variable(vw, i.store, 0), Here(s))
    BY <1>0, SmallWords, WriteSame
  <2>4. Quiet(s, zvar_write(s, i.store, 0))
    BY <1>0, SmallWords, ZWriteOK
  <2> QED
    BY <2>1, <2>2, <2>3, <2>4, SameAgree
<1>2. CASE x[1] # 0 /\ x[1] \notin DOMAIN RoutineHeader
  <2>1. zdisp_do_call(s, i, x) = Fail(s)
    BY <1>2 DEF zdisp_do_call
  <2>2. Host!do_call(HostVm(s), i, x) = Fail(HostVm(s))
    BY <1>2, HostFail DEF Host!do_call
  <2> QED
    BY <2>1, <2>2, FailAgree
<1>3. CASE x[1] # 0 /\ x[1] \in DOMAIN RoutineHeader
  <2> DEFINE header == RoutineHeader[x[1]]
             locals == CallLocals(header, x)
             r == zvar_frame_push(s, s.zdisp_pc, s.zdisp_pc_bank, i.store, locals)
             g == Host!vm_frame_push(vw, Here(s), i.store, locals)
             entry == zwide_add_signed((2 * x[1]) \div WordMod, (2 * x[1]) % WordMod,
                                       1 + 2 * Len(header))
             p == entry.offset
             b == entry.bank
             e == RoutineEntry(x[1], Len(header))
             t == [r.vm EXCEPT !.zdisp_pc = p, !.zdisp_pc_bank = b]
             h == [g.vm EXCEPT !.pc = e]
  <2>1. header \in Seq(Word) /\ locals \in Seq(Word) /\ Len(locals) = Len(header)
    BY <1>3, RoutineAssumption, CallLocalsOK
  <2>2. Quiet(s, r) /\ Same(r, g, Here(s))
    BY <1>0, <2>1, ZFramePushOK, ZFields, FramePushSame DEF Here
  <2>3. zdisp_do_call(s, i, x) = IF r.ok THEN Done(t) ELSE r
    BY <1>3 DEF zdisp_do_call, Then
  <2>4. Host!do_call(HostVm(s), i, x) = IF g.ok THEN Done(h) ELSE g
    <3>1. Host!CallLocals(header, x) = locals
      BY <2>1, CallLocalsSame
    <3>2. HostVm(s).pc = Here(s)
      BY DEF HostVm, Here
    <3> HIDE DEF locals, header, vw
    <3>3. Host!do_call(HostVm(s), i, x)
            = IF g.ok THEN Host!Done(h) ELSE g
      BY <1>0, <1>3, <3>1, <3>2, HostWords DEF Host!do_call, Host!Then, header
    <3> QED
      BY <3>3, HostDone
  <2>5. r.ok => Len(header) \in 0 .. LocalLimit
    <3>1. r.ok => ~ (Len(locals) > LocalLimit)
      BY Results DEF zvar_frame_push
    <3>2. Len(header) \in Nat /\ LocalLimit \in Nat
      BY <2>1, LocalLimitAssumption
    <3> HIDE DEF r, locals, header
    <3> QED
      BY <2>1, <3>1, <3>2
  <2>6. r.ok => Address(b, p) = e
    BY <1>0, <2>5, EntrySame
  <2> HIDE DEF r, g, entry, p, b, e, header, locals
  <2>7. CASE r.ok
    <3>1. /\ t.zdisp_pc = p /\ t.zdisp_pc_bank = b
          /\ t.zsmem = r.vm.zsmem /\ t.zsptr = r.vm.zsptr
          /\ t.frames = r.vm.frames /\ t.globals = r.vm.globals
      BY <2>2, ZFields DEF ZMachine, Quiet, Kept
    <3> HIDE DEF t
    <3>2. g.ok /\ g.vm = View(r.vm, Here(s)) /\ Here(t) = e
      BY <2>2, <2>6, <2>7, <3>1 DEF Same, Here
    <3>3. h = HostVm(t)
      <4>1. [View(r.vm, Here(s)) EXCEPT !.pc = e] = View(t, e)
        BY <3>1, ViewPc
      <4> QED
        BY <3>2, <4>1, HostView
    <3> HIDE DEF h
    <3> QED
      BY <2>3, <2>4, <2>7, <3>2, <3>3, DoneAgree
  <2>8. CASE ~ r.ok
    BY <2>2, <2>3, <2>4, <2>8 DEF Same, Agree
  <2> QED
    BY <2>7, <2>8
<1> QED
  BY <1>1, <1>2, <1>3

LEMMA ResolveOneSame ==
  ASSUME NEW r, NEW g, NEW c, Same(r, g, c), ZMachineOK(r.vm), NEW i \in Instrs,
         NEW k \in Nat \ {0}
  PROVE  Same(ResolveOne(r, i, k), Host!ResolveOne(g, i, k), c)
<1> DEFINE operand == i.operands[k]
           v == VarOf(operand.raw)
           w == operand.raw
           read == IF operand.type = "variable" THEN zvar_read(r.vm, v) ELSE Value(r.vm, w)
           hread == IF operand.type = "variable"
                    THEN Host!vm_read_variable(g.vm, v) ELSE Value(g.vm, w)
           q == Value(read.vm, Append(r.value, read.value))
           h == Value(hread.vm, Append(g.value, hread.value))
           n == Len(i.operands)
<1>0. n \in Nat
  BY InstrFields
<1>1. CASE ~ r.ok \/ k > n
  <2>1. ResolveOne(r, i, k) = r
    BY <1>1 DEF ResolveOne
  <2>2. Host!ResolveOne(g, i, k) = g
    BY <1>1 DEF Host!ResolveOne, Same
  <2> QED
    BY <2>1, <2>2
<1>2. CASE r.ok /\ ~ (k > n)
  <2>1. operand \in Operand
    BY <1>0, <1>2, InstrFields
  <2>2. w \in Word /\ v \in Var
    BY <2>1, VarOfOK DEF Operand
  <2>3. ResolveOne(r, i, k) = IF read.ok THEN q ELSE read
    BY <1>2 DEF ResolveOne, Then
  <2>4. Host!ResolveOne(g, i, k) = IF hread.ok THEN h ELSE hread
    BY <1>2, HostWords, HostValue DEF Host!ResolveOne, Host!Then, Same
  <2>5. g.ok /\ g.vm = View(r.vm, c) /\ g.value = r.value
    BY <1>2 DEF Same
  <2> HIDE DEF v, w
  <2>6. Same(read, hread, c)
    <3>1. CASE operand.type = "variable"
      BY <2>2, <2>5, <3>1, ReadSame
    <3>2. CASE operand.type # "variable"
      BY <2>5, <3>2, ValueSame
    <3> QED
      BY <3>1, <3>2
  <2> HIDE DEF read, hread
  <2>7. CASE read.ok
    <3>1. hread.ok /\ hread.vm = View(read.vm, c) /\ hread.value = read.value
      BY <2>6, <2>7 DEF Same
    <3>2. h = Value(View(read.vm, c), Append(r.value, read.value))
      BY <2>5, <3>1
    <3>3. Same(q, h, c)
      BY <3>2, ValueSame
    <3> QED
      BY <2>3, <2>4, <2>7, <3>1, <3>3
  <2>8. CASE ~ read.ok
    BY <2>3, <2>4, <2>6, <2>8 DEF Same
  <2> QED
    BY <2>7, <2>8
<1> QED
  BY <1>1, <1>2

\* The operands, from left to right: the port resolves them with the program
\* counter already moved, which none of them can see.
LEMMA ResolveSame ==
  ASSUME NEW s, ZMachineOK(s), NEW i \in Instrs, NEW c
  PROVE  Same(zds_resolve_loop(s, i), Host!resolve_operands(View(s, c), i), c)
<1> DEFINE r0 == Value(s, <<>>)
           r1 == ResolveOne(r0, i, 1)
           r2 == ResolveOne(r1, i, 2)
           r3 == ResolveOne(r2, i, 3)
           r4 == ResolveOne(r3, i, 4)
           g0 == Value(View(s, c), <<>>)
           g1 == Host!ResolveOne(g0, i, 1)
           g2 == Host!ResolveOne(g1, i, 2)
           g3 == Host!ResolveOne(g2, i, 3)
           g4 == Host!ResolveOne(g3, i, 4)
<1>1. ZResolvedOK(s, r0, i, 0) /\ Same(r0, g0, c)
  <2>1. r0.ok /\ r0.vm = s /\ r0.value = <<>> /\ Quiet(s, r0)
    BY Results, Unchanged
  <2>2. Same(r0, g0, c)
    BY ValueSame
  <2> HIDE DEF r0, g0
  <2>3. r0.value \in Seq(Word) /\ Len(r0.value) = 0 /\ Len(i.operands) \in Nat
    BY <2>1, InstrFields
  <2> QED
    BY <2>1, <2>2, <2>3 DEF ZResolvedOK
<1>2. zds_resolve_loop(s, i) = r4
  BY DEF zds_resolve_loop
<1>3. Host!resolve_operands(View(s, c), i) = g4
  BY HostValue DEF Host!resolve_operands
<1>4. \A r, k : ZResolvedOK(s, r, i, k) => ZMachineOK(r.vm)
  BY DEF ZResolvedOK, Quiet, Kept
<1> HIDE DEF r0, g0
<1>5. ZResolvedOK(s, r1, i, 1) /\ Same(r1, g1, c)
  BY <1>1, <1>4, ZResolveOneOK, ResolveOneSame, 0 + 1 = 1
<1> HIDE DEF r1, g1
<1>6. ZResolvedOK(s, r2, i, 2) /\ Same(r2, g2, c)
  BY <1>4, <1>5, ZResolveOneOK, ResolveOneSame, 1 + 1 = 2
<1> HIDE DEF r2, g2
<1>7. ZResolvedOK(s, r3, i, 3) /\ Same(r3, g3, c)
  BY <1>4, <1>6, ZResolveOneOK, ResolveOneSame, 2 + 1 = 3
<1> HIDE DEF r3, g3
<1>8. Same(r4, g4, c)
  BY <1>4, <1>7, ResolveOneSame
<1> QED
  BY <1>2, <1>3, <1>8

\* The updated word is the reference's, and waits in zdisp_value; the threshold
\* of inc_chk and dec_chk stays in zdisp_value2.
LEMMA AddSame ==
  ASSUME NEW s, ZMachineOK(s), NEW v \in Var, NEW d \in Int
  PROVE  LET p == AddIndirect(s, v, d)
             h == Host!AddIndirect(HostVm(s), v, d)
         IN  /\ p.ok = h.ok
             /\ p.ok => /\ h.vm = HostVm(p.vm) /\ h.value = p.vm.zdisp_value
                        /\ h.value \in Word
             /\ p.vm.zdisp_value2 = s.zdisp_value2
<1> DEFINE c == Here(s)
           r == zvar_read_indirect(s, v)
           g == Host!vm_read_variable_indirect(View(s, c), v)
           w == (r.value + d) % WordMod
           u == [r.vm EXCEPT !.zdisp_value = w]
           q == zvar_write_indirect(u, v, w)
           hw == (g.value + d) % WordMod
           hq == Host!vm_write_variable_indirect(g.vm, v, hw)
           h == Value(hq.vm, hw)
<1>1. Quiet(s, r) /\ (r.ok => r.value \in Word) /\ Same(r, g, c)
  BY ZReadIndirectOK, ReadIndirectSame
<1>2. AddIndirect(s, v, d) = IF r.ok THEN q ELSE r
  BY DEF AddIndirect, Then
<1>3. Host!AddIndirect(HostVm(s), v, d) = IF g.ok THEN (IF hq.ok THEN h ELSE hq) ELSE g
  BY HostView, HostValue DEF Host!AddIndirect, Host!Then
<1> HIDE DEF r, g
<1>4. CASE r.ok
  <2>1. g.ok /\ g.vm = View(r.vm, c) /\ g.value = r.value /\ hw = w
    BY <1>1, <1>4 DEF Same
  <2>2. r.value + d \in Int
    BY <1>1, <1>4, WordModAssumption DEF Word
  <2>3. w \in Word /\ ZMachineOK(r.vm)
    BY <1>1, <2>2, WordWrapOK DEF Quiet, Kept
  <2> HIDE DEF w, hw
  <2>4. /\ ZMachineOK(u) /\ u.zdisp_value = w /\ u.zdisp_value2 = r.vm.zdisp_value2
        /\ u.zdisp_pc = r.vm.zdisp_pc /\ u.zdisp_pc_bank = r.vm.zdisp_pc_bank
        /\ u.zsmem = r.vm.zsmem /\ u.zsptr = r.vm.zsptr
        /\ u.frames = r.vm.frames /\ u.globals = r.vm.globals
    BY <2>3, PutValue, ZFields DEF ZMachine
  <2> HIDE DEF u
  <2>5. View(r.vm, c) = View(u, c) /\ Here(u) = c
    BY <1>1, <2>4, ViewSame DEF Quiet, Here
  <2>6. Quiet(u, q) /\ Same(q, hq, c)
    <3>1. hq = Host!vm_write_variable_indirect(View(u, c), v, w)
      BY <2>1, <2>5
    <3> QED
      BY <2>3, <2>4, <3>1, ZWriteIndirectOK, WriteIndirectSame
  <2>7. h.ok /\ h.vm = hq.vm /\ h.value = w
    BY <2>1, Results
  <2> HIDE DEF q, hq, h, c
  <2>8. q.vm.zdisp_value = w /\ q.vm.zdisp_value2 = s.zdisp_value2
    BY <1>1, <2>4, <2>6 DEF Quiet
  <2>9. q.ok = hq.ok /\ (q.ok => hq.vm = HostVm(q.vm))
    <3>1. Here(q.vm) = c
      BY <2>5, <2>6 DEF Quiet, Here
    <3> QED
      BY <2>6, <3>1, HostView DEF Same
  <2>10. AddIndirect(s, v, d) = q
    BY <1>2, <1>4
  <2>11. Host!AddIndirect(HostVm(s), v, d) = IF hq.ok THEN h ELSE hq
    BY <1>3, <2>1
  <2> QED
    BY <2>3, <2>7, <2>8, <2>9, <2>10, <2>11
<1>5. CASE ~ r.ok
  BY <1>1, <1>2, <1>3, <1>5 DEF Same, Quiet
<1> QED
  BY <1>4, <1>5

-----------------------------------------------------------------------------
(* The opcodes.                                                            *)

\* Two scratch words are as good as any to the reference.
LEMMA ScratchSame ==
  ASSUME NEW s, ZMachineOK(s), NEW v \in Word, NEW w \in Word
  PROVE  LET a == [s EXCEPT !.zdisp_value = v]
             b == [s EXCEPT !.zdisp_value2 = w]
         IN  /\ ZMachineOK(a) /\ HostVm(a) = HostVm(s) /\ a.zdisp_value = v
             /\ a.zdisp_pc = s.zdisp_pc /\ a.zdisp_pc_bank = s.zdisp_pc_bank
             /\ ZMachineOK(b) /\ HostVm(b) = HostVm(s) /\ b.zdisp_value2 = w
<1> DEFINE a == [s EXCEPT !.zdisp_value = v]
           b == [s EXCEPT !.zdisp_value2 = w]
<1>1. /\ ZMachineOK(a) /\ a.zdisp_value = v
      /\ a.zdisp_pc = s.zdisp_pc /\ a.zdisp_pc_bank = s.zdisp_pc_bank
      /\ a.zsmem = s.zsmem /\ a.zsptr = s.zsptr
      /\ a.frames = s.frames /\ a.globals = s.globals
  BY PutValue, ZFields DEF ZMachine
<1>2. /\ ZMachineOK(b) /\ b.zdisp_value2 = w
      /\ b.zdisp_pc = s.zdisp_pc /\ b.zdisp_pc_bank = s.zdisp_pc_bank
      /\ b.zsmem = s.zsmem /\ b.zsptr = s.zsptr
      /\ b.frames = s.frames /\ b.globals = s.globals
  BY PutValue2, ZFields DEF ZMachine
<1> HIDE DEF a, b
<1>3. HostVm(a) = HostVm(s) /\ HostVm(b) = HostVm(s)
  BY <1>1, <1>2 DEF HostVm
<1> QED
  BY <1>1, <1>2, <1>3 DEF a, b

\* jin, test, je, jz and the others that only branch.
LEMMA BranchingSame ==
  ASSUME NEW s, ZMachineOK(s), NEW i, NEW x, Good(i, x)
  PROVE  /\ Agree(zds_je(s, i, x), Host!step_je(HostVm(s), i, x))
         /\ Agree(zds_jz(s, i, x), Host!step_jz(HostVm(s), i, x))
         /\ Agree(zds_test(s, i, x), Host!step_test(HostVm(s), i, x))
<1>1. \A c : Agree(zdisp_branch(s, i, c), Host!do_branch(HostVm(s), i, c))
  BY BranchSame DEF Good
<1> QED
  BY <1>1 DEF zds_je, zds_jz, zds_test, Host!step_je, Host!step_jz, Host!step_test

LEMMA ReturningSame ==
  ASSUME NEW s, ZMachineOK(s), NEW i, NEW x, Good(i, x)
  PROVE  /\ i.op = "ret" => Agree(zds_ret(s, i, x), Host!step_ret(HostVm(s), i, x))
         /\ Agree(zds_rtrue(s, i, x), Host!step_rtrue(HostVm(s), i, x))
         /\ Agree(zds_rfalse(s, i, x), Host!step_rfalse(HostVm(s), i, x))
         /\ i.op = "print_ret" =>
              Agree(zds_print_ret(s, i, x), Host!step_print_ret(HostVm(s), i, x))
<1>1. \A v \in Word : Agree(zdisp_return(s, v), Host!do_return(HostVm(s), v))
  BY ReturnSame, HostView
<1>2. i.op = "ret" => x[1] \in Word
  BY OperandsOK DEF Arity
<1>3. i.op = "print_ret" => Host!step_print_ret(HostVm(s), i, x) = Host!do_return(HostVm(s), 1)
  <2> SUFFICES ASSUME i.op = "print_ret"
               PROVE  Host!step_print_ret(HostVm(s), i, x) = Host!do_return(HostVm(s), 1)
    OBVIOUS
  <2>1. DOMAIN i.writes = {}
    BY PrintAssumption DEF Good
  <2>2. HostVm(s).globals = s.globals /\ s.globals = [g \in Globals |-> s.globals[g]]
    BY DEF HostVm, ZMachineOK, ZMachine
  <2>3. Host!Written(HostVm(s).globals, i) = HostVm(s).globals
    BY <2>1, <2>2 DEF Host!Written
  <2>4. [HostVm(s) EXCEPT !.globals = HostVm(s).globals] = HostVm(s)
    BY DEF HostVm
  <2> QED
    BY <2>3, <2>4 DEF Host!step_print_ret
<1> QED
  BY <1>1, <1>2, <1>3, SmallWords DEF zds_ret, zds_rtrue, zds_rfalse, zds_print_ret,
     Host!step_ret, Host!step_rtrue, Host!step_rfalse

\* The opcodes that move one word.
LEMMA MovingSame ==
  ASSUME NEW s, ZMachineOK(s), NEW i, NEW x, Good(i, x)
  PROVE  /\ i.op = "store" => Agree(zds_store(s, i, x), Host!step_store(HostVm(s), i, x))
         /\ Agree(zds_result(s, i, x), Host!step_result(HostVm(s), i, x))
         /\ i.op = "push" => Agree(zds_push(s, i, x), Host!step_push(HostVm(s), i, x))
         /\ Agree(zds_pop(s, i, x), Host!step_pop(HostVm(s), i, x))
<1>0. HostVm(s) = View(s, Here(s)) /\ i.store \in Var /\ i.result \in Word
  BY HostView, InstrFields DEF Good
<1>1. i.op \in {"store", "push"} => x[1] \in Word /\ VarOf(x[1]) \in Var
  BY OperandsOK DEF Arity
<1>2. i.op = "store" => x[2] \in Word
  BY OperandsOK DEF Arity
<1>3. i.op = "store" => Agree(zds_store(s, i, x), Host!step_store(HostVm(s), i, x))
  <2> DEFINE v == VarOf(x[1])
  <2> SUFFICES ASSUME i.op = "store"
               PROVE  Agree(zds_store(s, i, x), Host!step_store(HostVm(s), i, x))
    OBVIOUS
  <2>1. v \in Var /\ x[2] \in Word
    BY <1>1, <1>2
  <2>2. zds_store(s, i, x) = zvar_write_indirect(s, v, x[2])
    BY DEF zds_store
  <2>3. Host!step_store(HostVm(s), i, x)
          = Host!vm_write_variable_indirect(View(s, Here(s)), v, x[2])
    BY <1>0, HostWords DEF Host!step_store
  <2> HIDE DEF v
  <2> QED
    BY <2>1, <2>2, <2>3, WriteIndirectSame, ZWriteIndirectOK, SameAgree
<1>4. Agree(zds_result(s, i, x), Host!step_result(HostVm(s), i, x))
  BY <1>0, WriteSame, ZWriteOK, SameAgree DEF zds_result, Host!step_result
<1>5. i.op = "push" => Agree(zds_push(s, i, x), Host!step_push(HostVm(s), i, x))
  BY <1>0, <1>1, PushSame, ZPushOK, SameAgree DEF zds_push, zvar_write, Host!step_push
<1>6. Agree(zds_pop(s, i, x), Host!step_pop(HostVm(s), i, x))
  BY <1>0, PopSame, ZPopOK, SameAgree DEF zds_pop, zvar_read, Host!step_pop
<1> QED
  BY <1>3, <1>4, <1>5, <1>6

\* inc, dec, inc_chk and dec_chk: the port compares by flipping the sign bits.
LEMMA AddingSame ==
  ASSUME NEW s, ZMachineOK(s), NEW i, NEW x, Good(i, x)
  PROVE  /\ i.op = "inc" => Agree(zds_inc(s, i, x), Host!step_inc(HostVm(s), i, x))
         /\ i.op = "dec" => Agree(zds_dec(s, i, x), Host!step_dec(HostVm(s), i, x))
         /\ i.op = "inc_chk" =>
              Agree(zds_inc_chk(s, i, x), Host!step_inc_chk(HostVm(s), i, x))
         /\ i.op = "dec_chk" =>
              Agree(zds_dec_chk(s, i, x), Host!step_dec_chk(HostVm(s), i, x))
<1> DEFINE v == VarOf(x[1])
           t == x[2]
<1>0. i \in Instrs /\ Host!VarOf(x[1]) = v
  BY HostWords DEF Good
<1>1. i.op \in {"inc", "dec", "inc_chk", "dec_chk"} => v \in Var
  BY OperandsOK DEF Arity
<1>2. i.op \in {"inc_chk", "dec_chk"} => t \in Word
  BY OperandsOK DEF Arity
<1>3. 1 \in Int /\ -1 \in Int
  OBVIOUS
<1>4. i.op = "inc" => Agree(zds_inc(s, i, x), Host!step_inc(HostVm(s), i, x))
  <2> HIDE DEF v
  <2> QED
    BY <1>0, <1>1, <1>3, AddSame DEF zds_inc, Host!step_inc, Agree, v
<1>5. i.op = "dec" => Agree(zds_dec(s, i, x), Host!step_dec(HostVm(s), i, x))
  <2> HIDE DEF v
  <2> QED
    BY <1>0, <1>1, <1>3, AddSame DEF zds_dec, Host!step_dec, Agree, v
<1> DEFINE u == [s EXCEPT !.zdisp_value2 = t]
<1>6. ASSUME NEW d \in Int, v \in Var, t \in Word
      PROVE  LET p == AddIndirect(u, v, d)
                 h == Host!AddIndirect(HostVm(s), v, d)
             IN  /\ p.ok = h.ok
                 /\ ZMachineOK(p.vm)
                 /\ p.ok => /\ h.vm = HostVm(p.vm) /\ h.value = p.vm.zdisp_value
                            /\ h.value \in Word
                 /\ p.vm.zdisp_value2 = t
  <2> HIDE DEF v, t
  <2>1. ZMachineOK(u) /\ HostVm(u) = HostVm(s) /\ u.zdisp_value2 = t
    BY <1>6, SmallWords, ScratchSame
  <2> HIDE DEF u
  <2> QED
    BY <1>6, <2>1, AddSame, ZAddIndirectOK DEF Kept
<1> HIDE DEF u
<1>7. i.op = "inc_chk" => Agree(zds_inc_chk(s, i, x), Host!step_inc_chk(HostVm(s), i, x))
  <2> DEFINE p == AddIndirect(u, v, 1)
             h == Host!AddIndirect(HostVm(s), v, 1)
             a == zdisp_slt(p.vm.zdisp_value2, p.vm.zdisp_value)
             b == Signed(h.value) > Signed(t)
  <2> SUFFICES ASSUME i.op = "inc_chk"
               PROVE  Agree(zds_inc_chk(s, i, x), Host!step_inc_chk(HostVm(s), i, x))
    OBVIOUS
  <2>1. zds_inc_chk(s, i, x) = IF p.ok THEN zdisp_branch(p.vm, i, a) ELSE p
    BY DEF zds_inc_chk, Then, u
  <2>2. Host!step_inc_chk(HostVm(s), i, x) = IF h.ok THEN Host!do_branch(h.vm, i, b) ELSE h
    BY <1>0, HostWords DEF Host!step_inc_chk, Host!Then
  <2>3. t \in Word /\ v \in Var
    BY <1>1, <1>2
  <2> HIDE DEF v, t
  <2>4. /\ p.ok = h.ok /\ ZMachineOK(p.vm) /\ p.vm.zdisp_value2 = t
        /\ p.ok => h.vm = HostVm(p.vm) /\ h.value = p.vm.zdisp_value /\ h.value \in Word
    BY <1>3, <1>6, <2>3
  <2> HIDE DEF p, h
  <2>5. p.ok => a = b
    <3>1. p.ok => (a <=> Signed(t) < Signed(h.value))
      BY <2>3, <2>4, SltIsSigned
    <3>2. p.ok => Signed(t) \in Int /\ Signed(h.value) \in Int
      BY <2>3, <2>4, SignedInt
    <3>3. a \in BOOLEAN /\ b \in BOOLEAN
      BY DEF zdisp_slt
    <3> HIDE DEF a
    <3> QED
      BY <3>1, <3>2, <3>3
  <2> HIDE DEF a, b
  <2> QED
    BY <1>0, <2>1, <2>2, <2>4, <2>5, BranchSame DEF Agree
<1>8. i.op = "dec_chk" => Agree(zds_dec_chk(s, i, x), Host!step_dec_chk(HostVm(s), i, x))
  <2> DEFINE p == AddIndirect(u, v, -1)
             h == Host!AddIndirect(HostVm(s), v, -1)
             a == zdisp_slt(p.vm.zdisp_value, p.vm.zdisp_value2)
             b == Signed(h.value) < Signed(t)
  <2> SUFFICES ASSUME i.op = "dec_chk"
               PROVE  Agree(zds_dec_chk(s, i, x), Host!step_dec_chk(HostVm(s), i, x))
    OBVIOUS
  <2>1. zds_dec_chk(s, i, x) = IF p.ok THEN zdisp_branch(p.vm, i, a) ELSE p
    BY DEF zds_dec_chk, Then, u
  <2>2. Host!step_dec_chk(HostVm(s), i, x) = IF h.ok THEN Host!do_branch(h.vm, i, b) ELSE h
    BY <1>0, HostWords DEF Host!step_dec_chk, Host!Then
  <2>3. t \in Word /\ v \in Var
    BY <1>1, <1>2
  <2> HIDE DEF v, t
  <2>4. /\ p.ok = h.ok /\ ZMachineOK(p.vm) /\ p.vm.zdisp_value2 = t
        /\ p.ok => h.vm = HostVm(p.vm) /\ h.value = p.vm.zdisp_value /\ h.value \in Word
    BY <1>3, <1>6, <2>3
  <2> HIDE DEF p, h
  <2>5. p.ok => a = b
    <3>1. p.ok => (a <=> Signed(h.value) < Signed(t))
      BY <2>3, <2>4, SltIsSigned
    <3>2. p.ok => Signed(t) \in Int /\ Signed(h.value) \in Int
      BY <2>3, <2>4, SignedInt
    <3>3. a \in BOOLEAN /\ b \in BOOLEAN
      BY DEF zdisp_slt
    <3> HIDE DEF a
    <3> QED
      BY <3>1, <3>2, <3>3
  <2> HIDE DEF a, b
  <2> QED
    BY <1>0, <2>1, <2>2, <2>4, <2>5, BranchSame DEF Agree
<1> QED
  BY <1>4, <1>5, <1>7, <1>8

\* get_sibling and get_child: the port tests the copy of the result in its
\* scratch word, the reference the result itself.
LEMMA ResultBranchSame ==
  ASSUME NEW s, ZMachineOK(s), NEW i, NEW x, Good(i, x)
  PROVE  Agree(zds_get_sibling(s, i, x), Host!step_result_branch(HostVm(s), i, x))
<1> DEFINE w == i.result
           u == [s EXCEPT !.zdisp_value = w]
           p == zvar_write(u, i.store, w)
           h == Host!vm_write_variable(HostVm(s), i.store, w)
<1>0. i \in Instrs /\ i.store \in Var /\ w \in Word
  BY InstrFields DEF Good
<1>1. zds_get_sibling(s, i, x)
        = IF p.ok THEN zdisp_branch(p.vm, i, p.vm.zdisp_value # 0) ELSE p
  BY DEF zds_get_sibling, zdisp_store_and_branch_nonzero, Then
<1>2. Host!step_result_branch(HostVm(s), i, x)
        = IF h.ok THEN Host!do_branch(h.vm, i, w # 0) ELSE h
  BY DEF Host!step_result_branch, Host!Then
<1> HIDE DEF w
<1>3. ZMachineOK(u) /\ HostVm(u) = HostVm(s) /\ u.zdisp_value = w
  BY <1>0, SmallWords, ScratchSame
<1> HIDE DEF u
<1>4. Quiet(u, p) /\ Agree(p, h)
  <2>1. Quiet(u, p)
    BY <1>0, <1>3, ZWriteOK
  <2>2. Same(p, h, Here(u))
    BY <1>0, <1>3, WriteSame, HostView
  <2> HIDE DEF p, h
  <2> QED
    BY <2>1, <2>2, SameAgree
<1>5. Same(p, h, Here(u))
  BY <1>0, <1>3, WriteSame, HostView
<1> HIDE DEF p, h
<1>6. ZMachineOK(p.vm) /\ p.vm.zdisp_value = w /\ Here(p.vm) = Here(u)
  BY <1>3, <1>4 DEF Quiet, Kept, Here
<1>7. p.ok = h.ok /\ (p.ok => h.vm = HostVm(p.vm))
  BY <1>5, <1>6, HostView DEF Same
<1> QED
  BY <1>0, <1>1, <1>2, <1>6, <1>7, BranchSame DEF Agree

LEMMA LoadSame ==
  ASSUME NEW s, ZMachineOK(s), NEW i, NEW x, Good(i, x), i.op = "load"
  PROVE  Agree(zds_load(s, i, x), Host!step_load(HostVm(s), i, x))
<1> DEFINE c == Here(s)
           v == VarOf(x[1])
           st == i.store
           p == zvar_read_indirect(s, v)
           h == Host!vm_read_variable_indirect(View(s, c), v)
           q == zvar_write(p.vm, st, p.value)
           g == Host!vm_write_variable(h.vm, st, h.value)
<1>0. v \in Var /\ st \in Var
  BY OperandsOK, InstrFields DEF Good, Arity
<1>1. zds_load(s, i, x) = IF p.ok THEN q ELSE p
  BY DEF zds_load, Then
<1>2. Host!step_load(HostVm(s), i, x) = IF h.ok THEN g ELSE h
  BY HostView, HostWords DEF Host!step_load, Host!Then
<1> HIDE DEF v, st
<1>3. Quiet(s, p) /\ (p.ok => p.value \in Word) /\ Same(p, h, c)
  BY <1>0, ZReadIndirectOK, ReadIndirectSame
<1> HIDE DEF p, h
<1>4. CASE p.ok
  <2>1. h.ok /\ h.vm = View(p.vm, c) /\ h.value = p.value /\ p.value \in Word
    BY <1>3, <1>4 DEF Same
  <2>2. ZMachineOK(p.vm)
    BY <1>3 DEF Quiet, Kept
  <2>3. Quiet(p.vm, q) /\ Same(q, g, c)
    <3>1. g = Host!vm_write_variable(View(p.vm, c), st, p.value)
      BY <2>1
    <3> QED
      BY <1>0, <2>1, <2>2, <3>1, ZWriteOK, WriteSame
  <2> HIDE DEF q, g
  <2>4. Agree(q, g)
    BY <1>3, <2>3, QuietOn, SameAgree
  <2> QED
    BY <1>1, <1>2, <1>4, <2>1, <2>4
<1>5. CASE ~ p.ok
  BY <1>1, <1>2, <1>3, <1>5 DEF Same, Agree
<1> QED
  BY <1>4, <1>5

\* ret_popped and pull: a word popped by each off the same stack.
LEMMA PoppingSame ==
  ASSUME NEW s, ZMachineOK(s), NEW i, NEW x, Good(i, x)
  PROVE  /\ Agree(zds_ret_popped(s, i, x), Host!step_ret_popped(HostVm(s), i, x))
         /\ i.op = "pull" => Agree(zds_pull(s, i, x), Host!step_pull(HostVm(s), i, x))
<1> DEFINE c == Here(s)
           v == VarOf(x[1])
           p == zvar_read(s, 0)
           h == Host!vm_pop(View(s, c))
           w == p.value
           u == [p.vm EXCEPT !.zdisp_value = w]
<1>0. i.op = "pull" => v \in Var
  BY OperandsOK DEF Arity
<1>1. zds_ret_popped(s, i, x) = IF p.ok THEN zdisp_return(p.vm, w) ELSE p
  BY DEF zds_ret_popped, Then
<1>2. Host!step_ret_popped(HostVm(s), i, x)
        = IF h.ok THEN Host!do_return(h.vm, h.value) ELSE h
  BY HostView DEF Host!step_ret_popped, Host!Then
<1>3. zds_pull(s, i, x) = IF p.ok THEN zvar_write_indirect(u, v, w) ELSE p
  BY DEF zds_pull, Then
<1>4. Host!step_pull(HostVm(s), i, x)
        = IF h.ok THEN Host!vm_write_variable_indirect(h.vm, v, h.value) ELSE h
  BY HostView, HostWords DEF Host!step_pull, Host!Then
<1>5. Quiet(s, p) /\ (p.ok => w \in Word) /\ Same(p, h, c)
  BY ZPopOK, PopSame DEF zvar_read
<1> HIDE DEF p, h, v
<1>6. CASE p.ok
  <2>1. h.ok /\ h.vm = View(p.vm, c) /\ h.value = w /\ w \in Word
    BY <1>5, <1>6 DEF Same
  <2>2. ZMachineOK(p.vm)
    BY <1>5 DEF Quiet, Kept
  <2> HIDE DEF w
  <2>3. Agree(zds_ret_popped(s, i, x), Host!step_ret_popped(HostVm(s), i, x))
    BY <1>1, <1>2, <1>6, <2>1, <2>2, ReturnSame
  <2>4. ASSUME v \in Var
        PROVE  Agree(zds_pull(s, i, x), Host!step_pull(HostVm(s), i, x))
    <3>1. /\ ZMachineOK(u) /\ HostVm(u) = HostVm(p.vm)
          /\ u.zdisp_pc = p.vm.zdisp_pc /\ u.zdisp_pc_bank = p.vm.zdisp_pc_bank
      BY <2>1, <2>2, SmallWords, ScratchSame
    <3>2. Here(p.vm) = c
      BY <1>5 DEF Quiet, Here
    <3>3. Here(u) = Here(p.vm)
      BY <3>1 DEF Here
    <3> HIDE DEF u, c
    <3>4. View(u, Here(u)) = View(p.vm, c)
      BY <3>1, <3>2, HostView
    <3> DEFINE q == zvar_write_indirect(u, v, w)
               g == Host!vm_write_variable_indirect(h.vm, v, h.value)
    <3>5. Quiet(u, q) /\ Same(q, g, Here(u))
      <4>1. g = Host!vm_write_variable_indirect(View(u, Here(u)), v, w)
        BY <2>1, <3>4
      <4> QED
        BY <2>1, <2>4, <3>1, <4>1, ZWriteIndirectOK, WriteIndirectSame
    <3>6. zds_pull(s, i, x) = q /\ Host!step_pull(HostVm(s), i, x) = g
      BY <1>3, <1>4, <1>6, <2>1
    <3> HIDE DEF q, g
    <3> QED
      BY <3>5, <3>6, SameAgree
  <2> QED
    BY <1>0, <2>3, <2>4
<1>7. CASE ~ p.ok
  BY <1>1, <1>2, <1>3, <1>4, <1>5, <1>7 DEF Same, Agree
<1> QED
  BY <1>6, <1>7

LEMMA JumpingSame ==
  ASSUME NEW s, ZMachineOK(s), NEW i, NEW x, Good(i, x)
  PROVE  /\ i.op = "jump" => Agree(zds_jump(s, i, x), Host!step_jump(HostVm(s), i, x))
         /\ i.op = "call" => Agree(zds_call(s, i, x), Host!step_call(HostVm(s), i, x))
<1>1. i.op = "jump" => Agree(zds_jump(s, i, x), Host!step_jump(HostVm(s), i, x))
  <2> DEFINE d == Signed(x[1])
  <2> SUFFICES ASSUME i.op = "jump"
               PROVE  Agree(zds_jump(s, i, x), Host!step_jump(HostVm(s), i, x))
    OBVIOUS
  <2>1. d \in Int
    BY OperandsOK, SignedInt DEF Arity
  <2>2. zds_jump(s, i, x) = Done(JumpBy(s, d))
    BY DEF zds_jump
  <2>3. Host!step_jump(HostVm(s), i, x)
          = Done([HostVm(s) EXCEPT !.pc = (HostVm(s).pc + d - 2) % PcSpace])
    BY HostDone, HostWords DEF Host!step_jump
  <2> HIDE DEF d
  <2> QED
    BY <2>1, <2>2, <2>3, JumpSame
<1>2. i.op = "call" => Agree(zds_call(s, i, x), Host!step_call(HostVm(s), i, x))
  <2>1. i.op = "call" => Len(x) >= 1
    BY DEF Good, Arity
  <2> QED
    BY <2>1, CallSame DEF Good, zds_call, Host!step_call
<1> QED
  BY <1>1, <1>2

LEMMA EffectSame ==
  ASSUME NEW s, ZMachineOK(s), NEW i, NEW x, Good(i, x)
  PROVE  Agree(zds_effect(s, i, x), Host!step_effect(HostVm(s), i, x))
<1> DEFINE g == Written(s.globals, i)
           t == [s EXCEPT !.globals = g]
           h == [HostVm(s) EXCEPT !.globals = g]
<1>1. zds_effect(s, i, x) = Done(t)
  BY DEF zds_effect
<1>2. Host!step_effect(HostVm(s), i, x) = Done(h)
  <2>1. HostVm(s).globals = s.globals
    BY DEF HostVm
  <2> QED
    BY <2>1, HostDone, HostWords DEF Host!step_effect
<1> HIDE DEF g
<1>3. /\ t.zdisp_pc = s.zdisp_pc /\ t.zdisp_pc_bank = s.zdisp_pc_bank
      /\ t.zsmem = s.zsmem /\ t.zsptr = s.zsptr
      /\ t.frames = s.frames /\ t.globals = g
  BY ZFields DEF ZMachine
<1> HIDE DEF t
<1>4. h = HostVm(t)
  <2>1. View(t, Here(s)) = [View(s, Here(s)) EXCEPT !.globals = t.globals]
    BY <1>3, ViewGlobals
  <2>2. Here(t) = Here(s)
    BY <1>3 DEF Here
  <2> QED
    BY <1>3, <2>1, <2>2, HostView
<1> QED
  BY <1>1, <1>2, <1>4, DoneAgree

\* A save whose branch does not return goes the reference's way.
GoesOn(i) == i.on_true => i.offset \notin {0, 1}

LEMMA SaveSame ==
  ASSUME NEW s, ZMachineOK(s), NEW i \in Instrs, NEW x, GoesOn(i)
  PROVE  /\ Agree(zds_save(s, i, x), Host!step_save(HostVm(s), i, x))
         /\ zds_save(s, i, x).ok
         /\ zds_save(s, i, x).vm.zdisp_value = s.zdisp_pc
         /\ zds_save(s, i, x).vm.zdisp_value2 = s.zdisp_pc_bank
         /\ \A c : View(zds_save(s, i, x).vm, c) = View(s, c)
<1> DEFINE v == s.zdisp_pc
           w == s.zdisp_pc_bank
           u == [s EXCEPT !.zdisp_value = v, !.zdisp_value2 = w]
           p == zdisp_branch(u, i, TRUE)
           h == Host!do_branch(HostVm(s), i, TRUE)
<1>1. zds_save(s, i, x) = Done(p.vm)
  BY DEF zds_save
<1>2. Host!step_save(HostVm(s), i, x) = h
  BY DEF Host!step_save
<1>3. v \in Word /\ w \in Word
  BY ZFields, BankWord
<1>4. ZMachineOK(u)
  <2> HIDE DEF v, w
  <2>1. ZMachineOK([s EXCEPT !.zdisp_value = v, !.zdisp_value2 = w])
    BY <1>3, PutScratch, Zenon
  <2> QED
    BY <2>1
<1>5. /\ u.zdisp_value = v /\ u.zdisp_value2 = w
      /\ u.zdisp_pc = s.zdisp_pc /\ u.zdisp_pc_bank = s.zdisp_pc_bank
      /\ u.zsmem = s.zsmem /\ u.zsptr = s.zsptr
      /\ u.frames = s.frames /\ u.globals = s.globals
  <2> HIDE DEF v, w
  <2> QED
    BY ZFields DEF ZMachine
<1> HIDE DEF u
<1>6. HostVm(u) = HostVm(s)
  BY <1>5 DEF HostVm
<1>7. Agree(p, h)
  BY <1>4, <1>6, BranchSame
<1>8. p.ok /\ p.vm.zdisp_value = v /\ p.vm.zdisp_value2 = w /\ \A c : View(p.vm, c) = View(s, c)
  <2>1. \A c : View(u, c) = View(s, c)
    BY <1>5 DEF View
  <2>2. CASE TRUE # i.on_true
    <3>1. p = Done(u)
      BY <2>2 DEF zdisp_branch
    <3> HIDE DEF p, v, w
    <3> QED
      BY <1>5, <2>1, <3>1, Results
  <2>3. CASE TRUE = i.on_true
    <3> DEFINE t == JumpBy(u, i.offset)
    <3>1. p = Done(t)
      BY <2>3 DEF zdisp_branch, GoesOn
    <3>2. /\ t.zdisp_value = u.zdisp_value /\ t.zdisp_value2 = u.zdisp_value2
          /\ t.zsmem = u.zsmem /\ t.zsptr = u.zsptr
          /\ t.frames = u.frames /\ t.globals = u.globals
      BY <1>4, ZFields DEF JumpBy, ZMachine
    <3> HIDE DEF p, v, w, t
    <3>3. \A c : View(t, c) = View(u, c)
      BY <3>2 DEF View
    <3> QED
      BY <1>5, <2>1, <3>1, <3>2, <3>3, Results
  <2> QED
    BY <2>2, <2>3
<1>9. Agree(Done(p.vm), h)
  <2> HIDE DEF p, h
  <2> QED
    BY <1>7, <1>8, Results DEF Agree
<1> HIDE DEF p, h, v, w
<1> QED
  BY <1>1, <1>2, <1>8, <1>9, Results DEF v, w

LEMMA HandlersSame ==
  ASSUME NEW s, ZMachineOK(s), NEW i, NEW x, Good(i, x), i.op \notin Unsupported,
         i.op = "save" => GoesOn(i)
  PROVE  Agree(Handle(s, i, x), Host!step(HostVm(s), i, x))
<1> DEFINE h == HostVm(s)
<1>0. i \in Instrs /\ i.op \in Opcodes
  BY InstrFields DEF Good
<1>1. CASE i.op \in {"je", "jz", "test"}
  BY <1>1, BranchingSame DEF Handle, Host!step
<1>2. CASE i.op \in {"ret", "rtrue", "rfalse", "print_ret"}
  BY <1>2, ReturningSame DEF Handle, Host!step
<1>3. CASE i.op \in {"store", "result", "push", "pop"}
  BY <1>3, MovingSame DEF Handle, Host!step
<1>4. CASE i.op \in {"inc", "dec", "inc_chk", "dec_chk"}
  BY <1>4, AddingSame DEF Handle, Host!step
<1>5. CASE i.op = "result_branch"
  BY <1>5, ResultBranchSame DEF Handle, Host!step
<1>6. CASE i.op = "load"
  BY <1>6, LoadSame DEF Handle, Host!step
<1>7. CASE i.op \in {"ret_popped", "pull"}
  BY <1>7, PoppingSame DEF Handle, Host!step
<1>8. CASE i.op \in {"jump", "call"}
  BY <1>8, JumpingSame DEF Handle, Host!step
<1>9. CASE i.op = "effect"
  BY <1>9, EffectSame DEF Handle, Host!step
<1>10. CASE i.op = "save"
  BY <1>0, <1>10, SaveSame DEF Handle, Host!step
<1>11. CASE i.op \in {"restore", "quit"}
  <2>1. Handle(s, i, x) = Done(s)
    BY <1>11 DEF Handle, zds_quit
  <2>2. Host!step(h, i, x) = Done(h)
    <3> HIDE DEF h
    <3> QED
      BY <1>11, HostDone DEF Host!step, Host!step_show_status
  <2> QED
    BY <2>1, <2>2, DoneAgree
<1>12. CASE i.op = "bad"
  <2>1. Handle(s, i, x) = Fail(s)
    BY <1>12 DEF Handle, zds_error
  <2>2. Host!step(h, i, x) = Fail(h)
    <3> HIDE DEF h
    <3> QED
      BY <1>12, HostFail DEF Host!step, Host!step_bad
  <2> QED
    BY <2>1, <2>2, FailAgree
<1> QED
  BY <1>0, <1>1, <1>2, <1>3, <1>4, <1>5, <1>6, <1>7, <1>8, <1>9, <1>10, <1>11, <1>12
     DEF Opcodes, Unsupported

\* A whole instruction.
LEMMA StepSame ==
  ASSUME NEW s, ZMachineOK(s), NEW i \in Instrs, i.op \notin Unsupported,
         i.op = "save" => GoesOn(i)
  PROVE  StepAgrees(s, i)
<1> DEFINE f == Fallthrough(s, i)
           c == Here(s)
           d == Here(f)
           r == zds_resolve_loop(f, i)
           g == Host!resolve_operands(View(f, c), i)
           p == Handle(r.vm, i, r.value)
           h == Host!step(HostVm(r.vm), i, r.value)
<1>1. ZMachineOK(f)
  BY FallthroughOK
<1>2. HostVm(s) = View(f, c) /\ Host!NextPc(HostVm(s), i) = d
  BY FallthroughSame, HostView
<1>3. zdisp_step(s, i) = IF r.ok THEN p ELSE r
  BY DEF zdisp_step, Then
<1>4. Host!vm_step(HostVm(s), i)
        = IF g.ok THEN Host!step([g.vm EXCEPT !.pc = d], i, g.value) ELSE g
  BY <1>2 DEF Host!vm_step, Host!Then
<1> HIDE DEF f, c
<1>5. Same(r, g, c) /\ Quiet(f, r)
  BY <1>1, ResolveSame, ZResolveOK
<1>6. r.ok => r.value \in Seq(Word) /\ Len(r.value) = Len(i.operands)
  BY <1>1, ZResolveOK
<1> HIDE DEF r, g
<1>7. CASE r.ok
  <2>1. ZMachineOK(r.vm) /\ Here(r.vm) = d
    BY <1>5 DEF Quiet, Kept, Here
  <2>2. g.ok /\ g.vm = View(r.vm, c) /\ g.value = r.value
    BY <1>5, <1>7 DEF Same
  <2>3. [g.vm EXCEPT !.pc = d] = HostVm(r.vm)
    <3>1. [View(r.vm, c) EXCEPT !.pc = d] = View(r.vm, d)
      BY DEF View
    <3> QED
      BY <2>1, <2>2, <3>1, HostView
  <2>4. Good(i, r.value)
    BY <1>6, <1>7, InstrFields DEF Good
  <2>5. Agree(p, h)
    BY <2>1, <2>4, HandlersSame
  <2>6. Host!vm_step(HostVm(s), i) = h
    BY <1>4, <2>2, <2>3
  <2> HIDE DEF p, h
  <2> QED
    BY <1>3, <1>7, <2>5, <2>6 DEF Agree, StepAgrees
<1>8. CASE ~ r.ok
  BY <1>3, <1>4, <1>5, <1>8 DEF Same, StepAgrees
<1> QED
  BY <1>7, <1>8

-----------------------------------------------------------------------------
(* The whole machine.                                                      *)

\* lib/zdispatch.asm's save keeps the fallthrough address in the words that a
\* return uses too, and does not look at whether the branch worked out: the
\* stories meant here do not return from the branch of a save.
SavesGoOn == \A i \in Instrs : i.op = "save" => GoesOn(i)

\* Every instruction that both interpreters know does the same in both,
\* whatever state a story has brought the port to: the two dispatchers, with
\* their different stacks, program counters and scratch words, agree.
THEOREM InstructionsStayAgreed ==
  ASSUME SavesGoOn
  PROVE  Spec => []InstructionsAgree
<1>1. TypeOK => InstructionsAgree
  BY StepSame DEF TypeOK, InstructionsAgree, SavesGoOn
<1> QED
  BY <1>1, TypeCorrect, PTL

LEMMA SettledSame ==
  ASSUME NEW s, ZMachineOK(s)
  PROVE  HostVm(Settled(s)) = HostVm(s) /\ Settled(s).astray = s.astray
<1> DEFINE t == Settled(s)
<1>1. /\ t.zdisp_pc = s.zdisp_pc /\ t.zdisp_pc_bank = s.zdisp_pc_bank
      /\ t.zsmem = s.zsmem /\ t.zsptr = s.zsptr /\ t.astray = s.astray
      /\ t.frames = s.frames /\ t.globals = s.globals
  BY ZFields DEF Settled, ZMachine
<1> HIDE DEF t
<1>2. HostVm(t) = HostVm(s)
  BY <1>1 DEF HostVm
<1> QED
  BY <1>1, <1>2 DEF t

\* What the reference may choose from is what the port may.
LEMMA OfferedSame ==
  ASSUME NEW op \in Opcodes, NEW i \in InstrsOf[op]
  PROVE  i \in Host!Offered(op) /\ i \in Instrs /\ i.op = op
<1>1. i \in Instrs /\ i.op = op
  BY DEF InstrsOf
<1>2. op \in Host!Opcodes
  BY DEF Opcodes, Host!Opcodes
<1>3. Host!InstrsOf[op] = {j \in Instrs : j.op = op}
  BY <1>2 DEF Host!InstrsOf
<1> QED
  BY <1>1, <1>3 DEF Host!Offered

LEMMA NextPcSame ==
  ASSUME NEW s, ZMachineOK(s), NEW i \in Instrs
  PROVE  HostVm(Fallthrough(s, i)) = [HostVm(s) EXCEPT !.pc = Host!NextPc(HostVm(s), i)]
<1> DEFINE f == Fallthrough(s, i)
           d == Here(f)
<1>1. View(f, d) = View(s, d) /\ Host!NextPc(HostVm(s), i) = d
  BY FallthroughSame
<1>2. [View(s, Here(s)) EXCEPT !.pc = d] = View(s, d)
  BY DEF View
<1> HIDE DEF f
<1> QED
  BY <1>1, <1>2, HostView DEF f

Mirrored == Opcodes \ {"save", "restore", "quit", "restart", "show_status"}

LEMMA PerformSame ==
  ASSUME TypeOK, SavesGoOn, NEW op \in Opcodes, op \notin {"save", "restore", "quit"},
         Perform(op), ~ z'.astray
  PROVE  (op \in Mirrored /\ Host!Perform(op)) \/ HostStops
<1>1. PICK i \in InstrsOf[op] :
        z' = Settled(zdisp_step(z, i).vm) /\ status' = StatusAfter(zdisp_step(z, i))
  BY DEF Perform
<1> DEFINE p == zdisp_step(z, i)
           h == Host!vm_step(HostVm(z), i)
<1>2. i \in Instrs /\ i.op = op /\ i \in Host!Offered(op)
  BY OfferedSame
<1>3. status = "running" /\ slot' = slot
  BY DEF Perform, Running
<1>4. ZMachineOK(z) /\ ZMachineOK(p.vm)
  BY <1>2, ZStepOK DEF TypeOK, Kept
<1>5. HostVm(z') = HostVm(p.vm) /\ ~ p.vm.astray
  BY <1>1, <1>4, SettledSame
<1>6. CASE i.op \in Unsupported
  <2>1. \A s, x : ~ Handle(s, i, x).ok
    BY <1>6, Results DEF Handle, zds_error, Unsupported
  <2>2. ~ p.ok
    BY <2>1 DEF zdisp_step, Then
  <2> QED
    BY <1>1, <1>2, <1>3, <1>6, <2>2 DEF HostStops, StatusAfter
<1>7. CASE i.op \notin Unsupported
  <2>1. StepAgrees(z, i)
    BY <1>2, <1>4, <1>7, StepSame DEF SavesGoOn
  <2>2. p.ok = h.ok /\ (p.ok => HostVm(p.vm) = h.vm)
    BY <1>5, <2>1 DEF StepAgrees
  <2> HIDE DEF p, h
  <2>3. CASE p.ok
    <3>1. HostVm(z') = h.vm /\ status' = "running" /\ h.ok
      BY <1>1, <1>5, <2>2, <2>3 DEF p, StatusAfter
    <3>2. Host!StatusAfter(h) = "running"
      BY <3>1 DEF Host!StatusAfter
    <3>3. HostSlot' = HostSlot
      BY <1>3 DEF HostSlot
    <3>4. Host!Perform(op)
      BY <1>2, <1>3, <3>1, <3>2, <3>3 DEF Host!Perform, h
    <3> QED
      BY <1>2, <1>7, <3>4 DEF Mirrored, Unsupported
  <2>4. CASE ~ p.ok
    BY <1>1, <1>2, <1>3, <2>2, <2>4 DEF HostStops, StatusAfter, p, h
  <2> QED
    BY <2>3, <2>4
<1> QED
  BY <1>6, <1>7

LEMMA HostMachine ==
  ASSUME NEW s, ZMachineOK(s)
  PROVE  HostVm(s) # NoSave /\ s # NoSave
<1>1. s # NoSave
  BY NoSaveAssumption DEF ZMachineOK
<1>2. View(s, Here(s)) \in Host!Machine
  <2> DEFINE e == Prefix(s.zsmem, s.zsptr)
             f == HostFrames(s.frames)
             c == Here(s)
  <2>1. e \in Seq(Word)
    BY StackSeq, PrefixSeq
  <2>2. f \in Seq(Host!Frame)
    BY ZFields, FramesSeq DEF ZFramesOK
  <2>3. c \in Pc
    BY ZFields, AddressPc DEF Here
  <2>4. s.globals \in [Globals -> Word]
    BY ZFields
  <2> HIDE DEF e, f, c
  <2>5. [eval |-> e, frames |-> f, globals |-> s.globals, pc |-> c] \in Host!Machine
    BY <2>1, <2>2, <2>3, <2>4, HostWords DEF Host!Machine
  <2> QED
    BY <2>5 DEF View, e, f, c
<1> QED
  BY <1>1, <1>2, HostView, HostNoSaveAssumption

LEMMA SlotSame ==
  ASSUME TypeOK
  PROVE  HostSlot = NoSave <=> slot = NoSave
BY HostMachine DEF HostSlot, TypeOK

LEMMA SaveActionSame ==
  ASSUME TypeOK, SavesGoOn, Save, ~ z'.astray
  PROVE  Host!Save
<1>1. PICK i \in InstrsOf["save"] :
        /\ status' = StatusAfter(zdisp_step(z, i))
        /\ \/ z' = Settled(zdisp_step(z, i).vm) /\ slot' = Settled(zdisp_step(z, i).vm)
           \/ z' = Settled(zds_save_undo(zdisp_step(z, i).vm)) /\ slot' \in {slot, NoSave}
  BY DEF Save
<1> DEFINE f == Fallthrough(z, i)
           d == Here(f)
           p == zdisp_step(z, i)
           t == p.vm
           u == zds_save_undo(t)
           h == Host!vm_step(HostVm(z), i)
<1>2. i \in Instrs /\ i.op = "save" /\ i \in Host!Offered("save") /\ GoesOn(i)
  BY OfferedSame DEF Opcodes, SavesGoOn
<1>3. ZMachineOK(z) /\ ZMachineOK(f) /\ ZMachineOK(t) /\ ZMachineOK(u)
  BY <1>2, FallthroughOK, ZStepOK, SaveUndoOK DEF TypeOK, Kept
<1>4. p = zds_save(f, i, <<>>)
  <2>1. zds_resolve_loop(f, i) = Value(f, <<>>)
    BY <1>2, NoOperands DEF ZeroOp
  <2> HIDE DEF f
  <2>2. zdisp_step(z, i) = Handle(f, i, <<>>)
    BY <2>1 DEF zdisp_step, Then, Value, f
  <2> QED
    BY <1>2, <2>2 DEF Handle
<1>5. /\ p.ok /\ t.zdisp_value = f.zdisp_pc /\ t.zdisp_value2 = f.zdisp_pc_bank
      /\ \A c : View(t, c) = View(f, c)
  <2> HIDE DEF f, p
  <2> QED
    BY <1>2, <1>3, <1>4, SaveSame
<1>6. StepAgrees(z, i)
  BY <1>2, <1>3, StepSame DEF Unsupported
<1>7. ~ t.astray => h.ok /\ h.vm = HostVm(t)
  BY <1>5, <1>6 DEF StepAgrees
<1>8. Host!NextPc(HostVm(z), i) = d
  BY <1>2, <1>3, FallthroughSame
<1>9. /\ u.zdisp_pc = t.zdisp_value /\ u.zdisp_pc_bank = t.zdisp_value2
      /\ u.astray = t.astray /\ \A c : View(u, c) = View(t, c)
  <2>1. /\ u.zdisp_pc = t.zdisp_value /\ u.zdisp_pc_bank = t.zdisp_value2
        /\ u.astray = t.astray /\ u.zsmem = t.zsmem /\ u.zsptr = t.zsptr
        /\ u.frames = t.frames /\ u.globals = t.globals
    <3> HIDE DEF t
    <3> QED
      BY <1>3, ZFields DEF zds_save_undo, ZMachine
  <2> HIDE DEF u, t
  <2> QED
    BY <2>1 DEF View
<1>10. status = "running" /\ status' = "running"
  BY <1>1, <1>5 DEF Save, Running, StatusAfter
<1>11. h.ok => Host!StatusAfter(h) = "running"
  BY DEF Host!StatusAfter
<1>12. \/ z' = Settled(t) /\ slot' = Settled(t)
       \/ z' = Settled(u) /\ slot' \in {slot, NoSave}
  BY <1>1
<1>13. d = Here(u)
  BY <1>5, <1>9 DEF Here
<1> HIDE DEF f, d, p, t, u, h
<1>14. CASE z' = Settled(t) /\ slot' = Settled(t)
  <2>1. HostVm(z') = HostVm(t) /\ ~ t.astray /\ slot' # NoSave
    BY <1>3, <1>14, SettledSame, SettledOK, HostMachine
  <2>2. HostSlot' = HostVm(t)
    BY <1>14, <2>1 DEF HostSlot
  <2>3. h.ok /\ HostVm(z') = h.vm /\ HostSlot' = h.vm
    BY <1>7, <2>1, <2>2
  <2> QED
    BY <1>2, <1>10, <1>11, <2>3 DEF Host!Save, h
<1>15. CASE z' = Settled(u) /\ slot' \in {slot, NoSave}
  <2>1. HostVm(z') = HostVm(u) /\ ~ t.astray
    BY <1>3, <1>9, <1>15, SettledSame
  <2>2. HostVm(u) = [HostVm(t) EXCEPT !.pc = d]
    <3>1. [View(t, Here(t)) EXCEPT !.pc = d] = View(t, d)
      BY DEF View
    <3> QED
      BY <1>9, <1>13, <3>1, HostView
  <2>3. h.ok /\ HostVm(z') = [h.vm EXCEPT !.pc = Host!NextPc(HostVm(z), i)]
    BY <1>7, <1>8, <2>1, <2>2
  <2>4. HostSlot' \in {HostSlot, NoSave}
    BY <1>15 DEF HostSlot
  <2> QED
    BY <1>2, <1>10, <1>11, <2>3, <2>4 DEF Host!Save, h
<1> QED
  BY <1>12, <1>14, <1>15

LEMMA RestoreSame ==
  ASSUME TypeOK, Restore
  PROVE  Host!Restore
<1>1. PICK i \in InstrsOf["restore"] :
        \/ slot # NoSave /\ z' = slot
        \/ z' = Fallthrough(z, i)
  BY DEF Restore
<1>2. i \in Instrs /\ i \in Host!Offered("restore")
  BY OfferedSame DEF Opcodes
<1>3. status = "running" /\ status' = status /\ HostSlot' = HostSlot
  BY DEF Restore, Running, HostSlot
<1>4. CASE slot # NoSave /\ z' = slot
  <2>1. HostSlot # NoSave /\ HostVm(z') = HostSlot
    BY <1>4, SlotSame DEF HostSlot
  <2> QED
    BY <1>2, <1>3, <2>1 DEF Host!Restore
<1>5. CASE z' = Fallthrough(z, i)
  <2>1. HostVm(z') = [HostVm(z) EXCEPT !.pc = Host!NextPc(HostVm(z), i)]
    BY <1>2, <1>5, NextPcSame DEF TypeOK
  <2> QED
    BY <1>2, <1>3, <2>1 DEF Host!Restore
<1> QED
  BY <1>1, <1>4, <1>5

LEMMA QuitSame ==
  ASSUME TypeOK, Quit
  PROVE  Host!Quit
<1>1. PICK i \in InstrsOf["quit"] : z' = Fallthrough(z, i)
  BY DEF Quit
<1>2. i \in Instrs /\ i \in Host!Offered("quit")
  BY OfferedSame DEF Opcodes
<1>3. status = "running" /\ status' = "quit" /\ HostSlot' = HostSlot
  BY DEF Quit, Running, HostSlot
<1>4. HostVm(z') = [HostVm(z) EXCEPT !.pc = Host!NextPc(HostVm(z), i)]
  BY <1>1, <1>2, NextPcSame DEF TypeOK
<1> QED
  BY <1>2, <1>3, <1>4 DEF Host!Quit

LEMMA InitSame == Init => Host!Init
<1> SUFFICES ASSUME Init PROVE Host!Init
  OBVIOUS
<1>1. /\ ZMachineOK(z) /\ z.zsptr = 0 /\ z.frames = <<>> /\ z.globals = InitialGlobals
      /\ z.zdisp_pc = InitialPc /\ z.zdisp_pc_bank = 0
  <2>1. ZMachineOK(z)
    BY ZInitOK DEF TypeOK
  <2>2. PICK memory \in [1 .. EvalMax -> Garbage] :
          z = [ zsmem |-> memory, zsptr |-> 0, frames |-> <<>>,
                globals |-> InitialGlobals, zdisp_pc |-> InitialPc,
                zdisp_pc_bank |-> 0, zdisp_value |-> 0, zdisp_value2 |-> 0,
                astray |-> FALSE ]
    BY DEF Init
  <2> QED
    BY <2>1, <2>2
<1>2. Prefix(z.zsmem, z.zsptr) = <<>>
  <2> DEFINE e == Prefix(z.zsmem, z.zsptr)
  <2>1. e \in Seq(Word) /\ Len(e) = 0
    BY <1>1, StackSeq, PrefixSeq
  <2> HIDE DEF e
  <2>2. e = <<>>
    BY <2>1
  <2> QED
    BY <2>2 DEF e
<1>3. HostFrames(z.frames) = <<>>
  <2> DEFINE e == HostFrames(z.frames)
  <2>1. e \in Seq(Host!Frame) /\ Len(e) = Len(z.frames) /\ Len(z.frames) = 0
    BY <1>1, ZFields, FramesSeq DEF ZFramesOK
  <2> HIDE DEF e
  <2>2. e = <<>>
    BY <2>1
  <2> QED
    BY <2>2 DEF e
<1>4. Here(z) = InitialPc
  BY <1>1, WordModAssumption, InitialPcAssumption DEF Here, Address, Word
<1>5. HostVm(z) = Host!InitialVm
  BY <1>1, <1>2, <1>3, <1>4, HostView DEF View, Host!InitialVm
<1> QED
  BY <1>5 DEF Init, Host!Init, HostSlot

LEMMA NextSame ==
  ASSUME TypeOK, SavesGoOn, Next, ~ z'.astray
  PROVE  Host!Next \/ HostStops
<1>1. CASE Save
  BY <1>1, SaveActionSame DEF Host!Next
<1>2. CASE Restore
  BY <1>2, RestoreSame DEF Host!Next, Host!Reload
<1>3. CASE Quit
  BY <1>3, QuitSame DEF Host!Next, Host!Execute
<1>4. CASE ~ Save /\ ~ Restore /\ ~ Quit
  <2>1. PICK op \in Opcodes \ {"save", "restore", "quit"} : Perform(op)
    BY <1>4 DEF Next, Opcodes, Je, Jz, Test, Store, Result, ResultBranch,
      Inc, Dec, IncChk, DecChk, Load, Jump, Call, Ret, Rtrue, Rfalse,
      RetPopped, Pop, Push, Pull, PrintRet, Effect, ShowStatus, Bad, Restart
  <2>2. (op \in Mirrored /\ Host!Perform(op)) \/ HostStops
    BY <2>1, PerformSame
  <2>3. op \in Mirrored /\ Host!Perform(op) => Host!Execute
    BY DEF Mirrored, Opcodes, Host!Execute, Host!Je, Host!Jz, Host!Test, Host!Store,
      Host!Result, Host!ResultBranch, Host!Inc, Host!Dec, Host!IncChk, Host!DecChk,
      Host!Load, Host!Jump, Host!Call, Host!Ret, Host!Rtrue, Host!Rfalse,
      Host!RetPopped, Host!Pop, Host!Push, Host!Pull, Host!PrintRet, Host!Effect,
      Host!Bad
  <2> QED
    BY <2>2, <2>3 DEF Host!Next
<1> QED
  BY <1>1, <1>2, <1>3, <1>4

\* The 1802 port as a whole implements the reference interpreter: it starts
\* where host/dispatch.c starts, and whatever the story executes, saves and
\* restores, each step of the port is one of the reference's, or stops where
\* the reference stops too or the port lacks the opcode, for as long as the
\* story is not astray.
THEOREM PortImplementsHost ==
  ASSUME SavesGoOn
  PROVE  Spec => Implements
<1> DEFINE A == z'.astray \/ Host!Next \/ HostStops
<1>1. TypeOK /\ [Next]_vars => [A]_vars
  BY NextSame
<1> HIDE DEF A
<1>2. Spec => [][A]_vars
  BY <1>1, TypeCorrect, PTL DEF Spec
<1>3. Spec => Host!Init
  BY InitSame, PTL DEF Spec
<1> QED
  BY <1>2, <1>3, PTL DEF Implements, A
=============================================================================
