---------------------------- MODULE IrFrameProofs ----------------------------
(***************************************************************************)
(* Proofs about IrFrame: what the hook makes of a capture, and that copies *)
(* of copies stay what the first copy was, for every frame, every capture  *)
(* error up to 564 us and any number of transceivers.                      *)
(***************************************************************************)
EXTENDS IrFrame, TLAPS

\* The symbols the hook writes, but for the end marker.
Codes == {Lead, Repeat, Zero, One, Pulse(1690, 560), Pulse(1690, 1690)}

End == Pulse(560, 0)

\* Frame f with its last pause cut off by the idle line.
Cut(f) == [i \in 1..Len(f) |-> IF i = Len(f) THEN End ELSE f[i]]

\* Frame f consists of symbols the hook would not change, up to its last pause.
Clean(f) ==
    /\ f \in Symbols /\ Len(f) > 0
    /\ \A i \in 1..Len(f) : i < Len(f) => f[i] \in Codes
    /\ f[Len(f)].duration0 = 560
    /\ BurstsFirst(f)

Settled(f) == Clean(f) /\ f[Len(f)] = End

\* What ancestry k says of the frame f it belongs to.
Kindred(f, k) ==
    /\ k.first = << >> => k.origin \in {<< >>, f}
    /\ k.first # << >> => f = k.first /\ Settled(f)
    /\ (k.first # << >> /\ IsNec(k.origin)) => f = Cut(k.origin)

\* The ancestry kept beside the air and beside every slot is true of the frame there.
KinInv ==
    /\ Kindred(air.frame, air.kin)
    /\ \A u \in Units, s \in Slots :
         /\ Kindred(slots[u][s], kin[u][s])
         /\ kin[u][s].first = << >> => kin[u][s] = Unknown

IInv == TypeOK /\ KinInv
-----------------------------------------------------------------------------
(* Symbols.                                                                *)

\* A pulse is a symbol of two durations that fit their fields.
LEMMA PulseType ==
    ASSUME NEW d0 \in Nat, NEW d1 \in Nat
    PROVE  /\ Pulse(d0, d1) \in Symbol
           /\ Pulse(d0, d1).level0 = 1 /\ Pulse(d0, d1).duration0 = d0
           /\ Pulse(d0, d1).level1 = 0 /\ Pulse(d0, d1).duration1 = d1
BY DEF Pulse, Symbol

\* A symbol given new durations keeps its levels.
LEMMA AsFields ==
    ASSUME NEW s \in Symbol, NEW d0 \in Nat, NEW d1 \in Nat
    PROVE  /\ As(s, d0, d1) \in Symbol
           /\ As(s, d0, d1).level0 = s.level0 /\ As(s, d0, d1).duration0 = d0
           /\ As(s, d0, d1).level1 = s.level1 /\ As(s, d0, d1).duration1 = d1
BY DEF As, Symbol

\* Exchanging the levels changes nothing else.
LEMMA FlippedFields ==
    ASSUME NEW s \in Symbol
    PROVE  /\ Flipped(s) \in Symbol
           /\ Flipped(s).level0 = 1 - s.level0
           /\ Flipped(s).duration0 = s.duration0
           /\ Flipped(s).level1 = 1 - s.level1
           /\ Flipped(s).duration1 = s.duration1
<1>1. s.level0 \in {0, 1} /\ s.level1 \in {0, 1}
  BY DEF Symbol
<1>2. 1 - s.level0 \in {0, 1} /\ 1 - s.level1 \in {0, 1}
  BY <1>1
<1>3. Flipped(s) = [s EXCEPT !.level0 = 1 - s.level0, !.level1 = 1 - s.level1]
  BY DEF Flipped, Symbol
<1> QED
  BY <1>2, <1>3 DEF Symbol

\* Two symbols are the same when their four fields are.
LEMMA SymbolEquality ==
    ASSUME NEW s \in Symbol, NEW t \in Symbol,
           s.level0 = t.level0, s.duration0 = t.duration0,
           s.level1 = t.level1, s.duration1 = t.duration1
    PROVE  s = t
BY DEF Symbol

\* A pulse of a frame is its durations.
LEMMA UprightIsPulse ==
    ASSUME NEW s \in Symbol, s.level0 = 1, s.level1 = 0
    PROVE  s = Pulse(s.duration0, s.duration1)
<1>1. s.duration0 \in Nat /\ s.duration1 \in Nat
  BY DEF Symbol
<1> QED
  BY <1>1, PulseType, SymbolEquality

\* A symbol with upright levels becomes a pulse of its new durations.
LEMMA AsUpright ==
    ASSUME NEW s \in Symbol, s.level0 = 1, s.level1 = 0,
           NEW d0 \in Nat, NEW d1 \in Nat
    PROVE  As(s, d0, d1) = Pulse(d0, d1)
<1> DEFINE a == As(s, d0, d1)
<1>1. /\ a \in Symbol
      /\ a.level0 = s.level0 /\ a.duration0 = d0
      /\ a.level1 = s.level1 /\ a.duration1 = d1
  BY AsFields
<1> HIDE DEF a
<1>2. a = Pulse(a.duration0, a.duration1)
  BY <1>1, UprightIsPulse
<1> QED
  BY <1>1, <1>2 DEF a

\* What a tolerance window admits, as two bounds.
LEMMA WithinRange ==
    ASSUME NEW v \in Nat, NEW ref \in Nat, NEW tol \in Nat
    PROVE  Within(v, ref, tol) <=> (ref - tol <= v /\ v <= ref + tol)
BY DEF Within, Distance

\* Snapping gives the nearer of two nominal durations; 1125 us is halfway.
LEMMA SnapValue ==
    ASSUME NEW v \in Nat
    PROVE  /\ Snap(v, 560, 560) = 560
           /\ v <= 1125 => Snap(v, 560, 1690) = 560
           /\ v > 1125 => Snap(v, 560, 1690) = 1690
BY DEF Snap, Distance

\* The window around a codeword, as bounds on the two durations.
LEMMA NearRange ==
    ASSUME NEW s \in Symbol, NEW c \in Symbol, NEW t0 \in Nat, NEW t1 \in Nat
    PROVE  Near(s, c, t0, t1) <=>
             /\ c.duration0 - t0 <= s.duration0 /\ s.duration0 <= c.duration0 + t0
             /\ c.duration1 - t1 <= s.duration1 /\ s.duration1 <= c.duration1 + t1
<1>1. /\ s.duration0 \in Nat /\ s.duration1 \in Nat
      /\ c.duration0 \in Nat /\ c.duration1 \in Nat
  BY DEF Symbol
<1> QED
  BY <1>1, WithinRange DEF Near

\* The durations of the leading codeword.
LEMMA LeadCode == Lead \in Symbol /\ Lead.duration0 = 9000 /\ Lead.duration1 = 4500
BY DEF Lead, Pulse, Symbol

\* The durations of the repeat codeword.
LEMMA RepeatCode == Repeat \in Symbol /\ Repeat.duration0 = 9000 /\ Repeat.duration1 = 2250
BY DEF Repeat, Pulse, Symbol

\* The durations of the codeword of a zero bit.
LEMMA ZeroCode == Zero \in Symbol /\ Zero.duration0 = 560 /\ Zero.duration1 = 560
BY DEF Zero, Pulse, Symbol

\* The durations of the codeword of a one bit.
LEMMA OneCode == One \in Symbol /\ One.duration0 = 560 /\ One.duration1 = 1690
BY DEF One, Pulse, Symbol

\* The windows of the four codewords.
LEMMA Windows ==
    ASSUME NEW s \in Symbol
    PROVE  /\ Near(s, Lead, 1200, 1200) <=>
                7800 <= s.duration0 /\ s.duration0 <= 10200
                /\ 3300 <= s.duration1 /\ s.duration1 <= 5700
           /\ Near(s, Repeat, 1200, 800) <=>
                7800 <= s.duration0 /\ s.duration0 <= 10200
                /\ 1450 <= s.duration1 /\ s.duration1 <= 3050
           /\ Near(s, Zero, 250, 250) <=>
                310 <= s.duration0 /\ s.duration0 <= 810
                /\ 310 <= s.duration1 /\ s.duration1 <= 810
           /\ Near(s, One, 250, 350) <=>
                310 <= s.duration0 /\ s.duration0 <= 810
                /\ 1340 <= s.duration1 /\ s.duration1 <= 2040
<1>1. s.duration0 \in Nat /\ s.duration1 \in Nat
  BY DEF Symbol
<1>2. Near(s, Lead, 1200, 1200) <=>
        /\ 9000 - 1200 <= s.duration0 /\ s.duration0 <= 9000 + 1200
        /\ 4500 - 1200 <= s.duration1 /\ s.duration1 <= 4500 + 1200
  BY LeadCode, NearRange
<1>3. Near(s, Repeat, 1200, 800) <=>
        /\ 9000 - 1200 <= s.duration0 /\ s.duration0 <= 9000 + 1200
        /\ 2250 - 800 <= s.duration1 /\ s.duration1 <= 2250 + 800
  BY RepeatCode, NearRange
<1>4. Near(s, Zero, 250, 250) <=>
        /\ 560 - 250 <= s.duration0 /\ s.duration0 <= 560 + 250
        /\ 560 - 250 <= s.duration1 /\ s.duration1 <= 560 + 250
  BY ZeroCode, NearRange
<1>5. Near(s, One, 250, 350) <=>
        /\ 560 - 250 <= s.duration0 /\ s.duration0 <= 560 + 250
        /\ 1690 - 350 <= s.duration1 /\ s.duration1 <= 1690 + 350
  BY OneCode, NearRange
<1> QED
  BY <1>1, <1>2, <1>3, <1>4, <1>5
-----------------------------------------------------------------------------
(* The hook on one symbol.                                                 *)

\* The end marker stays, with a short burst before it.
LEMMA CanonEnd ==
    ASSUME NEW s \in Symbol, s.duration1 = 0
    PROVE  Canon(s) = As(s, 560, 0)
<1>1. ~Near(s, Lead, 1200, 1200) /\ ~Near(s, Repeat, 1200, 800)
      /\ ~Near(s, Zero, 250, 250) /\ ~Near(s, One, 250, 350)
  BY Windows
<1>2. Snap(s.duration0, 560, 560) = 560
  BY SnapValue DEF Symbol
<1> QED
  BY <1>1, <1>2 DEF Canon

\* No two windows share a symbol, so the order of the checks does not matter.
LEMMA CanonLead ==
    ASSUME NEW s \in Symbol, s.duration1 > 0, Near(s, Lead, 1200, 1200)
    PROVE  Canon(s) = As(s, 9000, 4500)
<1>1. s.duration0 \in Nat /\ s.duration1 \in Nat
  BY DEF Symbol
<1>2. ~Near(s, Repeat, 1200, 800) /\ ~Near(s, Zero, 250, 250)
      /\ ~Near(s, One, 250, 350) /\ s.duration1 # 0
  BY <1>1, Windows
<1> QED
  BY <1>2 DEF Canon

\* The repeat window alone holds a repeat codeword.
LEMMA CanonRepeat ==
    ASSUME NEW s \in Symbol, s.duration1 > 0, Near(s, Repeat, 1200, 800)
    PROVE  Canon(s) = As(s, 9000, 2250)
<1>1. s.duration0 \in Nat /\ s.duration1 \in Nat
  BY DEF Symbol
<1>2. ~Near(s, Lead, 1200, 1200) /\ ~Near(s, Zero, 250, 250)
      /\ ~Near(s, One, 250, 350) /\ s.duration1 # 0
  BY <1>1, Windows
<1> QED
  BY <1>2 DEF Canon

\* Outside the windows of the leading codes each duration goes to its nearer bin,
\* whether a bit's window holds the symbol or not.
LEMMA CanonBit ==
    ASSUME NEW s \in Symbol, s.duration1 > 0,
           ~Near(s, Lead, 1200, 1200), ~Near(s, Repeat, 1200, 800)
    PROVE  Canon(s) = As(s, Snap(s.duration0, 560, 1690), Snap(s.duration1, 560, 1690))
<1>1. s.duration0 \in Nat /\ s.duration1 \in Nat /\ s.duration1 # 0
  BY DEF Symbol
<1>2. CASE Near(s, Zero, 250, 250)
  <2>1. Snap(s.duration0, 560, 1690) = 560 /\ Snap(s.duration1, 560, 1690) = 560
    BY <1>1, <1>2, Windows, SnapValue
  <2>2. ~Near(s, One, 250, 350)
    BY <1>1, <1>2, Windows
  <2> QED
    BY <1>1, <1>2, <2>1, <2>2 DEF Canon
<1>3. CASE Near(s, One, 250, 350)
  <2>1. Snap(s.duration0, 560, 1690) = 560 /\ Snap(s.duration1, 560, 1690) = 1690
    BY <1>1, <1>3, Windows, SnapValue
  <2>2. ~Near(s, Zero, 250, 250)
    BY <1>1, <1>3, Windows
  <2> QED
    BY <1>1, <1>3, <2>1, <2>2 DEF Canon
<1>4. CASE ~Near(s, Zero, 250, 250) /\ ~Near(s, One, 250, 350)
  BY <1>1, <1>4 DEF Canon
<1> QED
  BY <1>2, <1>3, <1>4

\* The hook turns a symbol into a symbol.
LEMMA CanonType == ASSUME NEW s \in Symbol PROVE Canon(s) \in Symbol
<1>1. s.duration0 \in Nat /\ s.duration1 \in Nat
  BY DEF Symbol
<1>2. \A d0, d1 \in Nat : As(s, d0, d1) \in Symbol
  BY DEF As, Symbol
<1>3. CASE s.duration1 = 0
  BY <1>2, <1>3, CanonEnd
<1>4. CASE s.duration1 > 0 /\ Near(s, Lead, 1200, 1200)
  BY <1>2, <1>4, CanonLead
<1>5. CASE s.duration1 > 0 /\ Near(s, Repeat, 1200, 800)
  BY <1>2, <1>5, CanonRepeat
<1>6. CASE /\ s.duration1 > 0 /\ ~Near(s, Lead, 1200, 1200)
           /\ ~Near(s, Repeat, 1200, 800)
  <2>1. Snap(s.duration0, 560, 1690) \in Nat /\ Snap(s.duration1, 560, 1690) \in Nat
    BY <1>1, SnapValue
  <2> QED
    BY <1>2, <1>6, <2>1, CanonBit
<1> QED
  BY <1>1, <1>3, <1>4, <1>5, <1>6

\* What the hook makes of a symbol that does not end the frame is a code.
LEMMA CanonIsCode ==
    ASSUME NEW s \in Symbol, s.duration1 > 0, s.level0 = 1, s.level1 = 0
    PROVE  Canon(s) \in Codes
<1>1. s.duration0 \in Nat /\ s.duration1 \in Nat
  BY DEF Symbol
<1>2. \A d0, d1 \in Nat : As(s, d0, d1) = Pulse(d0, d1)
  BY AsUpright
<1>3. CASE Near(s, Lead, 1200, 1200)
  BY <1>2, <1>3, CanonLead DEF Codes, Lead
<1>4. CASE Near(s, Repeat, 1200, 800)
  BY <1>2, <1>4, CanonRepeat DEF Codes, Repeat
<1>5. CASE ~Near(s, Lead, 1200, 1200) /\ ~Near(s, Repeat, 1200, 800)
  <2>1. /\ Snap(s.duration0, 560, 1690) \in {560, 1690}
        /\ Snap(s.duration1, 560, 1690) \in {560, 1690}
    BY <1>1, SnapValue
  <2>2. Canon(s) = Pulse(Snap(s.duration0, 560, 1690), Snap(s.duration1, 560, 1690))
    BY <1>2, <1>5, <2>1, CanonBit
  <2> QED
    BY <2>1, <2>2 DEF Codes, Zero, One
<1> QED
  BY <1>3, <1>4, <1>5

\* A code captured with any error the assumption allows is recognised.
LEMMA CanonRecovers ==
    ASSUME NEW c \in Codes, NEW s \in Symbol, s.duration1 > 0,
           s.level0 = 1, s.level1 = 0,
           NEW e0 \in Int, NEW e1 \in Int,
           -564 <= e0, e0 <= 564, -564 <= e1, e1 <= 564,
           s.duration0 = c.duration0 + e0, s.duration1 = c.duration1 + e1
    PROVE  Canon(s) = c
<1>1. s.duration0 \in Nat /\ s.duration1 \in Nat
  BY DEF Symbol
<1>2. \A d0, d1 \in Nat : As(s, d0, d1) = Pulse(d0, d1)
  BY AsUpright
<1>3. CASE c = Lead
  <2>1. Near(s, Lead, 1200, 1200)
    BY <1>1, <1>3, LeadCode, Windows
  <2> QED
    BY <1>2, <1>3, <2>1, CanonLead DEF Lead
<1>4. CASE c = Repeat
  <2>1. Near(s, Repeat, 1200, 800)
    BY <1>1, <1>4, RepeatCode, Windows
  <2> QED
    BY <1>2, <1>4, <2>1, CanonRepeat DEF Repeat
<1>5. CASE \E d0, d1 \in {560, 1690} : c = Pulse(d0, d1)
  <2>1. PICK d0 \in {560, 1690}, d1 \in {560, 1690} : c = Pulse(d0, d1)
    BY <1>5
  <2>2. c.duration0 = d0 /\ c.duration1 = d1
    BY <2>1, PulseType
  <2>3. s.duration0 < 7800
    BY <1>1, <2>1, <2>2
  <2>4. ~Near(s, Lead, 1200, 1200) /\ ~Near(s, Repeat, 1200, 800)
    BY <1>1, <2>3, Windows
  <2>5. Snap(s.duration0, 560, 1690) = d0 /\ Snap(s.duration1, 560, 1690) = d1
    BY <1>1, <2>1, <2>2, SnapValue
  <2> QED
    BY <1>2, <2>1, <2>4, <2>5, CanonBit
<1> QED
  BY <1>3, <1>4, <1>5 DEF Codes, Zero, One
-----------------------------------------------------------------------------
(* What the hook promises of one symbol.                                   *)

\* A symbol the hook gives the durations it already has is left as it is.
LEMMA AsItself ==
    ASSUME NEW s \in Symbol, NEW d0 \in Nat, NEW d1 \in Nat
    PROVE  As(As(s, d0, d1), d0, d1) = As(s, d0, d1)
<1> DEFINE a == As(s, d0, d1)
           b == As(a, d0, d1)
<1>1. a \in Symbol /\ a.duration0 = d0 /\ a.duration1 = d1
  BY AsFields
<1>2. /\ b \in Symbol /\ b.duration0 = d0 /\ b.duration1 = d1
      /\ b.level0 = a.level0 /\ b.level1 = a.level1
  <2> HIDE DEF a
  <2> QED  BY <1>1, AsFields
<1> HIDE DEF a, b
<1>3. b = a
  BY <1>1, <1>2, SymbolEquality
<1> QED  BY <1>3 DEF a, b

\* utilities.c:80 "doesn't drift": for every symbol, of whatever levels
\* and durations, a second pass of nec_canon_symbol changes nothing.
THEOREM CanonSettles ==
    ASSUME NEW s \in Symbol
    PROVE  Canon(Canon(s)) = Canon(s)
<1>1. s.duration0 \in Nat /\ s.duration1 \in Nat
  BY DEF Symbol
<1>2. \A d0, d1 \in Nat :
        /\ As(s, d0, d1) \in Symbol /\ As(As(s, d0, d1), d0, d1) = As(s, d0, d1)
        /\ As(s, d0, d1).duration0 = d0 /\ As(s, d0, d1).duration1 = d1
  BY AsFields, AsItself
<1>3. CASE s.duration1 = 0
  BY <1>2, <1>3, CanonEnd
<1>4. CASE s.duration1 > 0 /\ Near(s, Lead, 1200, 1200)
  <2>1. Canon(s) = As(s, 9000, 4500)
    BY <1>4, CanonLead
  <2>2. Near(As(s, 9000, 4500), Lead, 1200, 1200) /\ As(s, 9000, 4500).duration1 > 0
    <3>1. /\ As(s, 9000, 4500) \in Symbol /\ As(s, 9000, 4500).duration0 = 9000
          /\ As(s, 9000, 4500).duration1 = 4500
      BY <1>2
    <3> QED  BY <3>1, Windows
  <2> QED  BY <1>2, <2>1, <2>2, CanonLead
<1>5. CASE s.duration1 > 0 /\ Near(s, Repeat, 1200, 800)
  <2>1. Canon(s) = As(s, 9000, 2250)
    BY <1>5, CanonRepeat
  <2>2. Near(As(s, 9000, 2250), Repeat, 1200, 800) /\ As(s, 9000, 2250).duration1 > 0
    <3>1. /\ As(s, 9000, 2250) \in Symbol /\ As(s, 9000, 2250).duration0 = 9000
          /\ As(s, 9000, 2250).duration1 = 2250
      BY <1>2
    <3> QED  BY <3>1, Windows
  <2> QED  BY <1>2, <2>1, <2>2, CanonRepeat
<1>6. CASE /\ s.duration1 > 0 /\ ~Near(s, Lead, 1200, 1200)
           /\ ~Near(s, Repeat, 1200, 800)
  <2>1. PICK d0 \in {560, 1690}, d1 \in {560, 1690} : Canon(s) = As(s, d0, d1)
    BY <1>1, <1>6, CanonBit, SnapValue
  <2>2. /\ As(s, d0, d1) \in Symbol /\ As(As(s, d0, d1), d0, d1) = As(s, d0, d1)
        /\ As(s, d0, d1).duration0 = d0 /\ As(s, d0, d1).duration1 = d1
    BY <1>2
  <2>3. /\ ~Near(As(s, d0, d1), Lead, 1200, 1200)
        /\ ~Near(As(s, d0, d1), Repeat, 1200, 800)
    BY <2>2, Windows
  <2>4. Snap(d0, 560, 1690) = d0 /\ Snap(d1, 560, 1690) = d1
    BY SnapValue
  <2>5. Canon(As(s, d0, d1)) = As(As(s, d0, d1), d0, d1)
    BY <2>2, <2>3, <2>4, CanonBit
  <2> QED  BY <2>1, <2>2, <2>5
<1> QED  BY <1>1, <1>3, <1>4, <1>5, <1>6

\* How much error the hook corrects, exactly: up to 564 us in either duration of a
\* codeword, and not 565: a long pause of 1690 - 565 us is read as a short one.
THEOREM ToleranceIsExact ==
    /\ \A c \in Codes, s \in Symbol, e0, e1 \in -564..564 :
         (/\ s.duration1 > 0 /\ s.level0 = 1 /\ s.level1 = 0
          /\ s.duration0 = c.duration0 + e0 /\ s.duration1 = c.duration1 + e1)
             => Canon(s) = c
    /\ Canon(Pulse(560, 1125)) = Zero
<1>1. ASSUME NEW c \in Codes, NEW s \in Symbol
      PROVE  \A e0, e1 \in -564..564 :
               (/\ s.duration1 > 0 /\ s.level0 = 1 /\ s.level1 = 0
                /\ s.duration0 = c.duration0 + e0 /\ s.duration1 = c.duration1 + e1)
                   => Canon(s) = c
  <2> TAKE e0, e1 \in -564..564
  <2> HAVE /\ s.duration1 > 0 /\ s.level0 = 1 /\ s.level1 = 0
           /\ s.duration0 = c.duration0 + e0 /\ s.duration1 = c.duration1 + e1
  <2>1. /\ e0 \in Int /\ -564 <= e0 /\ e0 <= 564
        /\ e1 \in Int /\ -564 <= e1 /\ e1 <= 564
    OBVIOUS
  <2> QED  BY <2>1, CanonRecovers
<1>2. Canon(Pulse(560, 1125)) = Zero
  <2>1. /\ Pulse(560, 1125) \in Symbol
        /\ Pulse(560, 1125).level0 = 1 /\ Pulse(560, 1125).duration0 = 560
        /\ Pulse(560, 1125).level1 = 0 /\ Pulse(560, 1125).duration1 = 1125
    BY PulseType
  <2>2. /\ ~Near(Pulse(560, 1125), Lead, 1200, 1200)
        /\ ~Near(Pulse(560, 1125), Repeat, 1200, 800)
    BY <2>1, Windows
  <2>3. Snap(560, 560, 1690) = 560 /\ Snap(1125, 560, 1690) = 560
    BY SnapValue
  <2>4. Canon(Pulse(560, 1125)) = As(Pulse(560, 1125), 560, 560)
    BY <2>1, <2>2, <2>3, CanonBit
  <2> QED  BY <2>1, <2>4, AsUpright DEF Zero
<1> QED  BY <1>1, <1>2
-----------------------------------------------------------------------------
(* Frames.                                                                 *)

\* Every codeword is a symbol that starts with its burst.
LEMMA CodesType == \A c \in Codes : c \in Symbol /\ c.level0 = 1 /\ c.level1 = 0
<1>1. \A c \in Codes : \E d0, d1 \in Nat : c = Pulse(d0, d1)
  BY DEF Codes, Lead, Repeat, Zero, One
<1> QED
  BY <1>1, PulseType

\* The capture errors considered are small integers.
LEMMA JitterRange == \A j \in Jitter : j \in Int /\ -564 <= j /\ j <= 564
<1>1. Jitter \subseteq -564..564
  BY IrFrameAssumption
<1> QED
  BY <1>1

\* A clear capture of an upright frame: well formed, its levels inverted, its
\* last pause cut off.
LEMMA HeardFacts ==
    ASSUME NEW f \in Symbols, Len(f) > 0, BurstsFirst(f),
           NEW noise \in [1..2 * Len(f) - 1 -> Jitter], Clear(Heard(f, noise))
    PROVE  LET raw == Heard(f, noise)
           IN  /\ raw \in Symbols /\ Len(raw) = Len(f)
               /\ \A i \in 1..Len(f) :
                    /\ raw[i].level0 = 0 /\ raw[i].level1 = 1
                    /\ raw[i].duration0 = f[i].duration0 + noise[2 * i - 1]
                    /\ i < Len(f) =>
                         /\ raw[i].duration1 = f[i].duration1 + noise[2 * i]
                         /\ raw[i].duration1 > 0
                    /\ i = Len(f) => raw[i].duration1 = 0
<1> DEFINE raw == Heard(f, noise)
           n == Len(f)
<1>1. n \in Nat /\ n > 0 /\ \A i \in 1..n : f[i] \in Symbol
  BY DEF Symbols
<1>2. \A i \in 1..n : 2 * i - 1 \in 1..2 * n - 1 /\ (i < n => 2 * i \in 1..2 * n - 1)
  BY <1>1
<1>3. \A k \in 1..2 * n - 1 : noise[k] \in Int
  BY JitterRange
<1>4. raw = [i \in 1..n |->
               As(Flipped(f[i]), f[i].duration0 + noise[2 * i - 1],
                  IF i = n THEN 0 ELSE f[i].duration1 + noise[2 * i])]
  BY DEF Heard
<1>5. DOMAIN raw = 1..n
  BY <1>4
<1>6. Len(raw) = n
  BY <1>1, <1>4
<1>7. ASSUME NEW i \in 1..n
      PROVE  /\ raw[i] \in Symbol
             /\ raw[i].level0 = 0 /\ raw[i].level1 = 1
             /\ raw[i].duration0 = f[i].duration0 + noise[2 * i - 1]
             /\ i < n => /\ raw[i].duration1 = f[i].duration1 + noise[2 * i]
                         /\ raw[i].duration1 > 0
             /\ i = n => raw[i].duration1 = 0
  <2> DEFINE d0 == f[i].duration0 + noise[2 * i - 1]
             d1 == IF i = n THEN 0 ELSE f[i].duration1 + noise[2 * i]
             s == Flipped(f[i])
  <2>1. f[i] \in Symbol /\ f[i].level0 = 1 /\ f[i].level1 = 0
    BY <1>1 DEF BurstsFirst
  <2>2. s \in Symbol /\ s.level0 = 0 /\ s.level1 = 1
    BY <2>1, FlippedFields
  <2>3. raw[i] = As(s, d0, d1)
    BY <1>4
  <2>4. As(s, d0, d1).duration0 = d0 /\ As(s, d0, d1).duration1 = d1
    BY <2>2 DEF As, Symbol
  <2>5. raw[i].duration0 > 0 /\ (i < n => raw[i].duration1 > 0)
    BY <1>6 DEF Clear
  <2>6. f[i].duration0 \in Nat /\ f[i].duration1 \in Nat
    BY <2>1 DEF Symbol
  <2>7. noise[2 * i - 1] \in Int /\ (i < n => noise[2 * i] \in Int)
    BY <1>2, <1>3
  <2>8. d0 \in Nat
    BY <2>3, <2>4, <2>5, <2>6, <2>7
  <2>9. d1 \in Nat /\ (i < n => d1 = f[i].duration1 + noise[2 * i])
    BY <1>1, <2>3, <2>4, <2>5, <2>6, <2>7
  <2> HIDE DEF d0, d1, s
  <2>10. /\ As(s, d0, d1) \in Symbol
         /\ As(s, d0, d1).level0 = 0 /\ As(s, d0, d1).level1 = 1
    BY <2>2, <2>8, <2>9 DEF As, Symbol
  <2> QED
    BY <2>3, <2>4, <2>5, <2>9, <2>10 DEF d0, d1
<1>8. raw \in Symbols
  <2>1. raw \in [1..n -> Symbol]
    BY <1>4, <1>7
  <2> QED
    BY <1>1, <2>1 DEF Symbols
<1> QED
  BY <1>6, <1>7, <1>8

\* What ir_handle_rx_done keeps of it.
LEMMA RecoveredFacts ==
    ASSUME NEW raw \in Symbols
    PROVE  LET g == Normalized(Inverted(raw))
           IN  /\ Len(g) = Len(raw) /\ g \in Seq({Canon(s) : s \in Symbol})
               /\ \A i \in 1..Len(raw) : g[i] = Canon(Flipped(raw[i]))
<1> DEFINE n == Len(raw)
           h == Inverted(raw)
<1>1. n \in Nat /\ \A i \in 1..n : raw[i] \in Symbol
  BY DEF Symbols
<1>2. h = [i \in 1..n |-> Flipped(raw[i])]
  BY DEF Inverted
<1>3. Len(h) = n
  BY <1>1, <1>2
<1>4. Normalized(h) = [i \in 1..n |-> Canon(h[i])]
  BY <1>3 DEF Normalized
<1>5. Len(Normalized(h)) = n
  BY <1>1, <1>4
<1>6. \A i \in 1..n : Normalized(h)[i] = Canon(Flipped(raw[i]))
  BY <1>2, <1>4
<1>7. \A i \in 1..n : Flipped(raw[i]) \in Symbol
  BY <1>1, FlippedFields
<1>8. Normalized(h) \in [1..n -> {Canon(s) : s \in Symbol}]
  BY <1>4, <1>6, <1>7
<1> QED
  BY <1>1, <1>5, <1>6, <1>8

\* Whatever upright frame was on the air, the frame kept is settled; if the frame
\* on the air was clean, it is that frame with its last pause cut off.
LEMMA Recovery ==
    ASSUME NEW f \in Symbols, Len(f) > 0, BurstsFirst(f),
           NEW noise \in [1..2 * Len(f) - 1 -> Jitter], Clear(Heard(f, noise))
    PROVE  LET g == Normalized(Inverted(Heard(f, noise)))
           IN  Settled(g) /\ (Clean(f) => g = Cut(f))
<1> DEFINE raw == Heard(f, noise)
           g == Normalized(Inverted(raw))
           n == Len(f)
<1>1. n \in Nat /\ n > 0 /\ \A i \in 1..n : f[i] \in Symbol
  BY DEF Symbols
<1>2. /\ raw \in Symbols /\ Len(raw) = n
      /\ \A i \in 1..n :
           /\ raw[i].level0 = 0 /\ raw[i].level1 = 1
           /\ raw[i].duration0 = f[i].duration0 + noise[2 * i - 1]
           /\ i < n => /\ raw[i].duration1 = f[i].duration1 + noise[2 * i]
                       /\ raw[i].duration1 > 0
           /\ i = n => raw[i].duration1 = 0
  BY HeardFacts
<1>3. /\ Len(g) = n /\ g \in Seq({Canon(s) : s \in Symbol})
      /\ \A i \in 1..n : g[i] = Canon(Flipped(raw[i]))
  BY <1>2, RecoveredFacts
<1> HIDE DEF raw, g, n
<1>4. ASSUME NEW i \in 1..n
      PROVE  /\ i < n => g[i] \in Codes
             /\ i = n => g[i] = End
             /\ (i < n /\ f[i] \in Codes) => g[i] = f[i]
  <2>1. raw[i] \in Symbol
    BY <1>2 DEF Symbols
  <2> DEFINE s == Flipped(raw[i])
  <2>2. /\ s \in Symbol /\ s.level0 = 1 /\ s.level1 = 0
        /\ s.duration0 = raw[i].duration0 /\ s.duration1 = raw[i].duration1
    BY <1>2, <2>1, FlippedFields
  <2>3. g[i] = Canon(s)
    BY <1>3
  <2> HIDE DEF s
  <2>4. CASE i = n
    <3>1. Canon(s) = As(s, 560, 0)
      BY <1>2, <2>2, <2>4, CanonEnd
    <3>2. As(s, 560, 0) = Pulse(560, 0)
      BY <2>2, AsUpright
    <3> QED
      BY <2>3, <2>4, <3>1, <3>2 DEF End
  <2>5. CASE i < n
    <3>1. s.duration1 > 0
      BY <1>2, <2>2, <2>5
    <3>2. g[i] \in Codes
      BY <2>2, <2>3, <3>1, CanonIsCode
    <3>3. ASSUME f[i] \in Codes PROVE g[i] = f[i]
      <4>1. 2 * i - 1 \in 1..2 * n - 1 /\ 2 * i \in 1..2 * n - 1
        BY <1>1, <2>5
      <4> DEFINE c == f[i]
                 e0 == noise[2 * i - 1]
                 e1 == noise[2 * i]
      <4>2. e0 \in Jitter /\ e1 \in Jitter
        BY <4>1 DEF n
      <4>3. s.duration0 = c.duration0 + e0 /\ s.duration1 = c.duration1 + e1
        BY <1>2, <2>2, <2>5
      <4>4. c \in Codes
        BY <3>3
      <4> HIDE DEF c, e0, e1
      <4>5. /\ e0 \in Int /\ -564 <= e0 /\ e0 <= 564
            /\ e1 \in Int /\ -564 <= e1 /\ e1 <= 564
        BY <4>2, JitterRange
      <4>6. Canon(s) = c
        BY <2>2, <3>1, <4>3, <4>4, <4>5, CanonRecovers
      <4> QED
        BY <2>3, <4>6 DEF c
    <3> QED
      BY <2>5, <3>2, <3>3
  <2> QED
    BY <1>1, <2>4, <2>5
<1>5. \A i \in 1..n : g[i] \in Symbol /\ g[i].level0 = 1 /\ g[i].level1 = 0
  <2>1. End \in Symbol /\ End.level0 = 1 /\ End.level1 = 0
    BY PulseType DEF End
  <2>2. ASSUME NEW i \in 1..n
        PROVE  g[i] \in Symbol /\ g[i].level0 = 1 /\ g[i].level1 = 0
    <3>1. CASE i < n
      BY <1>4, <3>1, CodesType
    <3>2. CASE i = n
      BY <1>4, <2>1, <3>2
    <3> QED
      BY <1>1, <3>1, <3>2
  <2> QED
    BY <2>2
<1>6. g = [i \in 1..n |-> g[i]]
  BY <1>3
<1>7. g \in Symbols
  <2>1. [i \in 1..n |-> g[i]] \in [1..n -> Symbol]
    BY <1>5
  <2> QED
    BY <1>1, <1>6, <2>1 DEF Symbols
<1>8. Settled(g)
  <2>1. n \in 1..n
    BY <1>1
  <2>2. g[n] = End
    BY <1>4, <2>1
  <2>3. End.duration0 = 560
    BY PulseType DEF End
  <2> QED
    BY <1>1, <1>3, <1>4, <1>5, <1>7, <2>2, <2>3 DEF Settled, Clean, BurstsFirst
<1>9. ASSUME Clean(f) PROVE g = Cut(f)
  <2>1. \A i \in 1..n : i < n => f[i] \in Codes
    BY <1>9 DEF Clean, n
  <2>2. \A i \in 1..n : g[i] = IF i = n THEN End ELSE f[i]
    BY <1>1, <1>4, <2>1
  <2> QED
    BY <1>6, <2>2 DEF Cut, n
<1> QED
  BY <1>8, <1>9 DEF g, raw

\* Cutting a settled frame changes nothing.
LEMMA SettledCut ==
    ASSUME NEW f, Settled(f)
    PROVE  Cut(f) = f /\ Clean(f) /\ BurstsFirst(f) /\ f \in Symbols /\ Len(f) > 0
<1>1. f \in Symbols /\ Len(f) > 0 /\ f[Len(f)] = End
  BY DEF Settled, Clean
<1>2. f = [i \in 1..Len(f) |-> f[i]]
  BY <1>1 DEF Symbols
<1>3. \A i \in 1..Len(f) : f[i] = IF i = Len(f) THEN End ELSE f[i]
  BY <1>1
<1> QED
  BY <1>1, <1>2, <1>3 DEF Cut, Settled, Clean

\* Every symbol of an NEC frame starts with its burst.
LEMMA NecBurstsFirst ==
    ASSUME NEW f \in Symbols, IsNec(f)
    PROVE  BurstsFirst(f)
<1>1. Len(f) \in Nat /\ Len(f) > 1
  BY DEF IsNec, Symbols
<1>2. \A i \in 1..Len(f) : f[i] \in Codes
  BY <1>1 DEF IsNec, Codes
<1> QED
  BY <1>2, CodesType DEF BurstsFirst

\* An NEC frame is a clean frame: the hook leaves it alone.
LEMMA NecIsClean ==
    ASSUME NEW f \in Symbols, IsNec(f), BurstsFirst(f)
    PROVE  Clean(f)
<1>1. Len(f) \in Nat /\ Len(f) > 1
  BY DEF IsNec, Symbols
<1>2. \A i \in 1..Len(f) : f[i] \in {Lead, Repeat, Zero, One}
  BY <1>1 DEF IsNec
<1>3. f[Len(f)] \in {Zero, One}
  BY <1>1 DEF IsNec
<1>4. f[Len(f)].duration0 = 560
  BY <1>3, ZeroCode, OneCode
<1> QED
  BY <1>1, <1>2, <1>4 DEF Clean, Codes
-----------------------------------------------------------------------------
(* The invariant.                                                          *)

\* What the assumption says of a remote control's frame.
LEMMA RemoteFrames ==
    \A f \in Remotes : f \in Symbols /\ Len(f) > 0 /\ BurstsFirst(f)
BY IrFrameAssumption

\* The options enumerated are options of a learn.
LEMMA OptsType == Opts \subseteq LearnOpts
BY IrFrameAssumption

\* An unknown ancestry names no frame.
LEMMA UnknownFacts == Unknown \in Kinship /\ Unknown.origin = << >> /\ Unknown.first = << >>
BY DEF Unknown, Kinship, Symbols

\* Any capture is well formed, and so is what is made of it.
LEMMA ProcessedType ==
    ASSUME NEW raw \in Symbols, NEW o \in LearnOpts
    PROVE  Processed(o, raw) \in Symbols /\ Len(Processed(o, raw)) = Len(raw)
<1>1. ASSUME NEW h \in Symbols
      PROVE  Inverted(h) \in Symbols /\ Len(Inverted(h)) = Len(h)
  <2>1. Len(h) \in Nat /\ \A i \in 1..Len(h) : h[i] \in Symbol
    BY DEF Symbols
  <2>2. Inverted(h) = [i \in 1..Len(h) |-> Flipped(h[i])]
    BY DEF Inverted
  <2>3. \A i \in 1..Len(h) : Flipped(h[i]) \in Symbol
    BY <2>1, FlippedFields
  <2>4. Inverted(h) \in [1..Len(h) -> Symbol]
    BY <2>2, <2>3
  <2> QED
    BY <2>1, <2>4 DEF Symbols
<1>2. ASSUME NEW h \in Symbols
      PROVE  Normalized(h) \in Symbols /\ Len(Normalized(h)) = Len(h)
  <2>1. Len(h) \in Nat /\ \A i \in 1..Len(h) : h[i] \in Symbol
    BY DEF Symbols
  <2>2. Normalized(h) = [i \in 1..Len(h) |-> Canon(h[i])]
    BY DEF Normalized
  <2>3. \A i \in 1..Len(h) : Canon(h[i]) \in Symbol
    BY <2>1, CanonType
  <2>4. Normalized(h) \in [1..Len(h) -> Symbol]
    BY <2>2, <2>3
  <2> QED
    BY <2>1, <2>4 DEF Symbols
<1> QED
  BY <1>1, <1>2 DEF Processed

\* The frame a learn with inversion and normalisation keeps carries the ancestry
\* of what was on the air.
LEMMA LearnKeepsKin ==
    ASSUME NEW a \in Symbols, NEW k \in Kinship, Kindred(a, k),
           NEW f \in Waveforms(a), a # << >>,
           NEW noise \in [1..2 * Len(f) - 1 -> Jitter], Clear(Heard(f, noise)),
           NEW o \in LearnOpts
    PROVE  LET g == Processed(o, Heard(f, noise))
               q == Ancestry(o, k, g)
           IN  Kindred(g, q) /\ (q.first = << >> => q = Unknown)
<1> DEFINE raw == Heard(f, noise)
           g == Processed(o, raw)
           q == Ancestry(o, k, g)
<1>1. CASE ~(o.invert /\ o.normalize)
  <2>1. q = Unknown
    BY <1>1 DEF Ancestry
  <2> QED
    BY <2>1, UnknownFacts DEF Kindred
<1>2. CASE o.invert /\ o.normalize
  <2>1. g = Normalized(Inverted(raw))
    BY <1>2 DEF Processed
  <2>2. f \in Symbols /\ Len(f) > 0 /\ BurstsFirst(f)
    BY RemoteFrames DEF Waveforms, Symbols
  <2>3. Settled(g) /\ (Clean(f) => g = Cut(f))
    BY <2>1, <2>2, Recovery
  <2> HIDE DEF g, raw
  <2>4. q = [k EXCEPT !.first = IF k.first = << >> THEN g ELSE k.first]
    BY <1>2 DEF Ancestry, Kinship
  <2>5. g # << >>
    BY <2>3 DEF Settled, Clean
  <2> HIDE DEF q
  <2>6. ASSUME k.first # << >>
        PROVE  Kindred(g, q) /\ q.first # << >>
    <3>1. a = k.first /\ Settled(a)
      BY <2>6 DEF Kindred
    <3>2. f = a /\ g = a
      BY <2>3, <3>1, SettledCut DEF Waveforms
    <3>3. q.first = k.first /\ q.origin = k.origin
      BY <2>4, <2>6 DEF Kinship
    <3>4. IsNec(q.origin) => g = Cut(q.origin)
      BY <2>6, <3>2, <3>3 DEF Kindred
    <3> QED
      BY <2>6, <3>1, <3>2, <3>3, <3>4 DEF Kindred
  <2>7. ASSUME k.first = << >>
        PROVE  Kindred(g, q) /\ q.first # << >>
    <3>1. q.first = g /\ q.origin = k.origin
      BY <2>4, <2>7 DEF Kinship
    <3>2. ASSUME IsNec(k.origin) PROVE g = Cut(k.origin)
      <4>1. k.origin # << >>
        BY <3>2 DEF IsNec
      <4>2. a = k.origin
        BY <2>7, <4>1 DEF Kindred
      <4>3. BurstsFirst(a)
        BY <3>2, <4>2, NecBurstsFirst
      <4>4. f = a
        BY <4>3 DEF Waveforms
      <4> QED
        BY <2>2, <2>3, <3>2, <4>2, <4>4, NecIsClean
    <3> QED
      BY <2>3, <2>5, <3>1, <3>2 DEF Kindred
  <2> QED
    BY <2>6, <2>7 DEF g, q, raw
<1> QED
  BY <1>1, <1>2

\* The ancestry of a learned frame has its type.
LEMMA AncestryType ==
    ASSUME NEW o \in LearnOpts, NEW k \in Kinship, NEW g \in Symbols
    PROVE  Ancestry(o, k, g) \in Kinship
<1>1. [k EXCEPT !.first = IF k.first = << >> THEN g ELSE k.first] \in Kinship
  BY DEF Kinship
<1>2. Ancestry(o, k, g) \in {[k EXCEPT !.first = IF k.first = << >> THEN g ELSE k.first], Unknown}
  BY DEF Ancestry, Kinship
<1> QED
  BY <1>1, <1>2, UnknownFacts

\* A learn that hears something: what it may write to its slot.
LEMMA RxDoneFacts ==
    ASSUME TypeOK, NEW u \in Units, RxDone(u), slots' # slots \/ kin' # kin
    PROVE  \E s \in Slots, o \in LearnOpts, f \in Waveforms(air.frame) :
             \E noise \in [1..2 * Len(f) - 1 -> Jitter] :
               /\ Clear(Heard(f, noise)) /\ Heard(f, noise) \in Symbols
               /\ Len(Heard(f, noise)) <= MaxFrame
               /\ slots' = [slots EXCEPT ![u][s] = Processed(o, Heard(f, noise))]
               /\ kin' = [kin EXCEPT ![u][s] =
                            Ancestry(o, air.kin, Processed(o, Heard(f, noise)))]
<1>1. unit[u] \in Learning
  BY DEF RxDone, TypeOK
<1>2. unit[u].slot \in Slots /\ unit[u].opts \in LearnOpts
  BY <1>1 DEF Learning
<1>3. PICK f \in Waveforms(air.frame) :
        \E noise \in [1..2 * Len(f) - 1 -> Jitter] :
          Clear(Heard(f, noise)) /\ Stored(u, Heard(f, noise))
  BY DEF RxDone
<1>4. PICK noise \in [1..2 * Len(f) - 1 -> Jitter] :
        Clear(Heard(f, noise)) /\ Stored(u, Heard(f, noise))
  BY <1>3
<1>5. f \in Symbols /\ Len(f) > 0 /\ BurstsFirst(f)
  <2>1. air.frame \in Symbols /\ air.frame # << >>
    BY DEF TypeOK, RxDone
  <2> QED
    BY <2>1, RemoteFrames DEF Waveforms, Symbols
<1>6. Heard(f, noise) \in Symbols
  BY <1>4, <1>5, HeardFacts
<1>7. Len(Heard(f, noise)) <= MaxFrame
  <2>1. Len(Heard(f, noise)) \in 1..MaxFrame
    BY <1>4 DEF Stored, Accepted
  <2> QED
    BY <2>1, IrFrameAssumption
<1> QED
  BY <1>2, <1>4, <1>6, <1>7 DEF Stored

\* Every step keeps the type invariant.
LEMMA TypeStep == TypeOK /\ [Next]_vars => TypeOK'
<1> SUFFICES ASSUME TypeOK, [Next]_vars PROVE TypeOK'
  OBVIOUS
<1>1. CASE UNCHANGED vars
  BY <1>1 DEF TypeOK, vars
<1>2. CASE Press
  <2>1. air' \in [frame : Symbols, kin : Kinship]
    BY <1>2, RemoteFrames DEF Press, Kinship, Symbols
  <2>2. sends' \in 0..MaxSends
    BY <1>2, IrFrameAssumption DEF Press, TypeOK
  <2> QED
    BY <1>2, <2>1, <2>2 DEF Press, TypeOK
<1>3. CASE \E u \in Units : LearnStart(u)
  <2>1. PICK u \in Units : LearnStart(u)
    BY <1>3
  <2>2. PICK s \in Slots, o \in Opts :
          unit' = [unit EXCEPT ![u] = [learning |-> TRUE, slot |-> s, opts |-> o]]
    BY <2>1 DEF LearnStart
  <2>3. [learning |-> TRUE, slot |-> s, opts |-> o] \in Learning
    BY OptsType DEF Learning
  <2>4. unit' \in [Units -> {Idle} \cup Learning]
    BY <2>2, <2>3 DEF TypeOK
  <2> QED
    BY <2>1, <2>4 DEF LearnStart, TypeOK
<1>4. CASE \E u \in Units : LearnCancel(u)
  BY <1>4 DEF LearnCancel, TypeOK
<1>5. CASE \E u \in Units : Send(u)
  <2>1. PICK u \in Units : Send(u)
    BY <1>5
  <2>2. PICK s \in Slots : air' = [frame |-> slots[u][s], kin |-> kin[u][s]]
    BY <2>1 DEF Send
  <2>3. air' \in [frame : Symbols, kin : Kinship]
    BY <2>2 DEF TypeOK
  <2>4. sends' \in 0..MaxSends
    BY <2>1, IrFrameAssumption DEF Send, TypeOK
  <2> QED
    BY <2>1, <2>3, <2>4 DEF Send, TypeOK
<1>6. CASE \E u \in Units : RxDone(u)
  <2>1. PICK u \in Units : RxDone(u)
    BY <1>6
  <2>2. unit' \in [Units -> {Idle} \cup Learning] /\ UNCHANGED <<air, sends>>
    BY <2>1 DEF RxDone, TypeOK
  <2>3. CASE UNCHANGED <<slots, kin>>
    BY <2>2, <2>3 DEF TypeOK
  <2>4. CASE slots' # slots \/ kin' # kin
    <3>1. PICK s \in Slots, o \in LearnOpts, raw \in Symbols :
            /\ Len(raw) <= MaxFrame
            /\ slots' = [slots EXCEPT ![u][s] = Processed(o, raw)]
            /\ kin' = [kin EXCEPT ![u][s] = Ancestry(o, air.kin, Processed(o, raw))]
      BY <2>1, <2>4, RxDoneFacts
    <3> DEFINE g == Processed(o, raw)
    <3>2. g \in Symbols /\ Len(g) <= MaxFrame
      BY <3>1, ProcessedType
    <3>3. Ancestry(o, air.kin, g) \in Kinship
      BY <3>2, AncestryType DEF TypeOK
    <3> HIDE DEF g
    <3>4. slots' \in [Units -> [Slots -> Symbols]]
      BY <3>1, <3>2 DEF TypeOK, g
    <3>5. kin' \in [Units -> [Slots -> Kinship]]
      BY <3>1, <3>3 DEF TypeOK, g
    <3>6. ASSUME NEW v \in Units, NEW t \in Slots PROVE Len(slots'[v][t]) <= MaxFrame
      <4>1. CASE v = u /\ t = s
        BY <3>1, <3>2, <4>1 DEF TypeOK, g
      <4>2. CASE ~(v = u /\ t = s)
        <5>1. slots'[v][t] = slots[v][t]
          BY <3>1, <4>2 DEF TypeOK
        <5> QED
          BY <5>1 DEF TypeOK
      <4> QED
        BY <4>1, <4>2
    <3> QED
      BY <2>2, <3>4, <3>5, <3>6 DEF TypeOK
  <2> QED
    BY <2>3, <2>4
<1> QED
  BY <1>1, <1>2, <1>3, <1>4, <1>5, <1>6 DEF Next

\* Every step keeps what is known of a stored frame's ancestry.
LEMMA KinStep == TypeOK /\ KinInv /\ [Next]_vars => KinInv'
<1> SUFFICES ASSUME TypeOK, KinInv, [Next]_vars PROVE KinInv'
  OBVIOUS
<1>1. CASE UNCHANGED <<slots, air, kin>>
  BY <1>1 DEF KinInv
<1>2. CASE Press
  <2>1. PICK f \in Remotes : air' = [frame |-> f, kin |-> [origin |-> f, first |-> << >>]]
    BY <1>2 DEF Press
  <2>2. Kindred(air'.frame, air'.kin)
    BY <2>1 DEF Kindred
  <2>3. UNCHANGED <<slots, kin>>
    BY <1>2 DEF Press
  <2> QED
    BY <2>2, <2>3 DEF KinInv
<1>3. CASE \E u \in Units : Send(u)
  <2>1. PICK u \in Units, s \in Slots :
          air' = [frame |-> slots[u][s], kin |-> kin[u][s]]
    BY <1>3 DEF Send
  <2>2. air'.frame = slots[u][s] /\ air'.kin = kin[u][s]
    BY <2>1
  <2>3. Kindred(slots[u][s], kin[u][s])
    BY DEF KinInv
  <2>4. UNCHANGED <<slots, kin>>
    BY <1>3 DEF Send
  <2> QED
    BY <2>2, <2>3, <2>4 DEF KinInv
<1>4. CASE \E u \in Units : RxDone(u)
  <2>1. PICK u \in Units : RxDone(u)
    BY <1>4
  <2>2. CASE UNCHANGED <<slots, kin>>
    BY <1>1, <2>1, <2>2 DEF RxDone
  <2>3. CASE slots' # slots \/ kin' # kin
    <3>1. PICK s \in Slots, o \in LearnOpts, f \in Waveforms(air.frame) :
            \E noise \in [1..2 * Len(f) - 1 -> Jitter] :
              /\ Clear(Heard(f, noise))
              /\ slots' = [slots EXCEPT ![u][s] = Processed(o, Heard(f, noise))]
              /\ kin' = [kin EXCEPT ![u][s] =
                           Ancestry(o, air.kin, Processed(o, Heard(f, noise)))]
      BY <2>1, <2>3, RxDoneFacts
    <3>2. PICK noise \in [1..2 * Len(f) - 1 -> Jitter] :
            /\ Clear(Heard(f, noise))
            /\ slots' = [slots EXCEPT ![u][s] = Processed(o, Heard(f, noise))]
            /\ kin' = [kin EXCEPT ![u][s] =
                         Ancestry(o, air.kin, Processed(o, Heard(f, noise)))]
      BY <3>1
    <3> DEFINE g == Processed(o, Heard(f, noise))
               q == Ancestry(o, air.kin, g)
    <3>3. /\ air.frame \in Symbols /\ air.kin \in Kinship /\ air.frame # << >>
          /\ Kindred(air.frame, air.kin)
      BY <2>1 DEF TypeOK, RxDone, KinInv
    <3>4. Kindred(g, q) /\ (q.first = << >> => q = Unknown)
      BY <3>2, <3>3, LearnKeepsKin
    <3>5. slots' = [slots EXCEPT ![u][s] = g] /\ kin' = [kin EXCEPT ![u][s] = q]
      BY <3>2
    <3> HIDE DEF g, q
    <3>6. ASSUME NEW v \in Units, NEW t \in Slots
          PROVE  /\ Kindred(slots'[v][t], kin'[v][t])
                 /\ kin'[v][t].first = << >> => kin'[v][t] = Unknown
      <4>1. CASE v = u /\ t = s
        <5>1. slots'[v][t] = g /\ kin'[v][t] = q
          BY <3>5, <4>1 DEF TypeOK
        <5> QED
          BY <3>4, <5>1
      <4>2. CASE ~(v = u /\ t = s)
        <5>1. slots'[v][t] = slots[v][t] /\ kin'[v][t] = kin[v][t]
          BY <3>5, <4>2 DEF TypeOK
        <5> QED
          BY <5>1 DEF KinInv
      <4> QED
        BY <4>1, <4>2
    <3>7. air' = air
      BY <2>1 DEF RxDone
    <3> QED
      BY <3>3, <3>6, <3>7 DEF KinInv
  <2> QED
    BY <2>2, <2>3
<1>5. CASE \E u \in Units : LearnStart(u) \/ LearnCancel(u)
  BY <1>1, <1>5 DEF LearnStart, LearnCancel
<1> QED
  BY <1>1, <1>2, <1>3, <1>4, <1>5 DEF Next, vars

\* The inductive invariant holds at first.
LEMMA InitIInv == Init => IInv
<1> SUFFICES ASSUME Init PROVE IInv
  OBVIOUS
<1>1. << >> \in Symbols /\ Len(<< >>) = 0
  BY DEF Symbols
<1>2. Kindred(<< >>, Unknown)
  BY UnknownFacts DEF Kindred
<1>3. \A u \in Units, s \in Slots : slots[u][s] = << >> /\ kin[u][s] = Unknown
  BY DEF Init
<1>4. TypeOK
  <2>1. air \in [frame : Symbols, kin : Kinship]
    BY <1>1, UnknownFacts DEF Init
  <2>2. slots \in [Units -> [Slots -> Symbols]] /\ kin \in [Units -> [Slots -> Kinship]]
    BY <1>1, UnknownFacts DEF Init
  <2>3. \A u \in Units, s \in Slots : Len(slots[u][s]) <= MaxFrame
    BY <1>1, <1>3, IrFrameAssumption
  <2>4. unit \in [Units -> {Idle} \cup Learning] /\ sends \in 0..MaxSends
    BY IrFrameAssumption DEF Init
  <2> QED
    BY <2>1, <2>2, <2>3, <2>4 DEF TypeOK
<1>5. KinInv
  <2>1. air.frame = << >> /\ air.kin = Unknown
    BY DEF Init
  <2> QED
    BY <1>2, <1>3, <2>1 DEF KinInv
<1> QED
  BY <1>4, <1>5 DEF IInv

\* Every step keeps the inductive invariant.
LEMMA NextIInv == IInv /\ [Next]_vars => IInv'
BY TypeStep, KinStep DEF IInv

\* The inductive invariant always holds.
LEMMA Invariance == Spec => []IInv
BY InitIInv, NextIInv, PTL DEF Spec
-----------------------------------------------------------------------------
(* The theorems.                                                           *)

\* The types hold: no capture, whatever its errors, brings a stored frame beyond
\* IR_CTRL_MAX_FRAME_SIZE or a level or duration out of its range.
THEOREM TypeCorrect == Spec => []TypeOK
<1>1. IInv => TypeOK
  BY DEF IInv
<1> QED
  BY <1>1, Invariance, PTL

\* utilities.c:80 "doesn't drift": a copy of a copy equals the first copy.
THEOREM CopiesDoNotDrift == Spec => []NoDrift
<1>1. IInv => NoDrift
  BY DEF IInv, KinInv, NoDrift, Kindred
<1> QED
  BY <1>1, Invariance, PTL

\* An NEC frame is learned exactly, at first or at any hand, but for its last pause.
THEOREM NecIsExact == Spec => []LearnsNecExactly
<1>1. ASSUME NEW f \in Symbols, IsNec(f) PROVE SameButTrailer(Cut(f), f)
  <2> DEFINE n == Len(f)
  <2>1. n \in Nat /\ n > 1
    BY <1>1 DEF IsNec, Symbols
  <2>2. Cut(f) = [i \in 1..n |-> IF i = n THEN End ELSE f[i]]
    BY DEF Cut
  <2>3. Len(Cut(f)) = n /\ \A i \in 1..n : i < n => Cut(f)[i] = f[i]
    BY <2>1, <2>2
  <2>4. Cut(f)[n] = End /\ f[n] \in {Zero, One}
    BY <1>1, <2>1, <2>2 DEF IsNec
  <2>5. As(End, End.duration0, 0) = As(f[n], f[n].duration0, 0)
    <3>1. ASSUME NEW d \in Nat
          PROVE  As(Pulse(560, d), Pulse(560, d).duration0, 0) = Pulse(560, 0)
      BY PulseType, AsUpright
    <3> QED
      BY <2>4, <3>1 DEF End, Zero, One
  <2> QED
    BY <2>3, <2>4, <2>5 DEF SameButTrailer
<1>2. IInv => LearnsNecExactly
  <2> SUFFICES ASSUME IInv, NEW u \in Units, NEW s \in Slots, IsNec(kin[u][s].origin)
               PROVE  SameButTrailer(slots[u][s], kin[u][s].origin)
    BY DEF LearnsNecExactly
  <2>1. kin[u][s].origin \in Symbols
    BY DEF IInv, TypeOK, Kinship
  <2>2. kin[u][s].origin # << >>
    BY DEF IsNec
  <2>3. kin[u][s].first # << >>
    BY <2>2, UnknownFacts DEF IInv, KinInv
  <2>4. slots[u][s] = Cut(kin[u][s].origin)
    BY <2>3 DEF IInv, KinInv, Kindred
  <2> QED
    BY <1>1, <2>1, <2>4
<1> QED
  BY <1>2, Invariance, PTL
=============================================================================
