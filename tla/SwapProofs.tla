------------------------------ MODULE SwapProofs ------------------------------
(***************************************************************************)
(* Theorems about a swap from its quote to its signature and its fill, for *)
(* every position, tolerance, cost, fee, tip and cap of the signer.        *)
(***************************************************************************)
EXTENDS SwapSigning, FiniteSetTheorems, WellFoundedInduction, TLAPS

-----------------------------------------------------------------------------
(* Integer division *)

\* What the quotient rounds away is less than the divisor.
LEMMA Quotient ==
  ASSUME NEW a \in Int, NEW b \in Nat \ {0}
  PROVE  /\ a \div b \in Int
         /\ (a \div b) * b <= a
         /\ a < (a \div b) * b + b
  OBVIOUS

LEMMA QuotientOfNat ==
  ASSUME NEW a \in Nat, NEW b \in Nat \ {0}
  PROVE  a \div b \in Nat
  OBVIOUS

\* A product grows with its factor.
LEMMA Grows ==
  ASSUME NEW q \in Nat, NEW a \in Int, NEW b \in Int, a <= b
  PROVE  q * a <= q * b /\ q * a \in Int /\ q * b \in Int
<1>1. q * (b - a) = q * b - q * a /\ b - a \in Nat
  OBVIOUS
<1>2. q * (b - a) \in Nat
  BY <1>1
<1> QED
  BY <1>1, <1>2

LEMMA Distribute ==
  ASSUME NEW p \in Nat, NEW x \in Int, NEW y \in Int, NEW z \in Int
  PROVE  p * (100 * x + 200 * y + 100 * z + 300)
           = 100 * x * p + 200 * (y * p) + 100 * (z * p) + 300 * p
  OBVIOUS

LEMMA IntProduct ==
  ASSUME NEW a \in Int, NEW b \in Int PROVE a * b \in Int /\ a * b = b * a
  OBVIOUS

LEMMA NatProduct ==
  ASSUME NEW a \in Nat, NEW b \in Nat PROVE a * b \in Nat
  OBVIOUS

-----------------------------------------------------------------------------
(* Tolerance *)

\* The tolerance of a leg.
Tolerance(leg) == IF leg = "exit" THEN Greatest(ExitMaxSlippage, BaseSlippage) ELSE BaseSlippage

\* However many exits failed, the next one asks for no more than the cap.
LEMMA SlippageCapped ==
  ASSUME NEW n \in Nat
  PROVE  /\ ExitSlippage(n) \in Nat
         /\ ExitSlippage(n) <= Tolerance("exit")
<1>1. BaseSlippage \in Nat /\ ExitMaxSlippage \in Nat
  BY SwapAssumption DEF SwapAssumption
<1>2. BaseSlippage * (1 + n) \in Nat
  BY <1>1
<1> HIDE DEF ExitSlippage
<1>3. ExitSlippage(n) = Least(BaseSlippage * (1 + n), Tolerance("exit"))
  BY DEF ExitSlippage, Tolerance
<1>4. Tolerance("exit") \in Nat
  BY <1>1 DEF Tolerance, Greatest
<1> QED
  BY <1>2, <1>3, <1>4 DEF Least

\* A swap that delivers its minimum delivers the quote less the tolerance.
LEMMA MinimumKept ==
  ASSUME NEW q \in Nat, NEW slip \in Nat, NEW tol \in Nat, slip <= tol,
         NEW out \in Nat, out >= MinOut(q, slip)
  PROVE  (out + 1) * Bps > q * (Bps - tol)
<1> DEFINE kept == Bps - Least(slip, Bps)
           product  == q * kept
           quotient == product \div Bps
<1>0. Bps \in Nat \ {0}
  BY CostAssumption DEF CostAssumption
<1>1. kept \in Nat /\ Bps - tol \in Int /\ Bps - tol <= kept
  BY <1>0 DEF Least
<1>2. q * (Bps - tol) <= q * kept /\ q * kept \in Nat /\ q * (Bps - tol) \in Int
  BY <1>1, Grows, NatProduct
<1>3. quotient \in Int /\ q * kept < quotient * Bps + Bps
  <2>1. product \in Int
    BY <1>2
  <2> HIDE DEF product
  <2>2. quotient \in Int /\ product < quotient * Bps + Bps
    BY <1>0, <2>1, Quotient
  <2> QED
    BY <2>2 DEF product
<1>4. out >= quotient
  BY <1>3 DEF MinOut, Greatest
<1> HIDE DEF quotient, kept
<1>5. Bps * quotient <= Bps * out
  BY <1>0, <1>3, <1>4, Grows
<1>6. (out + 1) * Bps = Bps * out + Bps /\ quotient * Bps = Bps * quotient
      /\ Bps * out \in Int /\ Bps * quotient \in Int
  BY <1>0, <1>3, IntProduct
<1> QED
  BY <1>0, <1>2, <1>3, <1>5, <1>6

-----------------------------------------------------------------------------
(* Edge *)

LEMMA TermsType ==
  /\ Terms.takeProfit \in Int /\ Terms.minEdge \in Int
  /\ Terms.feePpm \in Nat /\ Terms.exitImpactPct \in Nat
  /\ Terms.network \in Nat /\ Terms.failedReserve \in Nat
  /\ Position \in Nat \ {0} /\ Bps \in Nat \ {0}
  BY SwapAssumption, CostAssumption DEF SwapAssumption, CostAssumption

\* The exact costs of a round trip, in hundredths of a basis point times the
\* position, exceed the breakdown's by less than 600 of them.
EdgeMargin(impact) ==
  (100 * Terms.takeProfit - 2 * Terms.feePpm - impact * (100 + Greatest(Terms.exitImpactPct, 100)))
    * Position - 100 * Bps * Terms.network * (2 + Terms.failedReserve)

LEMMA EdgeIsNearlyExact ==
  ASSUME NEW impact \in Nat, NetEdge(Terms, impact, Position) >= Terms.minEdge
  PROVE  EdgeMargin(impact) > 100 * (Terms.minEdge - 6) * Position
<1> DEFINE P    == Position
           w    == Greatest(Terms.exitImpactPct, 100)
           nb   == Terms.network * Bps
           nfb  == Terms.network * Terms.failedReserve * Bps
           iw   == impact * w
           fee  == Terms.feePpm \div 100
           ei   == iw \div 100
           net  == nb \div P
           res  == nfb \div P
           tp   == Terms.takeProfit
           me   == Terms.minEdge
<1>1. /\ tp \in Int /\ me \in Int /\ Terms.feePpm \in Nat /\ w \in Nat
      /\ P \in Nat \ {0} /\ nb \in Nat /\ nfb \in Nat /\ iw \in Nat
  <2>1. Terms.exitImpactPct \in Nat
    BY TermsType
  <2>2. w \in Nat
    BY <2>1 DEF Greatest
  <2>3. nb \in Nat /\ Terms.network * Terms.failedReserve \in Nat
    BY TermsType, NatProduct
  <2>4. nfb \in Nat
    BY TermsType, <2>3, NatProduct
  <2> HIDE DEF w
  <2>5. iw \in Nat
    BY <2>2, NatProduct
  <2> QED
    BY TermsType, <2>2, <2>3, <2>4, <2>5
<1>2. tp - (fee + impact + net) - (fee + ei + net + res) >= me
  BY DEF NetEdge
<1>3. fee \in Int /\ Terms.feePpm < fee * 100 + 100
  BY <1>1, Quotient
<1>4. ei \in Int /\ iw < ei * 100 + 100
  <2> HIDE DEF iw
  <2> QED
    BY <1>1, Quotient
<1>5. net \in Int /\ nb < net * P + P
  <2> HIDE DEF nb, P
  <2> QED
    BY <1>1, Quotient
<1>6. res \in Int /\ nfb < res * P + P
  <2> HIDE DEF nfb, P
  <2> QED
    BY <1>1, Quotient
<1>7. EdgeMargin(impact) = (100 * tp - 2 * Terms.feePpm - 100 * impact - iw) * P - 200 * nb - 100 * nfb
  <2>1. impact * (100 + w) = 100 * impact + iw
    BY <1>1
  <2>2. 100 * Bps * Terms.network * (2 + Terms.failedReserve) = 200 * nb + 100 * nfb
    BY TermsType
  <2>3. EdgeMargin(impact) = (100 * tp - 2 * Terms.feePpm - impact * (100 + w)) * P
                             - 100 * Bps * Terms.network * (2 + Terms.failedReserve)
    BY DEF EdgeMargin
  <2> HIDE DEF w, iw, nb, nfb, tp, P
  <2> QED
    BY <1>1, <2>1, <2>2, <2>3, TermsType
<1> DEFINE f == Terms.feePpm
           c == 100 * tp - 2 * f - 100 * impact - iw
           d == 100 * (me - 6) + 200 * net + 100 * res + 300
<1> HIDE DEF w, fee, ei, net, res, nb, nfb, iw, tp, me, P
<1>8. c \in Int /\ d \in Int /\ d <= c
  BY <1>1, <1>2, <1>3, <1>4, <1>5, <1>6
<1>9. P * d <= P * c
  BY <1>1, <1>8, Grows
<1>10. P * d = 100 * (me - 6) * P + 200 * (net * P) + 100 * (res * P) + 300 * P
  <2>1. me - 6 \in Int
    BY <1>1
  <2>2. P * (100 * (me - 6) + 200 * net + 100 * res + 300)
          = 100 * (me - 6) * P + 200 * (net * P) + 100 * (res * P) + 300 * P
    BY <1>1, <1>5, <1>6, <2>1, Distribute
  <2> QED
    BY <2>2
<1>11. net * P \in Int /\ res * P \in Int /\ 100 * (me - 6) * P \in Int /\ P * c = c * P /\ c * P \in Int
  <2>1. 100 * (me - 6) \in Int
    BY <1>1
  <2> HIDE DEF c, d
  <2> QED
    BY <1>1, <1>5, <1>6, <1>8, <2>1, IntProduct
<1>12. EdgeMargin(impact) = c * P - 200 * nb - 100 * nfb
  BY <1>7
<1> HIDE DEF c, d
<1>13. c * P - 200 * nb - 100 * nfb > 100 * (me - 6) * P
  BY <1>1, <1>5, <1>6, <1>9, <1>10, <1>11
<1> QED
  BY <1>12, <1>13 DEF P, me

-----------------------------------------------------------------------------
(* The policy and the instructions of a swap *)

Ixs(s)       == {s[i] : i \in DOMAIN s}
Transfers(s) == {i \in DOMAIN s : s[i].program = "system"}

\* What holds of t, the concatenation of s and q: what stands in s stays where
\* it stands, the instructions are those of both.
Joins(t, s, q) ==
  /\ Len(s) \in Nat
  /\ Ixs(t) = Ixs(s) \cup Ixs(q)
  /\ Transfers(t) = Transfers(s) \cup {Len(s) + i : i \in Transfers(q)}
  /\ \A i \in DOMAIN s : i \in DOMAIN t /\ i <= Len(s) /\ t[i] = s[i]
  /\ \A i \in DOMAIN q : Len(s) + i \in DOMAIN t /\ t[Len(s) + i] = q[i]

LEMMA Joined ==
  ASSUME NEW S, NEW s \in Seq(S), NEW q \in Seq(S)
  PROVE  s \o q \in Seq(S) /\ Joins(s \o q, s, q)
<1> DEFINE t == s \o q
<1>1. /\ t \in Seq(S) /\ Len(s) \in Nat /\ Len(q) \in Nat
      /\ DOMAIN s = 1..Len(s) /\ DOMAIN q = 1..Len(q) /\ DOMAIN t = 1..(Len(s) + Len(q))
      /\ \A i \in 1..(Len(s) + Len(q)) : t[i] = IF i <= Len(s) THEN s[i] ELSE q[i - Len(s)]
  OBVIOUS
<1> HIDE DEF t
<1>2. \A i \in DOMAIN s : i \in DOMAIN t /\ i <= Len(s) /\ t[i] = s[i]
  BY <1>1
<1>3. \A i \in DOMAIN q : Len(s) + i \in DOMAIN t /\ t[Len(s) + i] = q[i]
  BY <1>1
<1>4. \A i \in DOMAIN t : i \in DOMAIN s \/ \E j \in DOMAIN q : i = Len(s) + j
  <2> SUFFICES ASSUME NEW i \in DOMAIN t, i \notin DOMAIN s PROVE \E j \in DOMAIN q : i = Len(s) + j
    OBVIOUS
  <2>1. i - Len(s) \in DOMAIN q /\ i = Len(s) + (i - Len(s))
    BY <1>1
  <2> QED
    BY <2>1
<1>5. Ixs(t) = Ixs(s) \cup Ixs(q)
  BY <1>2, <1>3, <1>4 DEF Ixs
<1>6. Transfers(t) = Transfers(s) \cup {Len(s) + i : i \in Transfers(q)}
  BY <1>2, <1>3, <1>4 DEF Transfers
<1>7. Joins(t, s, q)
  BY <1>1, <1>2, <1>3, <1>5, <1>6 DEF Joins
<1> QED
  BY <1>1, <1>7 DEF t

\* An instruction that is there under a condition.
LEMMA Conditional ==
  ASSUME NEW S, NEW ix \in S, ix.program # "system", NEW c
  PROVE  LET q == Optional(c, ix)
         IN  q \in Seq(S) /\ Ixs(q) = (IF c THEN {ix} ELSE {}) /\ Transfers(q) = {}
<1>1. CASE c
  <2> DEFINE q == <<ix>>
  <2>1. q \in Seq(S) /\ DOMAIN q = {1} /\ q[1] = ix /\ Optional(c, ix) = q
    BY <1>1 DEF Optional
  <2> HIDE DEF q
  <2>2. Ixs(q) = {ix} /\ Transfers(q) = {}
    BY <2>1 DEF Ixs, Transfers
  <2> QED
    BY <1>1, <2>1, <2>2
<1>2. CASE ~c
  <2>1. <<>> \in Seq(S) /\ DOMAIN <<>> = {} /\ Optional(c, ix) = <<>>
    BY <1>2 DEF Optional
  <2> QED
    BY <1>2, <2>1 DEF Ixs, Transfers
<1> QED
  BY <1>1, <1>2

LEMMA ConditionalTransfer ==
  ASSUME NEW S, NEW ix \in S, ix.program = "system", NEW c
  PROVE  LET q == Optional(c, ix)
         IN  /\ q \in Seq(S) /\ Ixs(q) = (IF c THEN {ix} ELSE {})
             /\ Transfers(q) = (IF c THEN {1} ELSE {}) /\ (c => q[1] = ix)
<1>1. CASE c
  <2> DEFINE q == <<ix>>
  <2>1. q \in Seq(S) /\ DOMAIN q = {1} /\ q[1] = ix /\ Optional(c, ix) = q
    BY <1>1 DEF Optional
  <2> HIDE DEF q
  <2>2. Ixs(q) = {ix} /\ Transfers(q) = {1}
    BY <2>1 DEF Ixs, Transfers
  <2> QED
    BY <1>1, <2>1, <2>2
<1>2. CASE ~c
  <2>1. <<>> \in Seq(S) /\ DOMAIN <<>> = {} /\ Optional(c, ix) = <<>>
    BY <1>2 DEF Optional
  <2> QED
    BY <1>2, <2>1 DEF Ixs, Transfers
<1> QED
  BY <1>1, <1>2

\* The instructions of a swap transaction, and where its transfers stand.
SwapIxs(o, owner, amount, minOut) ==
  {SetLimit, CreateAta(owner, o.input), CreateAta(owner, o.output),
   Swap(owner, o.input, o.output, amount, minOut)}
  \cup (IF o.cuPrice > 0 THEN {SetPrice(o.cuPrice)} ELSE {})
  \cup (IF o.input = "wsol" THEN {Transfer(owner, Ata(owner, o.input), amount),
                                  SyncNative(Ata(owner, o.input))} ELSE {})
  \cup (IF o.input = "wsol" \/ o.closeInput THEN {CloseAccount(Ata(owner, o.input), owner)} ELSE {})
  \cup (IF o.output = "wsol" THEN {CloseAccount(Ata(owner, o.output), owner)} ELSE {})
  \cup (IF o.tip > 0 THEN {Transfer(owner, o.tipAccount, o.tip)} ELSE {})

\* A transaction of nine parts of which the fourth and the last may transfer.
Nine(t, q0, q1, q2, q3, q4, q5, q6, q7, q8) ==
  /\ Ixs(t) = Ixs(q0) \cup Ixs(q1) \cup Ixs(q2) \cup Ixs(q3) \cup Ixs(q4)
              \cup Ixs(q5) \cup Ixs(q6) \cup Ixs(q7) \cup Ixs(q8)
  /\ \E a, b \in Nat :
       /\ Transfers(q3) # {} => a < b
       /\ Transfers(t) = (IF Transfers(q3) # {} THEN {a} ELSE {})
                         \cup (IF Transfers(q8) # {} THEN {b} ELSE {})
       /\ Transfers(q3) # {} => t[a] = q3[1]
       /\ Transfers(q8) # {} => t[b] = q8[1]

LEMMA NineParts ==
  ASSUME NEW S, NEW q0 \in Seq(S), NEW q1 \in Seq(S), NEW q2 \in Seq(S), NEW q3 \in Seq(S),
         NEW q4 \in Seq(S), NEW q5 \in Seq(S), NEW q6 \in Seq(S), NEW q7 \in Seq(S), NEW q8 \in Seq(S),
         Transfers(q0) = {}, Transfers(q1) = {}, Transfers(q2) = {}, Transfers(q4) = {},
         Transfers(q5) = {}, Transfers(q6) = {}, Transfers(q7) = {},
         Transfers(q3) \subseteq {1}, Transfers(q8) \subseteq {1}
  PROVE  Nine(q0 \o q1 \o q2 \o q3 \o q4 \o q5 \o q6 \o q7 \o q8,
              q0, q1, q2, q3, q4, q5, q6, q7, q8)
<1> DEFINE s1 == q0 \o q1
           s2 == s1 \o q2
           s3 == s2 \o q3
           s4 == s3 \o q4
           s5 == s4 \o q5
           s6 == s5 \o q6
           s7 == s6 \o q7
           s8 == s7 \o q8
           a  == Len(s2) + 1
           b  == Len(s7) + 1
           At(s) == /\ Transfers(s) = (IF Transfers(q3) # {} THEN {a} ELSE {})
                    /\ Transfers(q3) # {} => a \in DOMAIN s /\ s[a] = q3[1]
<1> HIDE DEF s1, s2, s3, s4, s5, s6, s7, s8
<1>s1. s1 \in Seq(S) /\ Joins(s1, q0, q1)
  BY Joined DEF s1
<1>s2. s2 \in Seq(S) /\ Joins(s2, s1, q2)
  BY <1>s1, Joined DEF s2
<1>s3. s3 \in Seq(S) /\ Joins(s3, s2, q3)
  BY <1>s2, Joined DEF s3
<1>s4. s4 \in Seq(S) /\ Joins(s4, s3, q4)
  BY <1>s3, Joined DEF s4
<1>s5. s5 \in Seq(S) /\ Joins(s5, s4, q5)
  BY <1>s4, Joined DEF s5
<1>s6. s6 \in Seq(S) /\ Joins(s6, s5, q6)
  BY <1>s5, Joined DEF s6
<1>s7. s7 \in Seq(S) /\ Joins(s7, s6, q7)
  BY <1>s6, Joined DEF s7
<1>s8. s8 \in Seq(S) /\ Joins(s8, s7, q8)
  BY <1>s7, Joined DEF s8
<1> USE DEF Joins
<1>1. Ixs(s1) = Ixs(q0) \cup Ixs(q1) /\ Transfers(s1) = {}
  BY <1>s1
<1>2. Ixs(s2) = Ixs(s1) \cup Ixs(q2) /\ Transfers(s2) = {}
  BY <1>1, <1>s2
<1>3. Ixs(s3) = Ixs(s2) \cup Ixs(q3) /\ At(s3)
  <2>2. CASE Transfers(q3) = {}
    BY <1>2, <1>s3, <2>2
  <2>3. CASE Transfers(q3) # {}
    <3>1. Transfers(q3) = {1} /\ 1 \in DOMAIN q3
      BY <2>3 DEF Transfers
    <3> QED
      BY <1>2, <1>s3, <3>1
  <2> QED
    BY <2>2, <2>3
<1>4. Ixs(s4) = Ixs(s3) \cup Ixs(q4) /\ At(s4)
  BY <1>3, <1>s4
<1>5. Ixs(s5) = Ixs(s4) \cup Ixs(q5) /\ At(s5)
  BY <1>4, <1>s5
<1>6. Ixs(s6) = Ixs(s5) \cup Ixs(q6) /\ At(s6)
  BY <1>5, <1>s6
<1>7. Ixs(s7) = Ixs(s6) \cup Ixs(q7) /\ At(s7)
  BY <1>6, <1>s7
<1>8. /\ Ixs(s8) = Ixs(s7) \cup Ixs(q8) /\ Len(s7) \in Nat /\ Len(s2) \in Nat
      /\ Transfers(s8) = Transfers(s7) \cup {Len(s7) + i : i \in Transfers(q8)}
      /\ \A i \in DOMAIN s7 : i <= Len(s7) /\ s8[i] = s7[i]
      /\ \A i \in DOMAIN q8 : s8[Len(s7) + i] = q8[i]
  BY <1>s3, <1>s8
<1>9. /\ Transfers(q3) # {} => a < b /\ s8[a] = q3[1]
      /\ a \in Nat /\ b \in Nat
  BY <1>7, <1>8
<1>10. /\ Transfers(s8) = (IF Transfers(q3) # {} THEN {a} ELSE {})
                          \cup (IF Transfers(q8) # {} THEN {b} ELSE {})
       /\ Transfers(q8) # {} => s8[b] = q8[1]
  <2>2. CASE Transfers(q8) = {}
    BY <1>7, <1>8, <2>2
  <2>3. CASE Transfers(q8) # {}
    <3>1. Transfers(q8) = {1} /\ 1 \in DOMAIN q8
      BY <2>3 DEF Transfers
    <3> QED
      BY <1>7, <1>8, <3>1
  <2> QED
    BY <2>2, <2>3
<1>11. Ixs(s8) = Ixs(q0) \cup Ixs(q1) \cup Ixs(q2) \cup Ixs(q3) \cup Ixs(q4)
                 \cup Ixs(q5) \cup Ixs(q6) \cup Ixs(q7) \cup Ixs(q8)
  BY <1>1, <1>2, <1>3, <1>4, <1>5, <1>6, <1>7, <1>8
<1>12. s8 = q0 \o q1 \o q2 \o q3 \o q4 \o q5 \o q6 \o q7 \o q8
  BY DEF s1, s2, s3, s4, s5, s6, s7, s8
<1> HIDE DEF a, b
<1>13. Nine(s8, q0, q1, q2, q3, q4, q5, q6, q7, q8)
  BY <1>9, <1>10, <1>11 DEF Nine
<1> QED
  BY <1>12, <1>13

\* Parts that are always there.
LEMMA One ==
  ASSUME NEW S, NEW x \in S, x.program # "system"
  PROVE  <<x>> \in Seq(S) /\ Ixs(<<x>>) = {x} /\ Transfers(<<x>>) = {}
<1> DEFINE q == <<x>>
<1>1. q \in Seq(S) /\ DOMAIN q = {1} /\ q[1] = x
  OBVIOUS
<1> HIDE DEF q
<1>2. Ixs(q) = {x} /\ Transfers(q) = {}
  BY <1>1 DEF Ixs, Transfers
<1> QED
  BY <1>1, <1>2 DEF q

LEMMA Two ==
  ASSUME NEW S, NEW x \in S, NEW y \in S, x.program # "system", y.program # "system"
  PROVE  <<x, y>> \in Seq(S) /\ Ixs(<<x, y>>) = {x, y} /\ Transfers(<<x, y>>) = {}
<1> DEFINE p == <<x, y>>
<1>1. p \in Seq(S) /\ DOMAIN p = {1, 2} /\ p[1] = x /\ p[2] = y
  OBVIOUS
<1> HIDE DEF p
<1>2. Ixs(p) = {x, y} /\ Transfers(p) = {}
  BY <1>1 DEF Ixs, Transfers
<1> QED
  BY <1>1, <1>2 DEF p

LEMMA BuiltMessage ==
  ASSUME NEW o, NEW owner, NEW amount, NEW minOut
  PROVE  LET m == SwapTransaction(o, owner, amount, minOut)
         IN  /\ m.payer = owner
             /\ Ixs(m.ixs) = SwapIxs(o, owner, amount, minOut)
             /\ \E a, b \in Nat :
                  /\ o.input = "wsol" => a < b
                  /\ Transfers(m.ixs) = (IF o.input = "wsol" THEN {a} ELSE {})
                                        \cup (IF o.tip > 0 THEN {b} ELSE {})
                  /\ o.input = "wsol" => m.ixs[a] = Transfer(owner, Ata(owner, o.input), amount)
                  /\ o.tip > 0 => m.ixs[b] = Transfer(owner, o.tipAccount, o.tip)
<1> DEFINE x0 == SetLimit
           x1 == SetPrice(o.cuPrice)
           xa == CreateAta(owner, o.input)
           xb == CreateAta(owner, o.output)
           x3 == Transfer(owner, Ata(owner, o.input), amount)
           x4 == SyncNative(Ata(owner, o.input))
           x5 == Swap(owner, o.input, o.output, amount, minOut)
           x6 == CloseAccount(Ata(owner, o.input), owner)
           x7 == CloseAccount(Ata(owner, o.output), owner)
           x8 == Transfer(owner, o.tipAccount, o.tip)
           S  == {x0, x1, xa, xb, x3, x4, x5, x6, x7, x8}
           q0 == <<x0>>
           q1 == Optional(o.cuPrice > 0, x1)
           q2 == <<xa, xb>>
           q3 == Optional(o.input = "wsol", x3)
           q4 == Optional(o.input = "wsol", x4)
           q5 == <<x5>>
           q6 == Optional(o.input = "wsol" \/ o.closeInput, x6)
           q7 == Optional(o.output = "wsol", x7)
           q8 == Optional(o.tip > 0, x8)
           t  == q0 \o q1 \o q2 \o q3 \o q4 \o q5 \o q6 \o q7 \o q8
<1>1. SwapTransaction(o, owner, amount, minOut) = [payer |-> owner, ixs |-> t]
  BY DEF SwapTransaction
<1>2. /\ x0.program # "system" /\ x1.program # "system" /\ xa.program # "system"
      /\ xb.program # "system" /\ x4.program # "system" /\ x5.program # "system"
      /\ x6.program # "system" /\ x7.program # "system"
      /\ x3.program = "system" /\ x8.program = "system"
  BY DEF SetLimit, SetPrice, CreateAta, SyncNative, Swap, CloseAccount, Transfer
<1>3. /\ x0 \in S /\ x1 \in S /\ xa \in S /\ xb \in S /\ x3 \in S /\ x4 \in S
      /\ x5 \in S /\ x6 \in S /\ x7 \in S /\ x8 \in S
  BY Zenon
<1> HIDE DEF x0, x1, xa, xb, x3, x4, x5, x6, x7, x8, S
<1>q0. q0 \in Seq(S) /\ Ixs(q0) = {x0} /\ Transfers(q0) = {}
  BY <1>2, <1>3, One, Zenon
<1>q1. q1 \in Seq(S) /\ Ixs(q1) = (IF o.cuPrice > 0 THEN {x1} ELSE {}) /\ Transfers(q1) = {}
  BY <1>2, <1>3, Conditional, Zenon
<1>q2. q2 \in Seq(S) /\ Ixs(q2) = {xa, xb} /\ Transfers(q2) = {}
  BY <1>2, <1>3, Two, Zenon
<1>q3. /\ q3 \in Seq(S) /\ Ixs(q3) = (IF o.input = "wsol" THEN {x3} ELSE {})
      /\ Transfers(q3) = (IF o.input = "wsol" THEN {1} ELSE {}) /\ (o.input = "wsol" => q3[1] = x3)
  BY <1>2, <1>3, ConditionalTransfer, Zenon
<1>q4. q4 \in Seq(S) /\ Ixs(q4) = (IF o.input = "wsol" THEN {x4} ELSE {}) /\ Transfers(q4) = {}
  BY <1>2, <1>3, Conditional, Zenon
<1>q5. q5 \in Seq(S) /\ Ixs(q5) = {x5} /\ Transfers(q5) = {}
  BY <1>2, <1>3, One, Zenon
<1>q6. q6 \in Seq(S) /\ Ixs(q6) = (IF o.input = "wsol" \/ o.closeInput THEN {x6} ELSE {}) /\ Transfers(q6) = {}
  BY <1>2, <1>3, Conditional, Zenon
<1>q7. q7 \in Seq(S) /\ Ixs(q7) = (IF o.output = "wsol" THEN {x7} ELSE {}) /\ Transfers(q7) = {}
  BY <1>2, <1>3, Conditional, Zenon
<1>q8. /\ q8 \in Seq(S) /\ Ixs(q8) = (IF o.tip > 0 THEN {x8} ELSE {})
      /\ Transfers(q8) = (IF o.tip > 0 THEN {1} ELSE {}) /\ (o.tip > 0 => q8[1] = x8)
  BY <1>2, <1>3, ConditionalTransfer, Zenon
<1> HIDE DEF q0, q1, q2, q3, q4, q5, q6, q7, q8
<1>7. Nine(t, q0, q1, q2, q3, q4, q5, q6, q7, q8)
  <2>1. /\ Transfers(q0) = {} /\ Transfers(q1) = {} /\ Transfers(q2) = {} /\ Transfers(q4) = {}
        /\ Transfers(q5) = {} /\ Transfers(q6) = {} /\ Transfers(q7) = {}
        /\ Transfers(q3) \subseteq {1} /\ Transfers(q8) \subseteq {1}
    BY <1>q0, <1>q1, <1>q2, <1>q3, <1>q4, <1>q5, <1>q6, <1>q7, <1>q8
  <2>2. /\ q0 \in Seq(S) /\ q1 \in Seq(S) /\ q2 \in Seq(S) /\ q3 \in Seq(S) /\ q4 \in Seq(S)
        /\ q5 \in Seq(S) /\ q6 \in Seq(S) /\ q7 \in Seq(S) /\ q8 \in Seq(S)
    BY <1>q0, <1>q1, <1>q2, <1>q3, <1>q4, <1>q5, <1>q6, <1>q7, <1>q8
  <2> QED
    BY <2>1, <2>2, NineParts
<1> HIDE DEF t
<1>8. Ixs(t) = SwapIxs(o, owner, amount, minOut)
  <2>1. SwapIxs(o, owner, amount, minOut) =
          {x0, xa, xb, x5} \cup (IF o.cuPrice > 0 THEN {x1} ELSE {})
          \cup (IF o.input = "wsol" THEN {x3, x4} ELSE {})
          \cup (IF o.input = "wsol" \/ o.closeInput THEN {x6} ELSE {})
          \cup (IF o.output = "wsol" THEN {x7} ELSE {}) \cup (IF o.tip > 0 THEN {x8} ELSE {})
    BY DEF SwapIxs, x0, x1, xa, xb, x3, x4, x5, x6, x7, x8
  <2> QED
    BY <1>q0, <1>q1, <1>q2, <1>q3, <1>q4, <1>q5, <1>q6, <1>q7, <1>q8, <1>7, <2>1 DEF Nine
<1>9. \E a, b \in Nat :
        /\ o.input = "wsol" => a < b
        /\ Transfers(t) = (IF o.input = "wsol" THEN {a} ELSE {}) \cup (IF o.tip > 0 THEN {b} ELSE {})
        /\ o.input = "wsol" => t[a] = x3
        /\ o.tip > 0 => t[b] = x8
  <2>1. (Transfers(q3) # {} <=> o.input = "wsol") /\ (Transfers(q8) # {} <=> o.tip > 0)
    BY <1>q3, <1>q8
  <2> QED
    BY <1>q3, <1>q8, <1>7, <2>1 DEF Nine
<1> QED
  BY <1>1, <1>8, <1>9 DEF x3, x8

\* Sums of at most two transfers.
Moved(m, t) == MapThenSumSet(LAMBDA i : m.ixs[i].lamports, t)

\* What the fold over a set of indices computes.
Totals(f, t, it) ==
  it = [s \in SUBSET t |-> IF s = {} THEN 0
                           ELSE LET x == CHOOSE y \in s : TRUE IN f[x].lamports + it[s \ {x}]]

LEMMA MovedIsTotal ==
  ASSUME NEW m, NEW t, NEW it, Totals(m.ixs, t, it)
  PROVE  \E jt : Totals(m.ixs, t, jt) /\ Moved(m, t) = jt[t]
  BY DEF Totals, Moved, MapThenSumSet, MapThenFoldSet

LEMMA MovedNothing ==
  ASSUME NEW m PROVE Moved(m, {}) = 0
<1> DEFINE it == [s \in SUBSET {} |-> 0]
<1>1. \A s \in SUBSET {} : s = {}
  OBVIOUS
<1>2. Totals(m.ixs, {}, it)
  BY <1>1 DEF Totals
<1>3. PICK jt : Totals(m.ixs, {}, jt) /\ Moved(m, {}) = jt[{}]
  BY <1>2, MovedIsTotal
<1> QED
  BY <1>3 DEF Totals

LEMMA MovedOnce ==
  ASSUME NEW m, NEW a, m.ixs[a].lamports \in Nat PROVE Moved(m, {a}) = m.ixs[a].lamports
<1> DEFINE n  == m.ixs[a].lamports
           it == [s \in SUBSET {a} |-> IF s = {} THEN 0 ELSE n]
<1>1. \A s \in SUBSET {a} : s = {} \/ s = {a}
  OBVIOUS
<1>2. (CHOOSE y \in {a} : TRUE) = a /\ {a} \ {a} = {} /\ {a} # {}
  OBVIOUS
<1>3. Totals(m.ixs, {a}, it)
  <2>1. it[{}] = 0 /\ it[{a}] = n /\ n + 0 = n
    BY <1>2
  <2>2. ASSUME NEW s \in SUBSET {a}
        PROVE  it[s] = IF s = {} THEN 0 ELSE LET x == CHOOSE y \in s : TRUE IN m.ixs[x].lamports + it[s \ {x}]
    <3>1. CASE s = {}
      BY <2>1, <3>1
    <3>2. CASE s = {a}
      <4> HIDE DEF it
      <4> QED
        BY <1>2, <2>1, <3>2
    <3> QED
      BY <1>1, <3>1, <3>2
  <2>3. it = [s \in SUBSET {a} |-> it[s]]
    OBVIOUS
  <2> HIDE DEF it
  <2> QED
    BY <2>2, <2>3 DEF Totals
<1>4. PICK jt : Totals(m.ixs, {a}, jt) /\ Moved(m, {a}) = jt[{a}]
  BY <1>3, MovedIsTotal
<1>5. jt[{}] = 0 /\ jt[{a}] = n + jt[{}]
  BY <1>2, <1>4 DEF Totals
<1> QED
  BY <1>4, <1>5

LEMMA MovedTwice ==
  ASSUME NEW m, NEW a, NEW b, a # b, m.ixs[a].lamports \in Nat, m.ixs[b].lamports \in Nat
  PROVE  Moved(m, {a, b}) = m.ixs[a].lamports + m.ixs[b].lamports
<1> DEFINE n  == m.ixs[a].lamports
           k  == m.ixs[b].lamports
           it == [s \in SUBSET {a, b} |-> (IF a \in s THEN n ELSE 0) + (IF b \in s THEN k ELSE 0)]
           At(jt, s) == IF s = {} THEN 0 ELSE LET x == CHOOSE y \in s : TRUE IN m.ixs[x].lamports + jt[s \ {x}]
<1>0. n \in Nat /\ k \in Nat
  OBVIOUS
<1>1. \A s \in SUBSET {a, b} : s = {} \/ s = {a} \/ s = {b} \/ s = {a, b}
  OBVIOUS
<1>2. /\ {a} \ {a} = {} /\ {b} \ {b} = {}
      /\ {a, b} \ {a} = {b} /\ {a, b} \ {b} = {a}
  OBVIOUS
\* Whichever element is taken first.
<1>3. ASSUME NEW s \in SUBSET {a, b}, NEW jt, s # {}
      PROVE  \E x \in s : At(jt, s) = m.ixs[x].lamports + jt[s \ {x}]
  <2>1. (CHOOSE y \in s : TRUE) \in s
    BY <1>3
  <2> QED
    BY <1>3, <2>1
<1>4. ASSUME NEW jt, jt[{}] = 0, jt[{a}] = n, jt[{b}] = k
      PROVE  At(jt, {a}) = n /\ At(jt, {b}) = k /\ At(jt, {a, b}) = n + k
  <2> HIDE DEF At
  <2>1. PICK x \in {a} : At(jt, {a}) = m.ixs[x].lamports + jt[{a} \ {x}]
    BY <1>3
  <2>2. PICK y \in {b} : At(jt, {b}) = m.ixs[y].lamports + jt[{b} \ {y}]
    BY <1>3
  <2>3. PICK z \in {a, b} : At(jt, {a, b}) = m.ixs[z].lamports + jt[{a, b} \ {z}]
    BY <1>3
  <2>4. x = a /\ y = b /\ (z = a \/ z = b)
    OBVIOUS
  <2>5. At(jt, {a}) = n + jt[{}] /\ At(jt, {b}) = k + jt[{}]
    BY <1>2, <2>1, <2>2, <2>4
  <2>6. At(jt, {a, b}) = n + jt[{b}] \/ At(jt, {a, b}) = k + jt[{a}]
    BY <1>2, <2>3, <2>4
  <2> HIDE DEF n, k
  <2> QED
    BY <1>0, <1>4, <2>5, <2>6
<1>5. Totals(m.ixs, {a, b}, it)
  <2>1. it[{}] = 0 /\ it[{a}] = n /\ it[{b}] = k /\ it[{a, b}] = n + k /\ n + k = k + n
    BY <1>0
  <2>2. it = [s \in SUBSET {a, b} |-> it[s]]
    OBVIOUS
  <2> HIDE DEF it
  <2>3. At(it, {}) = 0
    OBVIOUS
  <2>4. \A s \in SUBSET {a, b} : it[s] = At(it, s)
    <3> HIDE DEF At
    <3>1. At(it, {a}) = n /\ At(it, {b}) = k /\ At(it, {a, b}) = n + k
      BY <1>4, <2>1
    <3> HIDE DEF n, k
    <3> QED
      BY <1>1, <2>1, <2>3, <3>1
  <2> QED
    BY <2>2, <2>4 DEF Totals
<1>6. PICK jt : Totals(m.ixs, {a, b}, jt) /\ Moved(m, {a, b}) = jt[{a, b}]
  BY <1>5, MovedIsTotal
<1>7. \A s \in SUBSET {a, b} : jt[s] = At(jt, s)
  BY <1>6 DEF Totals
<1>8. jt[{}] = 0
  BY <1>7
<1>9. jt[{a}] = n /\ jt[{b}] = k
  <2> HIDE DEF At
  <2>1. PICK x \in {a} : At(jt, {a}) = m.ixs[x].lamports + jt[{a} \ {x}]
    BY <1>3
  <2>2. PICK y \in {b} : At(jt, {b}) = m.ixs[y].lamports + jt[{b} \ {y}]
    BY <1>3
  <2>3. x = a /\ y = b
    OBVIOUS
  <2> QED
    <3>1. At(jt, {a}) = n + jt[{}] /\ At(jt, {b}) = k + jt[{}]
      BY <1>2, <2>1, <2>2, <2>3
    <3> HIDE DEF n, k
    <3> QED
      BY <1>0, <1>7, <1>8, <3>1
<1>10. At(jt, {a, b}) = n + k
  <2> HIDE DEF At
  <2> QED
    BY <1>4, <1>8, <1>9
<1>11. jt[{a, b}] = n + k
  BY <1>7, <1>10
<1> QED
  BY <1>6, <1>11

\* What the policy looks at, by the instructions of the message.
LEMMA PolicyByIxs ==
  ASSUME NEW m, NEW signer
  PROVE  LET own == {x.account : x \in {y \in Ixs(m.ixs) : y.program = "ata"}}
         IN  /\ OwnAtas(m) = own
             /\ CreatesOk(m, signer) <=>
                  \A x \in Ixs(m.ixs) : x.program = "ata" =>
                    x.payer = signer /\ x.owner = signer /\ x.account = Ata(signer, x.mint)
             /\ (\A i \in DOMAIN m.ixs : InstructionOk(m.ixs[i], signer, own)) <=>
                  (\A x \in Ixs(m.ixs) : InstructionOk(x, signer, own))
<1> DEFINE own == {x.account : x \in {y \in Ixs(m.ixs) : y.program = "ata"}}
<1>1. OwnAtas(m) = own
  BY DEF OwnAtas, Of, Ixs
<1>2. CreatesOk(m, signer) <=>
        \A x \in Ixs(m.ixs) : x.program = "ata" =>
          x.payer = signer /\ x.owner = signer /\ x.account = Ata(signer, x.mint)
  BY DEF CreatesOk, Of, Ixs
<1>3. (\A i \in DOMAIN m.ixs : InstructionOk(m.ixs[i], signer, own)) <=>
        (\A x \in Ixs(m.ixs) : InstructionOk(x, signer, own))
  <2> HIDE DEF own
  <2> QED
    BY DEF Ixs
<1> QED
  BY <1>1, <1>2, <1>3

\* The outlay of a swap.
Spent(o, amount) == o.tip + (IF o.input = "wsol" THEN amount ELSE 0)

\* The wallet's policy lets a swap transaction of this process pass exactly
\* when its outlay and its compute price are within the caps.
LEMMA PolicyExact ==
  ASSUME NEW o, o.cuPrice \in Nat, o.tip \in Nat, o.tipAccount = "tip",
         NEW amount \in Nat, NEW minOut
  PROVE  PolicyAllows(SwapTransaction(o, Pin, amount, minOut), Pin)
           <=> (Spent(o, amount) <= MaxTransfer /\ o.cuPrice <= MaxCuPrice)
<1> DEFINE m   == SwapTransaction(o, Pin, amount, minOut)
           own == {x.account : x \in {y \in Ixs(m.ixs) : y.program = "ata"}}
           in  == Ata(Pin, o.input)
           out == Ata(Pin, o.output)
           all == SwapIxs(o, Pin, amount, minOut)
<1>0. /\ MaxTransfer \in Nat /\ MaxCuPrice \in Nat /\ "tip" \in TipAccounts
      /\ Pin # "tip" /\ Pin # Ata(Pin, "wsol")
  BY SwapAssumption DEF SwapAssumption
<1>1. /\ m.payer = Pin /\ Ixs(m.ixs) = all
      /\ \E a, b \in Nat :
           /\ o.input = "wsol" => a < b
           /\ Transfers(m.ixs) = (IF o.input = "wsol" THEN {a} ELSE {})
                                 \cup (IF o.tip > 0 THEN {b} ELSE {})
           /\ o.input = "wsol" => m.ixs[a] = Transfer(Pin, in, amount)
           /\ o.tip > 0 => m.ixs[b] = Transfer(Pin, "tip", o.tip)
  BY BuiltMessage
<1> HIDE DEF m
<1>2. \A x \in all :
        \/ x = SetLimit
        \/ x = CreateAta(Pin, o.input) \/ x = CreateAta(Pin, o.output)
        \/ x = Swap(Pin, o.input, o.output, amount, minOut)
        \/ o.cuPrice > 0 /\ x = SetPrice(o.cuPrice)
        \/ x = Transfer(Pin, in, amount) \/ x = SyncNative(in)
        \/ x = CloseAccount(in, Pin) \/ x = CloseAccount(out, Pin)
        \/ x = Transfer(Pin, "tip", o.tip)
  <2> HIDE DEF in, out
  <2> QED
    BY DEF SwapIxs, in, out
<1>3. /\ CreateAta(Pin, o.input) \in all /\ CreateAta(Pin, o.output) \in all
      /\ o.cuPrice > 0 => SetPrice(o.cuPrice) \in all
  BY DEF SwapIxs
<1>4. /\ \A x \in all : x.program = "ata" =>
           x \in {CreateAta(Pin, o.input), CreateAta(Pin, o.output)}
      /\ CreateAta(Pin, o.input).program = "ata" /\ CreateAta(Pin, o.output).program = "ata"
      /\ CreateAta(Pin, o.input).account = in /\ CreateAta(Pin, o.output).account = out
  <2> HIDE DEF all
  <2>1. /\ SetLimit.program # "ata"
        /\ Swap(Pin, o.input, o.output, amount, minOut).program # "ata"
        /\ SetPrice(o.cuPrice).program # "ata" /\ Transfer(Pin, in, amount).program # "ata"
        /\ SyncNative(in).program # "ata" /\ CloseAccount(in, Pin).program # "ata"
        /\ CloseAccount(out, Pin).program # "ata" /\ Transfer(Pin, "tip", o.tip).program # "ata"
    BY DEF SetLimit, Swap, SetPrice, Transfer, SyncNative, CloseAccount
  <2>2. /\ CreateAta(Pin, o.input).program = "ata" /\ CreateAta(Pin, o.output).program = "ata"
        /\ CreateAta(Pin, o.input).account = in /\ CreateAta(Pin, o.output).account = out
    BY DEF CreateAta
  <2> QED
    BY <1>2, <2>1, <2>2
<1>5. own = {in, out}
  <2> HIDE DEF all, in, out
  <2> QED
    BY <1>1, <1>3, <1>4
<1>6. CreatesOk(m, Pin)
  <2>1. \A x \in {CreateAta(Pin, o.input), CreateAta(Pin, o.output)} :
          x.payer = Pin /\ x.owner = Pin /\ x.account = Ata(Pin, x.mint)
    BY DEF CreateAta
  <2> HIDE DEF all
  <2> QED
    BY <1>1, <1>4, <2>1, PolicyByIxs
<1> HIDE DEF own
<1>7. /\ InstructionOk(SetLimit, Pin, own)
      /\ InstructionOk(CreateAta(Pin, o.input), Pin, own)
      /\ InstructionOk(CreateAta(Pin, o.output), Pin, own)
      /\ InstructionOk(Swap(Pin, o.input, o.output, amount, minOut), Pin, own)
      /\ InstructionOk(SetPrice(o.cuPrice), Pin, own) <=> o.cuPrice <= MaxCuPrice
      /\ InstructionOk(Transfer(Pin, in, amount), Pin, own)
      /\ InstructionOk(SyncNative(in), Pin, own)
      /\ InstructionOk(CloseAccount(in, Pin), Pin, own)
      /\ InstructionOk(CloseAccount(out, Pin), Pin, own)
      /\ InstructionOk(Transfer(Pin, "tip", o.tip), Pin, own)
  <2> USE DEF InstructionOk
  <2>1. InstructionOk(SetLimit, Pin, own)
    BY DEF SetLimit, ComputeOk
  <2>2. /\ InstructionOk(CreateAta(Pin, o.input), Pin, own)
        /\ InstructionOk(CreateAta(Pin, o.output), Pin, own)
    BY DEF CreateAta
  <2>3. InstructionOk(Swap(Pin, o.input, o.output, amount, minOut), Pin, own)
    BY <1>5 DEF Swap, SwapOk
  <2>4. InstructionOk(SetPrice(o.cuPrice), Pin, own) <=> o.cuPrice <= MaxCuPrice
    BY DEF SetPrice, ComputeOk
  <2> HIDE DEF in, out
  <2>5. InstructionOk(Transfer(Pin, in, amount), Pin, own) /\ InstructionOk(Transfer(Pin, "tip", o.tip), Pin, own)
    BY <1>0, <1>5 DEF Transfer, TransferOk
  <2>6. /\ InstructionOk(SyncNative(in), Pin, own)
        /\ InstructionOk(CloseAccount(in, Pin), Pin, own)
        /\ InstructionOk(CloseAccount(out, Pin), Pin, own)
    BY <1>5 DEF SyncNative, CloseAccount, TokenOk
  <2> QED
    BY <2>1, <2>2, <2>3, <2>4, <2>5, <2>6
<1>8. (\A x \in all : InstructionOk(x, Pin, own)) <=> o.cuPrice <= MaxCuPrice
  <2> HIDE DEF all, in, out
  <2>1. ASSUME o.cuPrice <= MaxCuPrice PROVE \A x \in all : InstructionOk(x, Pin, own)
    BY <1>2, <1>7, <2>1
  <2>2. ASSUME \A x \in all : InstructionOk(x, Pin, own) PROVE o.cuPrice <= MaxCuPrice
    <3>1. CASE o.cuPrice > 0
      BY <1>3, <1>7, <2>2, <3>1
    <3>2. CASE o.cuPrice = 0
      BY <1>0, <3>2
    <3> QED
      BY <3>1, <3>2
  <2> QED
    BY <2>1, <2>2
<1>9. (\A i \in DOMAIN m.ixs : InstructionOk(m.ixs[i], Pin, OwnAtas(m))) <=> o.cuPrice <= MaxCuPrice
  <2>1. OwnAtas(m) = own
    BY PolicyByIxs DEF own
  <2>2. (\A i \in DOMAIN m.ixs : InstructionOk(m.ixs[i], Pin, own)) <=>
          (\A x \in Ixs(m.ixs) : InstructionOk(x, Pin, own))
    BY PolicyByIxs DEF own
  <2> HIDE DEF all
  <2> QED
    BY <1>1, <1>8, <2>1, <2>2
<1>10. MovedOut(m, Pin) = Spent(o, amount)
  <2>1. PICK a \in Nat, b \in Nat :
          /\ o.input = "wsol" => a < b
          /\ Transfers(m.ixs) = (IF o.input = "wsol" THEN {a} ELSE {})
                                \cup (IF o.tip > 0 THEN {b} ELSE {})
          /\ o.input = "wsol" => m.ixs[a] = Transfer(Pin, in, amount)
          /\ o.tip > 0 => m.ixs[b] = Transfer(Pin, "tip", o.tip)
    BY <1>1
  <2>2. /\ o.input = "wsol" => m.ixs[a].to # Pin /\ m.ixs[a].lamports = amount
        /\ o.tip > 0 => m.ixs[b].to # Pin /\ m.ixs[b].lamports = o.tip
    <3>1. Transfer(Pin, in, amount).to = in /\ Transfer(Pin, in, amount).lamports = amount
          /\ Transfer(Pin, "tip", o.tip).to = "tip" /\ Transfer(Pin, "tip", o.tip).lamports = o.tip
      BY DEF Transfer
    <3> QED
      BY <1>0, <2>1, <3>1
  <2>3. {i \in Of(m, "system") : m.ixs[i].to # Pin} = Transfers(m.ixs)
    <3>1. Of(m, "system") = Transfers(m.ixs)
      BY DEF Of, Transfers
    <3> QED
      BY <2>1, <2>2, <3>1
  <2>4. MovedOut(m, Pin) = Moved(m, Transfers(m.ixs))
    BY <2>3 DEF MovedOut, Moved
  <2>5. CASE o.input = "wsol" /\ o.tip > 0
    <3>1. Transfers(m.ixs) = {a, b} /\ a # b
      BY <2>1, <2>5
    <3>2. Moved(m, {a, b}) = amount + o.tip
      <4>1. m.ixs[a].lamports = amount /\ m.ixs[b].lamports = o.tip
        BY <2>2, <2>5
      <4>2. m.ixs[a].lamports \in Nat /\ m.ixs[b].lamports \in Nat
        BY <4>1
      <4>3. Moved(m, {a, b}) = m.ixs[a].lamports + m.ixs[b].lamports
        BY <3>1, <4>2, MovedTwice
      <4> QED
        BY <4>1, <4>3
    <3> QED
      BY <2>4, <2>5, <3>1, <3>2 DEF Spent
  <2>6. CASE o.input = "wsol" /\ ~(o.tip > 0)
    <3>1. Transfers(m.ixs) = {a} /\ o.tip = 0
      BY <2>1, <2>6
    <3>2. Moved(m, {a}) = amount
      BY <2>2, <2>6, MovedOnce
    <3> QED
      BY <2>4, <2>6, <3>1, <3>2 DEF Spent
  <2>7. CASE o.input # "wsol" /\ o.tip > 0
    <3>1. Transfers(m.ixs) = {b}
      BY <2>1, <2>7
    <3>2. Moved(m, {b}) = o.tip
      BY <2>2, <2>7, MovedOnce
    <3> QED
      BY <2>4, <2>7, <3>1, <3>2 DEF Spent
  <2>8. CASE o.input # "wsol" /\ ~(o.tip > 0)
    <3>1. Transfers(m.ixs) = {} /\ o.tip = 0
      BY <2>1, <2>8
    <3> QED
      BY <2>4, <2>8, <3>1, MovedNothing DEF Spent
  <2> QED
    BY <2>5, <2>6, <2>7, <2>8
<1> QED
  BY <1>1, <1>6, <1>9, <1>10 DEF PolicyAllows, m

-----------------------------------------------------------------------------
(* The attempt *)

WithinCaps == Outlay <= MaxTransfer /\ setting.cuPrice <= MaxCuPrice

TxShape ==
  tx = [arrays |-> tx.arrays, message |-> tx.message, quoted |-> tx.quoted, minOut |-> tx.minOut,
        impact |-> tx.impact, signature |-> tx.signature]

\* What was built follows from what was quoted, at the slippage of the attempt.
Priced ==
  /\ tx.quoted \in Nat
  /\ tx.minOut = MinOut(tx.quoted, swap.slippage)
  /\ tx.message = SwapTransaction(Options, Pin, Position, tx.minOut)
  /\ swap.leg = "entry" => tx.impact \in Nat /\ NetEdge(Terms, tx.impact, Position) >= Terms.minEdge

SwapInv ==
  /\ setting \in Settings
  /\ failures \in Nat
  /\ TxShape
  /\ stage # "idle" =>
       swap.leg \in {"entry", "exit"} /\ swap.slippage \in Nat /\ swap.slippage <= Tolerance(swap.leg)
  /\ stage \in {"sign", "verify", "submit"} => Priced
  /\ stage = "verify" /\ tx.signature = <<Pin, tx.message>> => WithinCaps
  /\ SubmittedIsSigned
  /\ FillsWithinTolerance

LEMMA SettingType ==
  ASSUME setting \in Settings
  PROVE  /\ setting.cuPrice \in Nat /\ setting.tip \in Nat
         /\ Options.cuPrice = setting.cuPrice /\ Options.tip = setting.tip
         /\ Options.tipAccount = "tip"
         /\ Options.input = "wsol" <=> swap.leg = "entry"
         /\ Spent(Options, Position) = Outlay
<1>1. setting.cuPrice \in Nat /\ setting.tip \in Nat
  BY SwapAssumption DEF SwapAssumption
<1>2. /\ Options.cuPrice = setting.cuPrice /\ Options.tip = setting.tip
      /\ Options.tipAccount = "tip"
      /\ Options.input = "wsol" <=> swap.leg = "entry"
  BY DEF Options
<1>3. Spent(Options, Position) = Outlay
  BY <1>2 DEF Spent, Outlay
<1> QED
  BY <1>1, <1>2, <1>3

\* The signer passes what was built exactly within the caps.
LEMMA SignsWithinCaps ==
  ASSUME setting \in Settings, Priced
  PROVE  PolicyAllows(tx.message, Pin) <=> WithinCaps
<1>1. Options.cuPrice \in Nat /\ Options.tip \in Nat /\ Options.tipAccount = "tip"
      /\ Spent(Options, Position) = Outlay /\ Options.cuPrice = setting.cuPrice
  BY SettingType
<1>2. Position \in Nat
  BY SwapAssumption DEF SwapAssumption
<1> HIDE DEF Options
<1>3. PolicyAllows(SwapTransaction(Options, Pin, Position, tx.minOut), Pin)
        <=> (Spent(Options, Position) <= MaxTransfer /\ Options.cuPrice <= MaxCuPrice)
  BY <1>1, <1>2, PolicyExact
<1> QED
  BY <1>1, <1>3 DEF Priced, WithinCaps

LEMMA InitSwap == Init => SwapInv
  BY SwapAssumption
  DEF Init, SwapInv, TxShape, NoTx, NoFill, SubmittedIsSigned, FillsWithinTolerance, SwapAssumption

\* The end of an attempt.
LEMMA IdleKeeps ==
  ASSUME SwapInv, Idle, UNCHANGED <<setting, fill>>, failures' \in Nat
  PROVE  SwapInv'
<1>1. stage' = "idle" /\ TxShape'
  BY DEF Idle, NoTx, TxShape
<1>2. FillsWithinTolerance'
  BY DEF SwapInv, FillsWithinTolerance
<1> QED
  BY <1>1, <1>2 DEF SwapInv, SubmittedIsSigned

LEMMA GiveUpKeeps ==
  ASSUME SwapInv, GiveUp PROVE SwapInv'
<1>1. failures' \in Nat
  BY SwapAssumption DEF GiveUp, SwapInv, Least, SwapAssumption
<1> QED
  BY <1>1, IdleKeeps DEF GiveUp

\* A step on the way to the quote.
LEMMA EarlyKeeps ==
  ASSUME SwapInv, stage # "idle", stage' \in {"pool", "config", "arrays", "quote"},
         UNCHANGED <<setting, swap, failures, fill>>, TxShape'
  PROVE  SwapInv'
  BY DEF SwapInv, SubmittedIsSigned, FillsWithinTolerance, Tolerance

\* The quote is priced and built.
LEMMA BuiltIsPriced ==
  ASSUME TxShape, NEW quoted \in Nat, NEW spot \in Nat,
         UNCHANGED <<setting, swap>>, tx' = Built(quoted, spot),
         swap.leg = "entry" => NetEdge(Terms, PriceImpact(spot, quoted), Position) >= Terms.minEdge
  PROVE  TxShape' /\ Priced'
<1>1. tx' = [arrays |-> tx.arrays,
             message |-> SwapTransaction(Options, Pin, Position, MinOut(quoted, swap.slippage)),
             quoted |-> quoted, minOut |-> MinOut(quoted, swap.slippage),
             impact |-> IF swap.leg = "entry" THEN PriceImpact(spot, quoted) ELSE 0,
             signature |-> tx.signature]
  BY DEF TxShape, Built
<1>2. UNCHANGED Options
  BY DEF Options
<1>3. PriceImpact(spot, quoted) \in Nat
  <2>0. Bps \in Nat
    BY CostAssumption DEF CostAssumption
  <2>1. CASE spot = 0
    BY <2>0, <2>1 DEF PriceImpact
  <2>2. CASE spot # 0
    <3> DEFINE lost == Greatest(spot - quoted, 0) * Bps
    <3>1. Greatest(spot - quoted, 0) \in Nat
      BY DEF Greatest
    <3>2. lost \in Nat
      BY <2>0, <3>1, NatProduct
    <3>3. PriceImpact(spot, quoted) = lost \div spot
      BY <2>2 DEF PriceImpact
    <3> HIDE DEF lost
    <3> QED
      BY <2>2, <3>2, <3>3, QuotientOfNat
  <2> QED
    BY <2>1, <2>2
<1>4. TxShape'
  BY <1>1 DEF TxShape
<1> QED
  BY <1>1, <1>2, <1>3, <1>4 DEF Priced

\* A step that leaves what was built alone.
LEMMA PricedKept ==
  ASSUME Priced, UNCHANGED <<setting, swap>>,
         tx'.quoted = tx.quoted, tx'.minOut = tx.minOut, tx'.message = tx.message, tx'.impact = tx.impact
  PROVE  Priced' /\ UNCHANGED <<WithinCaps, Outlay>>
<1>1. UNCHANGED <<Options, Outlay>>
  BY DEF Options, Outlay
<1> QED
  BY <1>1 DEF Priced, WithinCaps

LEMMA NextSwap == SwapInv /\ [Next]_vars => SwapInv'
<1> SUFFICES ASSUME SwapInv, [Next]_vars PROVE SwapInv'
  OBVIOUS
<1> USE DEF attemptVars
<1>0. Outs \subseteq Nat /\ Pin # OtherKey /\ BaseSlippage \in Nat /\ ExitMaxSlippage \in Nat
  BY SwapAssumption DEF SwapAssumption
<1>t. TxShape /\ failures \in Nat
  BY DEF SwapInv
<1>1. ASSUME UNCHANGED <<setting, failures, tx, stage, swap, fill>> PROVE SwapInv'
  BY <1>1 DEF SwapInv, TxShape, Priced, Options, WithinCaps, Outlay, SubmittedIsSigned,
              FillsWithinTolerance
<1>2. ASSUME NEW s \in Touched, Opened(s) \/ Emptied(s) PROVE SwapInv'
  BY <1>1, <1>2 DEF Opened, Emptied
<1>3. ASSUME NEW k \in {Pin, OtherKey}, ServerRestarts(k) PROVE SwapInv'
  BY <1>1, <1>3 DEF ServerRestarts
<1>4. CASE BatchTooLarge \/ UNCHANGED vars
  BY <1>1, <1>4 DEF BatchTooLarge, vars
<1>5. ASSUME NEW close \in BOOLEAN, Begin(close) PROVE SwapInv'
  <2>1. /\ stage' = "pool" /\ UNCHANGED <<setting, tx, failures>> /\ fill' = NoFill
        /\ swap' = [leg |-> IF holding THEN "exit" ELSE "entry", close |-> close,
                    slippage |-> IF holding THEN ExitSlippage(failures) ELSE BaseSlippage]
    BY <1>5 DEF Begin
  <2>2. swap'.leg \in {"entry", "exit"} /\ swap'.slippage \in Nat /\ swap'.slippage <= Tolerance(swap'.leg)
    <3>1. CASE holding
      BY <1>t, <2>1, <3>1, SlippageCapped
    <3>2. CASE ~holding
      BY <1>0, <2>1, <3>2 DEF Tolerance
    <3> QED
      BY <3>1, <3>2
  <2>3. FillsWithinTolerance' /\ SubmittedIsSigned' /\ TxShape'
    BY <1>t, <2>1 DEF FillsWithinTolerance, NoFill, SubmittedIsSigned, TxShape
  <2>4. (swap.leg \in {"entry", "exit"} /\ swap.slippage \in Nat /\ swap.slippage <= Tolerance(swap.leg))'
    BY <2>2 DEF Tolerance
  <2> QED
    BY <2>1, <2>3, <2>4 DEF SwapInv
<1>6. CASE ReadPool \/ ReadConfig \/ ScanInstead
  BY <1>6, <1>t, EarlyKeeps DEF ReadPool, ReadConfig, ScanInstead, TxShape
<1>7. ASSUME NEW existing, FetchBatch(existing) PROVE SwapInv'
  BY <1>7, <1>t, EarlyKeeps DEF FetchBatch, TxShape
<1>8. CASE ChooseArrays
  <2>1. TxShape'
    BY <1>8, <1>t DEF ChooseArrays, TxShape
  <2> QED
    BY <1>8, <2>1, EarlyKeeps DEF ChooseArrays
<1>9. CASE Beyond \/ NoArrays \/ ReadFails \/ ServerRefuses \/ NoAnswer \/ Unverified \/ DoesNotFill
  BY <1>9, GiveUpKeeps DEF Beyond, NoArrays, ReadFails, ServerRefuses, NoAnswer, Unverified, DoesNotFill
<1>10. ASSUME NEW spot \in Outs, NEW sim \in Outs, NEW l \in Liquidities, RejectEntry(spot, sim, l)
       PROVE  SwapInv'
  BY <1>10, GiveUpKeeps DEF RejectEntry
<1>11. CASE HoldOn
  BY <1>11, IdleKeeps DEF HoldOn
\* The quote.
<1>12. ASSUME Priced', TxShape', stage' = "sign", stage = "quote",
              UNCHANGED <<setting, swap, failures, fill>>
       PROVE  SwapInv'
  BY <1>12 DEF SwapInv, SubmittedIsSigned, FillsWithinTolerance, Tolerance
<1>13. ASSUME NEW spot \in Outs, NEW sim \in Outs, NEW l \in Liquidities, QuoteEntry(spot, sim, l)
       PROVE  SwapInv'
  <2>1. /\ stage = "quote" /\ swap.leg = "entry" /\ stage' = "sign" /\ tx' = Built(sim, spot)
        /\ UNCHANGED <<setting, swap, failures, fill>>
        /\ EntryEconomics(Terms, spot, sim, Position, l)
    BY <1>13 DEF QuoteEntry
  <2>2. NetEdge(Terms, PriceImpact(spot, sim), Position) >= Terms.minEdge
    BY <2>1 DEF EntryEconomics
  <2>3. TxShape' /\ Priced'
    BY <1>0, <1>t, <2>1, <2>2, BuiltIsPriced
  <2> QED
    BY <1>12, <2>1, <2>3
<1>14. ASSUME NEW spot \in Outs \ {0}, NEW sim \in Outs, QuoteExit(spot, sim) PROVE SwapInv'
  <2>1. /\ stage = "quote" /\ swap.leg = "exit" /\ stage' = "sign"
        /\ tx' = Built(IF sim > 0 THEN sim ELSE spot, spot)
        /\ UNCHANGED <<setting, swap, failures, fill>>
    BY <1>14 DEF QuoteExit
  <2> DEFINE quoted == IF sim > 0 THEN sim ELSE spot
  <2>2. quoted \in Nat /\ spot \in Nat
    BY <1>0
  <2> HIDE DEF quoted
  <2>3. TxShape' /\ Priced'
    BY <1>t, <2>1, <2>2, BuiltIsPriced DEF quoted
  <2> QED
    BY <1>12, <2>1, <2>3
\* The signature.
<1>15. ASSUME NEW signature, stage = "sign", tx' = [tx EXCEPT !.signature = signature],
              UNCHANGED <<setting, swap, failures, fill>>, stage' = "verify",
              signature = <<Pin, tx.message>> => WithinCaps
       PROVE  SwapInv'
  <2>1. /\ TxShape' /\ tx'.quoted = tx.quoted /\ tx'.minOut = tx.minOut
        /\ tx'.message = tx.message /\ tx'.impact = tx.impact /\ tx'.signature = signature
    BY <1>15, <1>t DEF TxShape
  <2>2. Priced
    BY <1>15 DEF SwapInv
  <2>3. Priced' /\ UNCHANGED WithinCaps
    BY <1>15, <2>1, <2>2, PricedKept
  <2> QED
    BY <1>15, <2>1, <2>3 DEF SwapInv, SubmittedIsSigned, FillsWithinTolerance, Tolerance
<1>16. CASE ServerSigns
  <2>1. /\ stage = "sign" /\ PolicyAllows(tx.message, serverKey)
        /\ tx' = [tx EXCEPT !.signature = <<serverKey, tx.message>>] /\ stage' = "verify"
        /\ UNCHANGED <<setting, swap, failures, fill>>
    BY <1>16 DEF ServerSigns
  <2>2. Priced /\ setting \in Settings
    BY <2>1 DEF SwapInv
  <2>3. <<serverKey, tx.message>> = <<Pin, tx.message>> => serverKey = Pin
    OBVIOUS
  <2>4. <<serverKey, tx.message>> = <<Pin, tx.message>> => WithinCaps
    BY <2>1, <2>2, <2>3, SignsWithinCaps
  <2> QED
    BY <1>15, <2>1, <2>4
<1>17. ASSUME NEW signature \in {Zero, <<OtherKey, tx.message>>}, Misanswer(signature) PROVE SwapInv'
  <2>1. signature # <<Pin, tx.message>>
    BY <1>0 DEF Zero
  <2> QED
    BY <1>15, <1>17, <2>1 DEF Misanswer
<1>18. CASE Verified
  <2>1. /\ stage = "verify" /\ stage' = "submit" /\ UNCHANGED <<setting, swap, tx, failures, fill>>
        /\ tx.signature = <<Pin, tx.message>>
    BY <1>18 DEF Verified, VerifySignature
  <2>2. Priced /\ WithinCaps
    BY <2>1 DEF SwapInv
  <2>3. Priced' /\ UNCHANGED WithinCaps
    BY <2>1, <2>2, PricedKept
  <2>4. SubmittedIsSigned'
    BY <2>1, <2>2, <2>3 DEF SubmittedIsSigned, WithinCaps
  <2> QED
    BY <2>1, <2>3, <2>4 DEF SwapInv, FillsWithinTolerance, Tolerance, TxShape
\* The fill.
<1>19. ASSUME NEW out \in Outs, Fills(out) PROVE SwapInv'
  <2>1. /\ stage = "submit" /\ out >= tx.minOut /\ Idle /\ failures' = 0 /\ UNCHANGED setting
        /\ fill' = [leg |-> swap.leg, quoted |-> tx.quoted, out |-> out]
    BY <1>19 DEF Fills
  <2>2. /\ tx.quoted \in Nat /\ tx.minOut = MinOut(tx.quoted, swap.slippage)
        /\ swap.leg \in {"entry", "exit"} /\ swap.slippage \in Nat /\ swap.slippage <= Tolerance(swap.leg)
    BY <2>1 DEF SwapInv, Priced
  <2>3. Tolerance(swap.leg) \in Nat /\ out \in Nat
    BY <1>0 DEF Tolerance, Greatest
  <2>4. (out + 1) * Bps > tx.quoted * (Bps - Tolerance(swap.leg))
    BY <2>1, <2>2, <2>3, MinimumKept
  <2>5. FillsWithinTolerance'
    BY <2>1, <2>4 DEF FillsWithinTolerance, Tolerance
  <2>6. stage' = "idle" /\ TxShape'
    BY <2>1 DEF Idle, NoTx, TxShape
  <2> QED
    BY <2>1, <2>5, <2>6 DEF SwapInv, SubmittedIsSigned
<1> QED
  BY <1>2, <1>3, <1>4, <1>5, <1>6, <1>7, <1>8, <1>9, <1>10, <1>11, <1>13, <1>14, <1>16, <1>17,
     <1>18, <1>19 DEF Next

THEOREM SwapInvariant == Spec => []SwapInv
  BY InitSwap, NextSwap, PTL DEF Spec

\* Whatever the fees, the tip, the position and the caps, the signer with the
\* wallet's key refuses a swap of this process exactly when its outlay or its
\* compute price is past the operator's caps.
THEOREM PolicyFitsSwaps == Spec => []SignsWhatItBuilds
<1>1. SwapInv => SignsWhatItBuilds
  <2>1. PolicyAllows(tx.message, Pin) \in BOOLEAN
    BY Zenon DEF PolicyAllows
  <2>2. WithinCaps \in BOOLEAN
    BY Zenon DEF WithinCaps
  <2>3. ASSUME SwapInv, stage = "sign", serverKey = Pin
        PROVE  PolicyAllows(tx.message, Pin) = WithinCaps
    <3>1. setting \in Settings /\ Priced
      BY <2>3 DEF SwapInv
    <3>2. PolicyAllows(tx.message, Pin) <=> WithinCaps
      BY <3>1, SignsWithinCaps, Zenon
    <3> HIDE DEF WithinCaps
    <3> QED
      BY <2>1, <2>2, <3>2
  <2> QED
    BY <2>3, Zenon DEF SignsWhatItBuilds, WithinCaps
<1> QED
  BY SwapInvariant, <1>1, PTL

\* Over any restarts of the signer, late, lost and wrong answers, what is
\* submitted bears the pinned key's signature of this very message, given
\* within the policy.
THEOREM SubmittedSigned == Spec => []SubmittedIsSigned
<1>1. SwapInv => SubmittedIsSigned
  BY DEF SwapInv
<1> QED
  BY SwapInvariant, <1>1, PTL

\* After any number of failed exits, no fill is worse than its quote by more
\* than the tolerance of its leg.
THEOREM FillTolerance == Spec => []FillsWithinTolerance
<1>1. SwapInv => FillsWithinTolerance
  BY DEF SwapInv
<1> QED
  BY SwapInvariant, <1>1, PTL

\* For every position and cost, an entry that is built keeps the minimum edge
\* less six basis points when its costs are taken without rounding.
THEOREM EntryEdge == Spec => []EntryPaysOff
<1>1. SwapInv => EntryPaysOff
  <2> SUFFICES ASSUME SwapInv, stage = "sign", swap.leg = "entry" PROVE EntryPaysOff
    BY DEF EntryPaysOff
  <2>1. tx.impact \in Nat /\ NetEdge(Terms, tx.impact, Position) >= Terms.minEdge
    BY DEF SwapInv, Priced
  <2>2. EdgeMargin(tx.impact) > 100 * (Terms.minEdge - 6) * Position
    BY <2>1, EdgeIsNearlyExact
  <2> QED
    BY <2>2 DEF EntryPaysOff, EdgeMargin
<1> QED
  BY SwapInvariant, <1>1, PTL

-----------------------------------------------------------------------------
(* Division of any number *)

\* A quotient and its remainder.
LEMMA DividedInt ==
  ASSUME NEW a \in Int, NEW d \in Nat \ {0}
  PROVE  a \div d \in Int /\ a % d \in 0..(d - 1) /\ a = (a \div d) * d + (a % d)
<1> DEFINE q == a \div d
           r == a % d
<1>1. q \in Int /\ r \in 0..(d - 1)
  OBVIOUS
<1>2. r = a - d * q
  OBVIOUS
<1> HIDE DEF q, r
<1>3. d * q = q * d /\ d * q \in Int
  BY <1>1
<1>4. a = q * d + r
  BY <1>1, <1>2, <1>3
<1> QED
  BY <1>1, <1>4, Zenon DEF q, r

\* Between the same multiples lies one quotient.
LEMMA SameQuotient ==
  ASSUME NEW d \in Nat \ {0}, NEW q \in Int, NEW x \in Int, NEW a \in Int,
         q * d <= a, a < q * d + d, x * d <= a, a < x * d + d
  PROVE  q = x
<1>1. q * d \in Int /\ x * d \in Int /\ q * d = d * q /\ x * d = d * x
  OBVIOUS
<1>2. ~(x + 1 <= q)
  <2> SUFFICES ASSUME x + 1 <= q PROVE FALSE
    OBVIOUS
  <2>1. d * (x + 1) <= d * q /\ d * (x + 1) = d * x + d
    BY Grows
  <2> QED
    BY <1>1, <2>1
<1>3. ~(q + 1 <= x)
  <2> SUFFICES ASSUME q + 1 <= x PROVE FALSE
    OBVIOUS
  <2>1. d * (q + 1) <= d * x /\ d * (q + 1) = d * q + d
    BY Grows
  <2> QED
    BY <1>1, <2>1
<1> QED
  BY <1>2, <1>3

LEMMA DividingInt ==
  ASSUME NEW d \in Nat \ {0}, NEW q \in Int, NEW r \in 0..(d - 1)
  PROVE  (q * d + r) \div d = q /\ (q * d + r) % d = r
<1> DEFINE a == q * d + r
           x == a \div d
           y == a % d
<1>1. a \in Int /\ q * d \in Int
  BY IntProduct
<1>2. x \in Int /\ y \in 0..(d - 1) /\ a = x * d + y
  BY <1>1, DividedInt
<1>3. a = q * d + r
  OBVIOUS
<1> HIDE DEF a, x, y
<1>4. x * d \in Int
  BY <1>2, IntProduct
<1>5. x = q
  <2>1. q * d <= a /\ a < q * d + d /\ x * d <= a /\ a < x * d + d
    BY <1>1, <1>2, <1>3, <1>4
  <2> QED
    BY <1>1, <1>2, <2>1, SameQuotient
<1>6. y = r
  BY <1>1, <1>2, <1>3, <1>4, <1>5
<1> QED
  BY <1>5, <1>6 DEF a, x, y

-----------------------------------------------------------------------------
(* Bitmaps of tick arrays *)

LEMMA TickTypes ==
  /\ Span \in Nat \ {0} /\ DefaultArrays \in Nat \ {0} /\ ExtensionBitmaps \in Nat \ {0}
  /\ Reach \in Nat \ {0} /\ Reach = DefaultArrays * Span /\ Lowest \in Int /\ Highest \in Int
<1>1. Span \in Nat \ {0} /\ DefaultArrays \in Nat \ {0} /\ ExtensionBitmaps \in Nat \ {0}
      /\ MinTick \in Int /\ MaxTick \in Int
  BY TickAssumption
<1>2. DefaultArrays * Span \in Nat /\ DefaultArrays * Span # 0
  BY <1>1
<1>3. ASSUME NEW t \in Int PROVE Start(t) \in Int
  <2>1. t \div Span \in Int
    BY <1>1, DividedInt
  <2> QED
    BY <1>1, <2>1, IntProduct DEF Start
<1> QED
  BY <1>1, <1>2, <1>3 DEF Reach, Lowest, Highest

\* The side of an extension bitmap, and the first start of bitmap k of a side.
Side(s)    == IF s > 0 THEN "positive" ELSE "negative"
Base(s, k) == IF s > 0 THEN (k + 1) * Reach ELSE -((k + 2) * Reach)

\* A start beyond the pool's own bitmap is at array i of bitmap k of its side.
LEMMA Placed ==
  ASSUME NEW s \in Starts, ~InDefault(s)
  PROVE  \E k \in 0..(ExtensionBitmaps - 1), i \in 0..(DefaultArrays - 1) :
           s = (IF s > 0 THEN (k + 1) * Reach ELSE -((k + 2) * Reach)) + i * Span
<1>1. /\ s \in Int /\ Lowest <= s /\ s <= Highest /\ s % Span = 0 /\ ~(-Reach <= s /\ s <= Reach - 1)
  BY TickTypes DEF Starts, InDefault
<1>2. /\ Span \in Nat \ {0} /\ DefaultArrays \in Nat \ {0} /\ ExtensionBitmaps \in Nat \ {0}
      /\ Reach \in Nat \ {0} /\ Reach = DefaultArrays * Span /\ Lowest \in Int /\ Highest \in Int
  BY TickTypes
<1> DEFINE q == s \div Reach
           r == s % Reach
           p == s \div Span
           i == r \div Span
           j == r % Span
<1>3. q \in Int /\ r \in 0..(Reach - 1) /\ s = q * Reach + r
  BY <1>1, <1>2, DividedInt
<1>4. p \in Int /\ s = p * Span
  <2>1. p \in Int /\ s = p * Span + (s % Span)
    BY <1>1, <1>2, DividedInt
  <2> HIDE DEF p
  <2>2. p * Span \in Int
    BY <1>2, <2>1, IntProduct
  <2> QED
    BY <1>1, <2>1, <2>2
<1>5. i \in Int /\ j \in 0..(Span - 1) /\ r = i * Span + j
  <2>1. r \in Int
    BY <1>3
  <2> QED
    BY <1>2, <2>1, DividedInt
<1> HIDE DEF q, r, p, i, j
<1>6. q * Reach = (q * DefaultArrays) * Span /\ q * Reach \in Int /\ i * Span \in Int
  BY <1>2, <1>3, <1>5
\* A start is a multiple of the span, so its place in the bitmap is whole.
<1>7. j = 0
  <2> DEFINE c == q * DefaultArrays + i
  <2>1. c \in Int /\ s = c * Span + j
    <3>1. q * DefaultArrays \in Int
      BY <1>2, <1>3, IntProduct
    <3>2. (q * DefaultArrays + i) * Span = (q * DefaultArrays) * Span + i * Span
      BY <1>2, <1>5, <3>1
    <3> QED
      BY <1>2, <1>3, <1>5, <1>6, <3>1, <3>2
  <2> HIDE DEF c
  <2>2. (c * Span + j) % Span = j
    BY <1>2, <1>5, <2>1, DividingInt
  <2> QED
    BY <1>1, <2>1, <2>2
<1>8. i \in 0..(DefaultArrays - 1)
  <2>1. r = i * Span
    BY <1>5, <1>6, <1>7
  <2>2. ~(i <= -1)
    <3> SUFFICES ASSUME i <= -1 PROVE FALSE
      OBVIOUS
    <3>1. Span * i <= Span * (-1) /\ Span * i = i * Span /\ Span * (-1) = -Span
      BY <1>2, <1>5, Grows
    <3> QED
      BY <1>2, <1>3, <1>6, <2>1, <3>1
  <2>3. ~(DefaultArrays <= i)
    <3> SUFFICES ASSUME DefaultArrays <= i PROVE FALSE
      OBVIOUS
    <3>1. Span * DefaultArrays <= Span * i /\ Span * i = i * Span /\ Span * DefaultArrays = Reach
      BY <1>2, <1>5, Grows, IntProduct
    <3> QED
      BY <1>2, <1>3, <1>6, <2>1, <3>1
  <2> QED
    BY <1>2, <1>5, <2>2, <2>3
<1>9. r = i * Span
  BY <1>5, <1>6, <1>7
<1> DEFINE top == (ExtensionBitmaps + 1) * Reach
<1>10. top \in Int /\ -top <= s /\ s < top
  <2>1. top \in Int /\ Lowest >= -top /\ Highest < top
    BY <1>2, IntProduct, ReachAssumption DEF ReachAssumption
  <2> HIDE DEF top
  <2> QED
    BY <1>1, <1>2, <2>1
<1>11. CASE s > 0
  <2>1. 1 <= q
    <3> SUFFICES ASSUME q <= 0 PROVE FALSE
      BY <1>3
    <3>1. Reach * q <= Reach * 0 /\ Reach * q = q * Reach
      BY <1>2, <1>3, Grows
    <3> QED
      BY <1>1, <1>2, <1>3, <1>6, <1>11, <3>1
  <2>2. q <= ExtensionBitmaps
    <3> SUFFICES ASSUME ExtensionBitmaps + 1 <= q PROVE FALSE
      BY <1>2, <1>3
    <3>1. Reach * (ExtensionBitmaps + 1) <= Reach * q /\ Reach * q = q * Reach
          /\ Reach * (ExtensionBitmaps + 1) = top
      BY <1>2, <1>3, Grows
    <3> QED
      BY <1>3, <1>6, <1>10, <3>1
  <2>3. q - 1 \in 0..(ExtensionBitmaps - 1) /\ s = ((q - 1) + 1) * Reach + i * Span
    BY <1>2, <1>3, <1>9, <2>1, <2>2
  <2> QED
    BY <1>8, <1>11, <2>3
<1>12. CASE ~(s > 0)
  <2>1. q <= -2
    <3> SUFFICES ASSUME -1 <= q PROVE FALSE
      BY <1>3
    <3>1. Reach * (-1) <= Reach * q /\ Reach * q = q * Reach /\ Reach * (-1) = -Reach
      BY <1>2, <1>3, Grows
    <3> QED
      BY <1>1, <1>2, <1>3, <1>6, <1>12, <3>1
  <2>2. -(ExtensionBitmaps + 1) <= q
    <3> SUFFICES ASSUME q + 1 <= -(ExtensionBitmaps + 1) PROVE FALSE
      BY <1>2, <1>3
    <3>1. Reach * (q + 1) <= Reach * (-(ExtensionBitmaps + 1)) /\ Reach * (q + 1) = q * Reach + Reach
          /\ Reach * (-(ExtensionBitmaps + 1)) = -top
      BY <1>2, <1>3, Grows
    <3> QED
      BY <1>2, <1>3, <1>6, <1>10, <3>1
  <2>3. -q - 2 \in 0..(ExtensionBitmaps - 1) /\ s = -(((-q - 2) + 2) * Reach) + i * Span
    <3>1. -(((-q - 2) + 2) * Reach) = q * Reach
      BY <1>2, <1>3
    <3> QED
      BY <1>2, <1>3, <1>9, <2>1, <2>2, <3>1
  <2> QED
    BY <1>8, <1>12, <2>3
<1> QED
  BY <1>11, <1>12

\* Array i of a bitmap lies inside the bitmap.
LEMMA Within ==
  ASSUME NEW i \in 0..(DefaultArrays - 1)
  PROVE  i * Span \in 0..(Reach - 1) /\ (i > 0 => i * Span > 0)
<1>1. Span \in Nat \ {0} /\ DefaultArrays \in Nat \ {0} /\ Reach \in Nat \ {0} /\ Reach = DefaultArrays * Span
  BY TickTypes
<1>2. Span * 0 <= Span * i /\ Span * 0 = 0 /\ Span * i = i * Span /\ i * Span \in Int
  BY <1>1, Grows
<1>3. Span * i <= Span * (DefaultArrays - 1) /\ Span * (DefaultArrays - 1) = Reach - Span
  BY <1>1, Grows
<1>4. i > 0 => Span * 1 <= Span * i
  BY <1>1, Grows
<1> QED
  BY <1>1, <1>2, <1>3, <1>4

\* The program's bit of array i of bitmap k of a side: the bitmap is the only one.
LEMMA ProgramBitIs ==
  ASSUME NEW s \in Int, NEW k \in 0..(ExtensionBitmaps - 1), NEW i \in 0..(DefaultArrays - 1),
         s = Base(s, k) + i * Span
  PROVE  ProgramBit(s) = <<Side(s), k, i>>
<1>1. Span \in Nat \ {0} /\ ExtensionBitmaps \in Nat \ {0} /\ Reach \in Nat \ {0}
  BY TickTypes
<1>2. i * Span \in 0..(Reach - 1)
  BY Within
<1> DEFINE P(j) == IF s > 0 THEN s \in ((j + 1) * Reach)..((j + 2) * Reach - 1)
                   ELSE s \in (-((j + 2) * Reach))..(-((j + 1) * Reach) - 1)
           c == CHOOSE j \in 0..ExtensionBitmaps : P(j)
<1>3. ASSUME NEW j \in Int
      PROVE  (j + 1) * Reach \in Int /\ (j + 2) * Reach = (j + 1) * Reach + Reach
  BY <1>1
<1>4. P(k)
  <2>1. (k + 1) * Reach \in Int /\ (k + 2) * Reach = (k + 1) * Reach + Reach
    BY <1>3
  <2> QED
    BY <1>1, <1>2, <2>1 DEF Base
<1>5. ASSUME NEW j \in 0..ExtensionBitmaps, P(j) PROVE j = k
  <2>1. /\ (k + 1) * Reach \in Int /\ (k + 2) * Reach = (k + 1) * Reach + Reach
        /\ (j + 1) * Reach \in Int /\ (j + 2) * Reach = (j + 1) * Reach + Reach
    BY <1>1, <1>3
  <2>2. CASE s > 0
    <3> DEFINE q == j + 1
               x == k + 1
    <3>1. q * Reach <= s /\ s < q * Reach + Reach /\ x * Reach <= s /\ s < x * Reach + Reach
      BY <1>1, <1>4, <1>5, <2>1, <2>2
    <3>2. q \in Int /\ x \in Int
      OBVIOUS
    <3> HIDE DEF q, x
    <3>3. q = x
      BY <1>1, <3>1, <3>2, SameQuotient
    <3> QED
      BY <3>3 DEF q, x
  <2>3. CASE ~(s > 0)
    <3> DEFINE q == -(j + 2)
               x == -(k + 2)
    <3>1. q * Reach = -((j + 2) * Reach) /\ x * Reach = -((k + 2) * Reach)
      BY <1>1
    <3>2. q * Reach <= s /\ s < q * Reach + Reach /\ x * Reach <= s /\ s < x * Reach + Reach
      BY <1>1, <1>4, <1>5, <2>1, <2>3, <3>1
    <3>3. q \in Int /\ x \in Int
      OBVIOUS
    <3> HIDE DEF q, x
    <3>4. q = x
      BY <1>1, <3>2, <3>3, SameQuotient
    <3> QED
      BY <3>4 DEF q, x
  <2> QED
    BY <2>2, <2>3
<1>6. c = k
  <2>1. k \in 0..ExtensionBitmaps
    BY <1>1
  <2> HIDE DEF P
  <2>2. c \in 0..ExtensionBitmaps /\ P(c)
    BY <1>4, <2>1
  <2> HIDE DEF c
  <2> QED
    BY <1>5, <2>2
<1>7. (s - Base(s, k)) \div Span = i
  <2>1. Base(s, k) \in Int
    BY <1>1, <1>3, IntProduct DEF Base
  <2>2. s - Base(s, k) = i * Span
    BY <1>2, <2>1
  <2>3. (i * Span + 0) \div Span = i
    BY <1>1, DividingInt
  <2>4. i * Span + 0 = i * Span
    BY <1>2
  <2> QED
    BY <2>2, <2>3, <2>4
<1>8. ProgramBit(s) = <<Side(s), c, (s - Base(s, c)) \div Span>>
  BY DEF ProgramBit, Side, Base
<1> HIDE DEF c
<1> QED
  BY <1>6, <1>7, <1>8

\* The bot's bit of array i of bitmap k of a side.
LEMMA BotBitIs ==
  ASSUME NEW s \in Int, NEW k \in 0..(ExtensionBitmaps - 1), NEW i \in 0..(DefaultArrays - 1),
         s = Base(s, k) + i * Span
  PROVE  (IF s > 0 THEN PositiveBit(s) ELSE NegativeBit(s)) = <<Side(s), k, i>>
<1>1. Span \in Nat \ {0} /\ DefaultArrays \in Nat \ {0} /\ Reach \in Nat \ {0} /\ Reach = DefaultArrays * Span
  BY TickTypes
<1>2. i * Span \in 0..(Reach - 1) /\ (i > 0 => i * Span > 0)
  BY Within
<1>3. ASSUME NEW n \in Int PROVE (n * Span) \div Span = n
  <2>1. Span \in Nat \ {0} /\ 0 \in 0..(Span - 1) /\ n * Span \in Int
    BY <1>1, IntProduct
  <2>2. (n * Span + 0) \div Span = n
    BY <1>3, <2>1, DividingInt, Zenon
  <2> QED
    BY <2>1, <2>2
<1>6. ASSUME NEW q \in Int, NEW r \in 0..(Reach - 1)
      PROVE  (q * Reach + r) \div Reach = q /\ (q * Reach + r) % Reach = r
  <2>1. Reach \in Nat \ {0}
    BY <1>1
  <2> QED
    BY <1>6, <2>1, DividingInt, Zenon
<1>4. CASE s > 0
  <2>1. s = (k + 1) * Reach + i * Span
    BY <1>4 DEF Base
  <2>2. s \div Reach = k + 1 /\ s % Reach = i * Span
    <3>0. i * Span \in 0..(Reach - 1)
      BY <1>1, <1>2
    <3>1. k + 1 \in Int
      OBVIOUS
    <3>2. ((k + 1) * Reach + i * Span) \div Reach = k + 1 /\ ((k + 1) * Reach + i * Span) % Reach = i * Span
      BY ONLY <1>6, <3>0, <3>1, Zenon
    <3> QED
      BY <2>1, <3>2, Zenon
  <2>3. (i * Span) \div Span = i
    BY <1>3
  <2> QED
    BY <1>4, <2>2, <2>3 DEF PositiveBit, Side
<1>5. CASE ~(s > 0)
  <2> DEFINE m == Abs(s) % Reach
             n == Abs(s) \div Reach
  <2>1. Abs(s) = (k + 2) * Reach - i * Span /\ (k + 2) * Reach = (k + 1) * Reach + Reach
        /\ (k + 1) * Reach \in Int /\ (k + 2) * Reach \in Int
    BY <1>1, <1>2, <1>5 DEF Base, Abs
  <2>2. NegativeBit(s) = <<"negative", n - 1 - (IF m = 0 THEN 1 ELSE 0),
                           IF m = 0 THEN 0 ELSE DefaultArrays - m \div Span>>
    BY DEF NegativeBit
  <2>3. CASE i = 0
    <3>1. i * Span = 0
      BY <1>1, <2>3
    <3>2. Abs(s) = (k + 2) * Reach + 0
      BY <2>1, <3>1
    <3>3. n = k + 2 /\ m = 0
      <4>1. k + 2 \in Int /\ 0 \in 0..(Reach - 1)
        BY <1>1
      <4>2. ((k + 2) * Reach + 0) \div Reach = k + 2 /\ ((k + 2) * Reach + 0) % Reach = 0
        BY ONLY <1>6, <4>1, Zenon
      <4> QED
        BY <3>2, <4>2, Zenon
    <3> HIDE DEF n, m
    <3> QED
      BY <1>5, <2>2, <2>3, <3>3 DEF Side
  <2>4. CASE i > 0
    <3> DEFINE w == DefaultArrays - i
    <3>1. w * Span = Reach - i * Span /\ w \in Int
      BY <1>1
    <3>2. Abs(s) = (k + 1) * Reach + w * Span /\ w * Span \in 0..(Reach - 1) /\ w * Span # 0
      BY <1>1, <1>2, <2>1, <2>4, <3>1
    <3>3. n = k + 1 /\ m = w * Span
      <4>0. w * Span \in 0..(Reach - 1)
        BY <3>2
      <4>1. k + 1 \in Int
        OBVIOUS
      <4>2. ((k + 1) * Reach + w * Span) \div Reach = k + 1 /\ ((k + 1) * Reach + w * Span) % Reach = w * Span
        BY ONLY <1>6, <4>0, <4>1, Zenon
      <4> QED
        BY <3>2, <4>2, Zenon
    <3>4. (w * Span) \div Span = w
      BY <1>3, <3>1
    <3>5. m \div Span = w /\ m # 0
      BY <3>2, <3>3, <3>4
    <3> HIDE DEF n, m
    <3> QED
      BY <1>1, <1>5, <2>2, <3>3, <3>5 DEF Side
  <2> QED
    BY <2>3, <2>4
<1> QED
  BY <1>4, <1>5

\* Where an array beyond the pool's own bitmap is, and both sides' bit of it.
LEMMA BitOf ==
  ASSUME NEW s \in Starts, ~InDefault(s)
  PROVE  \E k \in 0..(ExtensionBitmaps - 1), i \in 0..(DefaultArrays - 1) :
           /\ s = Base(s, k) + i * Span
           /\ ProgramBit(s) = <<Side(s), k, i>>
           /\ (IF s > 0 THEN PositiveBit(s) ELSE NegativeBit(s)) = <<Side(s), k, i>>
<1>1. s \in Int
  BY TickTypes DEF Starts
<1>2. PICK k \in 0..(ExtensionBitmaps - 1), i \in 0..(DefaultArrays - 1) : s = Base(s, k) + i * Span
  BY Placed, Zenon DEF Base
<1>3. ProgramBit(s) = <<Side(s), k, i>>
  BY <1>1, <1>2, ProgramBitIs
<1>4. (IF s > 0 THEN PositiveBit(s) ELSE NegativeBit(s)) = <<Side(s), k, i>>
  BY <1>1, <1>2, BotBitIs
<1> QED
  BY <1>2, <1>3, <1>4

\* Two arrays never share a bit of an extension.
LEMMA BitsApart ==
  ASSUME NEW s \in Starts, NEW t \in Starts, ~InDefault(s), ~InDefault(t),
         ProgramBit(s) = ProgramBit(t)
  PROVE  s = t
<1>1. PICK k \in 0..(ExtensionBitmaps - 1), i \in 0..(DefaultArrays - 1) :
        s = Base(s, k) + i * Span /\ ProgramBit(s) = <<Side(s), k, i>>
  BY BitOf
<1>2. PICK l \in 0..(ExtensionBitmaps - 1), j \in 0..(DefaultArrays - 1) :
        t = Base(t, l) + j * Span /\ ProgramBit(t) = <<Side(t), l, j>>
  BY BitOf
<1>3. Side(s) = Side(t) /\ k = l /\ i = j
  <2>1. <<Side(s), k, i>> = <<Side(t), l, j>>
    BY <1>1, <1>2, Zenon
  <2> HIDE DEF Side
  <2> QED
    BY <2>1
<1>4. Base(s, k) = Base(t, l)
  BY <1>3 DEF Side, Base
<1> QED
  BY <1>1, <1>2, <1>3, <1>4

\* Nor of the pool's own bitmap.
LEMMA DefaultApart ==
  ASSUME NEW s \in Starts, NEW t \in Starts, s \div Span + DefaultArrays = t \div Span + DefaultArrays
  PROVE  s = t
<1>1. Span \in Nat \ {0} /\ DefaultArrays \in Nat \ {0} /\ Lowest \in Int /\ Highest \in Int
  BY TickTypes
<1>2. s \in Int /\ t \in Int /\ s % Span = 0 /\ t % Span = 0
  BY <1>1 DEF Starts
<1> DEFINE p == s \div Span
           q == t \div Span
<1>3. p \in Int /\ q \in Int /\ s = p * Span + 0 /\ t = q * Span + 0
  BY <1>1, <1>2, DividedInt
<1>4. p + DefaultArrays = q + DefaultArrays
  OBVIOUS
<1> HIDE DEF p, q
<1>5. p = q
  BY <1>1, <1>3, <1>4
<1> QED
  BY <1>3, <1>5

\* The lookup of is_initialized against the program's layout, for every tick
\* spacing and size of bitmap: with the extension read, an array is reported
\* initialized exactly when the program has marked it.
THEOREM BitmapsAgree ==
  ASSUME NEW initialized \in SUBSET Starts, NEW s \in Starts, NEW bitmaps,
         bitmaps.default = DefaultBits(initialized), bitmaps.extension = ExtensionBits(initialized),
         bitmaps.loaded
  PROVE  (IsInitialized(bitmaps, s) = "yes") <=> (s \in initialized)
<1>1. CASE InDefault(s)
  <2>1. (IsInitialized(bitmaps, s) = "yes") <=> (s \div Span + DefaultArrays \in DefaultBits(initialized))
    BY <1>1 DEF IsInitialized
  <2>2. s \in initialized => s \div Span + DefaultArrays \in DefaultBits(initialized)
    BY <1>1, Zenon DEF DefaultBits
  <2>3. ASSUME s \div Span + DefaultArrays \in DefaultBits(initialized) PROVE s \in initialized
    <3>1. PICK t \in initialized : s \div Span + DefaultArrays = t \div Span + DefaultArrays
      BY <2>3, Zenon DEF DefaultBits
    <3>2. t \in Starts
      OBVIOUS
    <3> QED
      BY <3>1, <3>2, DefaultApart
  <2> QED
    BY <2>1, <2>2, <2>3
<1>2. CASE ~InDefault(s)
  <2>1. PICK k \in 0..(ExtensionBitmaps - 1), i \in 0..(DefaultArrays - 1) :
          /\ ProgramBit(s) = <<Side(s), k, i>>
          /\ (IF s > 0 THEN PositiveBit(s) ELSE NegativeBit(s)) = <<Side(s), k, i>>
    BY <1>2, BitOf
  <2> DEFINE bit == IF s > 0 THEN PositiveBit(s) ELSE NegativeBit(s)
  <2>2. bit = ProgramBit(s) /\ bit[2] = k
    BY <2>1
  <2>3. IsInitialized(bitmaps, s) = IF bit[2] < ExtensionBitmaps /\ bit \in bitmaps.extension THEN "yes" ELSE "no"
    BY <1>2, Zenon DEF IsInitialized
  <2> HIDE DEF bit
  <2>4. bit[2] < ExtensionBitmaps
    BY <2>2, TickTypes
  <2>5. (IsInitialized(bitmaps, s) = "yes") <=> (ProgramBit(s) \in ExtensionBits(initialized))
    BY <2>2, <2>3, <2>4
  <2>6. s \in initialized => ProgramBit(s) \in ExtensionBits(initialized)
    BY <1>2, Zenon DEF ExtensionBits
  <2>7. ASSUME ProgramBit(s) \in ExtensionBits(initialized) PROVE s \in initialized
    <3>1. PICK t \in initialized : ~InDefault(t) /\ ProgramBit(s) = ProgramBit(t)
      BY <2>7, Zenon DEF ExtensionBits
    <3>2. t \in Starts
      OBVIOUS
    <3> QED
      BY <1>2, <3>1, <3>2, BitsApart
  <2> QED
    BY <2>5, <2>6, <2>7
<1> QED
  BY <1>1, <1>2


-----------------------------------------------------------------------------
(* Picking from a list *)

LEMMA NatMinimum ==
  ASSUME NEW T \in SUBSET Nat, T # {}
  PROVE  \E m \in T : \A n \in T : m <= n
<1>1. PICK m \in T : \A n \in T : ~(<<n, m>> \in OpToRel(<, Nat))
  BY WFMin, NatLessThanWellFounded
<1>2. \A n \in T : ~(n < m)
  BY <1>1 DEF OpToRel
<1> QED
  BY <1>2

\* How many are taken, and where the k-th of them stands.
Took(P, n)  == IF Cardinality(P) < n THEN Cardinality(P) ELSE n
Place(P, k) == CHOOSE p \in P : Rank(P, p) = k

LEMMA Ranks ==
  ASSUME NEW N \in Nat, NEW P \in SUBSET (1..N)
  PROVE  /\ Cardinality(P) \in Nat /\ (Cardinality(P) = 0 <=> P = {})
         /\ \A m \in Int : Rank(P, m) \in 0..Cardinality(P)
         /\ \A m \in Int : m \in P => Rank(P, m) = Rank(P, m - 1) + 1
         /\ \A m \in Int : m \notin P => Rank(P, m) = Rank(P, m - 1)
         /\ \A i, j \in Int : i <= j => Rank(P, i) <= Rank(P, j)
         /\ Rank(P, 0) = 0 /\ Rank(P, N) = Cardinality(P)
<1> DEFINE L(m) == {q \in P : q <= m}
<1>0. \A q \in P : q \in Int /\ 1 <= q /\ q <= N
  OBVIOUS
<1>1. IsFiniteSet(P) /\ Cardinality(P) \in Nat /\ (Cardinality(P) = 0 <=> P = {})
  <2>1. IsFiniteSet(1..N)
    BY FS_Interval
  <2>2. IsFiniteSet(P)
    BY <2>1, FS_Subset
  <2> QED
    BY <2>2, FS_CardinalityType, FS_EmptySet
<1>2. \A m \in Int : IsFiniteSet(L(m)) /\ Cardinality(L(m)) \in Nat /\ Cardinality(L(m)) <= Cardinality(P)
  <2> TAKE m \in Int
  <2>1. L(m) \in SUBSET P
    OBVIOUS
  <2> HIDE DEF L
  <2> QED
    BY <1>1, <2>1, FS_Subset, FS_CardinalityType
<1>3. \A m \in Int : Rank(P, m) = Cardinality(L(m))
  BY DEF Rank
<1>4. ASSUME NEW m \in Int, m \in P PROVE Cardinality(L(m)) = Cardinality(L(m - 1)) + 1
  <2>1. /\ \A q \in P : q <= m <=> (q <= m - 1 \/ q = m)
        /\ m <= m /\ ~(m <= m - 1) /\ m - 1 \in Int
    BY <1>0, <1>4
  <2>2. L(m) = L(m - 1) \cup {m} /\ m \notin L(m - 1) /\ m - 1 \in Int
    BY <1>4, <2>1, Zenon
  <2> HIDE DEF L
  <2> QED
    BY <1>2, <2>2, FS_AddElement
<1>5. ASSUME NEW m \in Int, m \notin P PROVE L(m) = L(m - 1)
  <2>1. \A q \in P : q <= m <=> q <= m - 1
    BY <1>0, <1>5
  <2> QED
    BY <2>1, Zenon
<1>6. ASSUME NEW i \in Int, NEW j \in Int, i <= j PROVE Cardinality(L(i)) <= Cardinality(L(j))
  <2>1. \A q \in P : q <= i => q <= j
    BY <1>0, <1>6
  <2>2. L(i) \in SUBSET L(j)
    BY <2>1, Zenon
  <2> HIDE DEF L
  <2> QED
    BY <1>2, <2>2, FS_Subset
<1>7. L(0) = {} /\ L(N) = P
  <2>1. \A q \in P : ~(q <= 0) /\ q <= N
    BY <1>0
  <2> QED
    BY <2>1, Zenon
<1>8. Cardinality(L(0)) = 0 /\ Cardinality(L(N)) = Cardinality(P)
  BY <1>7, FS_EmptySet
<1> HIDE DEF L
<1>9. \A m \in Int : Rank(P, m) \in 0..Cardinality(P)
  BY <1>1, <1>2, <1>3
<1>10. \A m \in Int : m \in P => Rank(P, m) = Rank(P, m - 1) + 1
  <2> TAKE m \in Int
  <2>1. m - 1 \in Int
    OBVIOUS
  <2> QED
    BY <1>3, <1>4, <2>1
<1>11. \A m \in Int : m \notin P => Rank(P, m) = Rank(P, m - 1)
  <2> TAKE m \in Int
  <2>1. m - 1 \in Int
    OBVIOUS
  <2> QED
    BY <1>3, <1>5, <2>1
<1>12. \A i, j \in Int : i <= j => Rank(P, i) <= Rank(P, j)
  BY <1>3, <1>6
<1>13. Rank(P, 0) = 0 /\ Rank(P, N) = Cardinality(P)
  BY <1>3, <1>8
<1> QED
  BY <1>1, <1>9, <1>10, <1>11, <1>12, <1>13

\* Every rank is taken by one place.
LEMMA Ranked ==
  ASSUME NEW N \in Nat, NEW P \in SUBSET (1..N), NEW k \in 1..Cardinality(P)
  PROVE  Place(P, k) \in P /\ Rank(P, Place(P, k)) = k
<1>1. Cardinality(P) \in Nat /\ \A m \in Int : Rank(P, m) \in 0..Cardinality(P)
  BY Ranks
<1> DEFINE T == {m \in 0..N : Rank(P, m) >= k}
<1>2. T \in SUBSET Nat /\ N \in T
  BY <1>1, Ranks
<1>3. PICK m \in T : \A n \in T : m <= n
  BY <1>2, NatMinimum
<1>4. m \in 0..N /\ Rank(P, m) >= k
  OBVIOUS
<1>5. m # 0
  <2>1. Rank(P, 0) = 0
    BY Ranks
  <2> QED
    BY <1>4, <2>1
<1>6. m - 1 \in 0..N /\ ~(Rank(P, m - 1) >= k)
  BY <1>3, <1>4, <1>5
<1>7. Rank(P, m - 1) \in Int /\ Rank(P, m) \in Int /\ m \in Int /\ k \in Int
  BY <1>1, <1>4, <1>6
<1>8. m \in P
  <2> SUFFICES ASSUME m \notin P PROVE FALSE
    OBVIOUS
  <2>1. Rank(P, m) = Rank(P, m - 1)
    BY <1>7, Ranks
  <2> QED
    BY <1>4, <1>6, <2>1
<1>9. Rank(P, m) = k
  <2>1. Rank(P, m) = Rank(P, m - 1) + 1
    BY <1>7, <1>8, Ranks
  <2> QED
    BY <1>4, <1>6, <1>7, <2>1
<1> QED
  BY <1>8, <1>9 DEF Place

\* A place is where its rank says.
LEMMA PlaceOfRank ==
  ASSUME NEW N \in Nat, NEW P \in SUBSET (1..N), NEW p \in P
  PROVE  Rank(P, p) \in 1..Cardinality(P) /\ Place(P, Rank(P, p)) = p
<1>1. /\ Cardinality(P) \in Nat /\ \A m \in Int : Rank(P, m) \in 0..Cardinality(P)
      /\ \A i, j \in Int : i <= j => Rank(P, i) <= Rank(P, j)
  BY Ranks
<1>2. p \in Int /\ p - 1 \in Int
  OBVIOUS
<1>3. Rank(P, p) = Rank(P, p - 1) + 1
  BY <1>2, Ranks
<1>4. Rank(P, p) \in 1..Cardinality(P)
  BY <1>1, <1>2, <1>3
<1> DEFINE q == Place(P, Rank(P, p))
<1>5. q \in P /\ Rank(P, q) = Rank(P, p)
  BY <1>4, Ranked
<1> HIDE DEF q
<1>6. q \in Int /\ q - 1 \in Int
  BY <1>5
<1>7. Rank(P, q) = Rank(P, q - 1) + 1
  BY <1>5, <1>6, Ranks
<1>8. Rank(P, q - 1) \in Int /\ Rank(P, p - 1) \in Int /\ Rank(P, p) \in Int
  BY <1>1, <1>2, <1>6
<1>9. ~(q < p)
  <2> SUFFICES ASSUME q < p PROVE FALSE
    OBVIOUS
  <2>1. q <= p - 1
    BY <1>2, <1>6
  <2>2. Rank(P, q) <= Rank(P, p - 1)
    BY <1>1, <1>2, <1>6, <2>1
  <2> QED
    BY <1>3, <1>5, <1>8, <2>2
<1>10. ~(p < q)
  <2> SUFFICES ASSUME p < q PROVE FALSE
    OBVIOUS
  <2>1. p <= q - 1
    BY <1>2, <1>6
  <2>2. Rank(P, p) <= Rank(P, q - 1)
    BY <1>1, <1>2, <1>6, <2>1
  <2> QED
    BY <1>5, <1>7, <1>8, <2>2
<1> QED
  BY <1>2, <1>4, <1>6, <1>9, <1>10 DEF q

\* What is picked stands in the order of the list, and nothing before the last
\* of it is passed over.
LEMMA Picks ==
  ASSUME NEW N \in Nat, NEW P \in SUBSET (1..N), NEW n \in Nat \ {0}
  PROVE  /\ Took(P, n) \in Nat /\ Took(P, n) <= n /\ (Took(P, n) = 0 <=> P = {})
         /\ \A k \in 1..Took(P, n) : Place(P, k) \in P
         /\ \A i, j \in 1..Took(P, n) : i < j => Place(P, i) < Place(P, j)
         /\ \A p \in P : \/ \E i \in 1..Took(P, n) : Place(P, i) = p
                         \/ Took(P, n) = n /\ \A i \in 1..Took(P, n) : Place(P, i) < p
         /\ \A s : FirstAt(s, P, n) = [k \in 1..Took(P, n) |-> s[Place(P, k)]]
<1>1. /\ Cardinality(P) \in Nat /\ (Cardinality(P) = 0 <=> P = {})
      /\ \A i, j \in Int : i <= j => Rank(P, i) <= Rank(P, j)
  BY Ranks
<1> DEFINE m == Took(P, n)
<1>2. m \in Nat /\ m <= n /\ (m = 0 <=> P = {}) /\ m <= Cardinality(P) /\ (m = n \/ m = Cardinality(P))
  BY <1>1 DEF Took
<1> HIDE DEF m
<1>3. \A k \in 1..m : Place(P, k) \in P /\ Rank(P, Place(P, k)) = k
  <2> TAKE k \in 1..m
  <2>1. k \in 1..Cardinality(P)
    BY <1>1, <1>2
  <2> QED
    BY <2>1, Ranked
<1>4. ASSUME NEW i \in 1..m, NEW p \in P, i < Rank(P, p) PROVE Place(P, i) < p
  <2>1. \A q \in P : q \in Int
    OBVIOUS
  <2>2. Place(P, i) \in Int /\ p \in Int /\ Rank(P, Place(P, i)) = i /\ i \in Int
    <3>1. Place(P, i) \in P /\ Rank(P, Place(P, i)) = i
      BY <1>3
    <3>2. i \in Int
      BY <1>2
    <3>3. Place(P, i) \in Int /\ p \in Int
      BY <2>1, <3>1, Zenon
    <3> QED
      BY <3>1, <3>2, <3>3, Zenon
  <2>3. Rank(P, p) \in Int
    <3>1. Rank(P, p) \in 1..Cardinality(P)
      BY PlaceOfRank
    <3> QED
      BY <3>1
  <2>4. ~(p <= Place(P, i))
    BY <1>1, <1>4, <2>2, <2>3
  <2> QED
    BY <2>2, <2>4
<1>5. \A i, j \in 1..m : i < j => Place(P, i) < Place(P, j)
  BY <1>3, <1>4
<1>6. ASSUME NEW p \in P
      PROVE  \/ \E i \in 1..m : Place(P, i) = p
             \/ m = n /\ \A i \in 1..m : Place(P, i) < p
  <2>1. Rank(P, p) \in 1..Cardinality(P) /\ Place(P, Rank(P, p)) = p
    BY PlaceOfRank
  <2>2. CASE Rank(P, p) <= m
    <3>1. Rank(P, p) \in 1..m
      BY <1>1, <1>2, <2>1, <2>2
    <3> QED
      BY <2>1, <3>1
  <2>3. CASE ~(Rank(P, p) <= m)
    <3>1. m = n /\ \A i \in 1..m : i < Rank(P, p)
      BY <1>1, <1>2, <2>1, <2>3
    <3> QED
      BY <1>4, <3>1
  <2> QED
    BY <2>2, <2>3
<1>7. \A s : FirstAt(s, P, n) = [k \in 1..m |-> s[Place(P, k)]]
  BY Zenon DEF FirstAt, Place, Took, m
<1> QED
  BY <1>2, <1>3, <1>5, <1>6, <1>7 DEF m

-----------------------------------------------------------------------------
(* The arrays ahead *)

LEMMA Multiples ==
  ASSUME NEW x \in Int, NEW y \in Int
  PROVE  /\ x * Span \in Int /\ y * Span \in Int
         /\ x <= y <=> x * Span <= y * Span
         /\ x < y <=> x * Span < y * Span
         /\ (x * Span) % Span = 0 /\ (x * Span) \div Span = x
         /\ x * Span - y * Span = (x - y) * Span
<1>1. Span \in Nat \ {0}
  BY TickTypes
<1>2. x * Span \in Int /\ y * Span \in Int /\ Span * x = x * Span /\ Span * y = y * Span
      /\ x * Span - y * Span = (x - y) * Span
  BY <1>1
<1>3. x <= y => x * Span <= y * Span
  BY <1>1, <1>2, Grows
<1>4. y + 1 <= x => y * Span < x * Span
  <2> SUFFICES ASSUME y + 1 <= x PROVE y * Span < x * Span
    OBVIOUS
  <2>1. Span * (y + 1) <= Span * x /\ Span * (y + 1) = y * Span + Span
    BY <1>1, Grows
  <2> QED
    BY <1>1, <1>2, <2>1
<1>5. x + 1 <= y => x * Span < y * Span
  <2> SUFFICES ASSUME x + 1 <= y PROVE x * Span < y * Span
    OBVIOUS
  <2>1. Span * (x + 1) <= Span * y /\ Span * (x + 1) = x * Span + Span
    BY <1>1, Grows
  <2> QED
    BY <1>1, <1>2, <2>1
<1>6. y <= x => y * Span <= x * Span
  BY <1>1, <1>2, Grows
<1>7. (x * Span + 0) \div Span = x /\ (x * Span + 0) % Span = 0 /\ x * Span + 0 = x * Span
  BY <1>1, <1>2, DividingInt
<1> QED
  BY <1>2, <1>3, <1>4, <1>5, <1>6, <1>7

\* A start by its number; the numbers of the tick range are Low..High.
Low  == MinTick \div Span
High == MaxTick \div Span

LEMMA StartNumbers ==
  /\ Low \in Int /\ High \in Int /\ Lowest = Low * Span /\ Highest = High * Span
  /\ \A s : s \in Starts <=> \E x \in Low..High : s = x * Span
  /\ \A t \in Ticks : t \div Span \in Low..High /\ Start(t) = (t \div Span) * Span
                      /\ Start(t) <= t /\ t < Start(t) + Span
<1>1. Span \in Nat \ {0} /\ MinTick \in Int /\ MaxTick \in Int
  BY TickTypes, TickAssumption DEF TickAssumption
<1>2. ASSUME NEW t \in Int
      PROVE  t \div Span \in Int /\ (t \div Span) * Span \in Int
             /\ (t \div Span) * Span <= t /\ t < (t \div Span) * Span + Span
  <2> DEFINE q == t \div Span
             r == t % Span
  <2>1. q \in Int /\ r \in 0..(Span - 1) /\ t = q * Span + r
    BY <1>1, DividedInt
  <2> HIDE DEF q, r
  <2>2. q * Span \in Int
    BY <1>1, <2>1, IntProduct
  <2>3. q * Span <= t /\ t < q * Span + Span
    BY <1>1, <2>1, <2>2
  <2> QED
    BY <2>1, <2>2, <2>3 DEF q
<1>3. Low \in Int /\ High \in Int /\ Lowest = Low * Span /\ Highest = High * Span
      /\ Lowest \in Int /\ Highest \in Int
  BY <1>1, <1>2 DEF Low, High, Lowest, Highest, Start
<1>4. ASSUME NEW s \in Starts PROVE \E x \in Low..High : s = x * Span
  <2> DEFINE q == s \div Span
             r == s % Span
  <2>1. s \in Int /\ Low * Span <= s /\ s <= High * Span /\ r = 0
    BY <1>3 DEF Starts
  <2>2. q \in Int /\ s = q * Span + r
    BY <1>1, <2>1, DividedInt
  <2> HIDE DEF q, r
  <2>3. q * Span \in Int
    BY <1>1, <2>2, IntProduct
  <2>4. s = q * Span
    BY <2>1, <2>2, <2>3
  <2>5. Low <= q /\ q <= High
    <3>1. (Low <= q <=> Low * Span <= q * Span) /\ (q <= High <=> q * Span <= High * Span)
      BY <1>3, <2>2, Multiples
    <3> QED
      BY <2>1, <2>4, <3>1
  <2> QED
    BY <1>3, <2>2, <2>4, <2>5
<1>5. ASSUME NEW x \in Low..High PROVE x * Span \in Starts
  <2>1. x \in Int
    BY <1>3
  <2>2. Low * Span <= x * Span /\ x * Span <= High * Span /\ x * Span \in Int /\ (x * Span) % Span = 0
    <3>1. (Low <= x <=> Low * Span <= x * Span) /\ (x <= High <=> x * Span <= High * Span)
          /\ x * Span \in Int /\ (x * Span) % Span = 0
      BY <1>3, <2>1, Multiples
    <3> QED
      BY <1>3, <2>1, <3>1
  <2> QED
    BY <1>3, <2>2 DEF Starts
<1>6. ASSUME NEW t \in Ticks
      PROVE  t \div Span \in Low..High /\ Start(t) = (t \div Span) * Span
             /\ Start(t) <= t /\ t < Start(t) + Span
  <2>1. t \in Int /\ MinTick <= t /\ t <= MaxTick
    BY <1>1 DEF Ticks
  <2> DEFINE q == t \div Span
  <2>2. q \in Int /\ q * Span \in Int /\ q * Span <= t /\ t < q * Span + Span
    BY <1>2, <2>1
  <2>3. Start(t) = q * Span
    BY DEF Start
  <2> HIDE DEF q
  <2>4. /\ Low * Span \in Int /\ Low * Span <= MinTick
        /\ High * Span \in Int /\ MaxTick < High * Span + Span
    BY <1>1, <1>2 DEF Low, High
  <2>5. (q + 1) * Span = q * Span + Span /\ (High + 1) * Span = High * Span + Span
    BY <1>1, <1>3, <2>2
  <2>6. Low < q + 1
    <3>1. q + 1 \in Int
      BY <2>2
    <3>2. Low < q + 1 <=> Low * Span < (q + 1) * Span
      BY <1>3, <3>1, Multiples, Zenon
    <3> QED
      BY <1>1, <2>1, <2>2, <2>4, <2>5, <3>2
  <2>7. q < High + 1
    <3>1. High + 1 \in Int
      BY <1>3
    <3>2. q < High + 1 <=> q * Span < (High + 1) * Span
      BY <2>2, <3>1, Multiples, Zenon
    <3> QED
      BY <1>1, <2>1, <2>2, <2>4, <2>5, <3>2
  <2>8. q \in Low..High
    BY <1>3, <2>2, <2>6, <2>7
  <2> QED
    BY <2>2, <2>3, <2>8 DEF q
<1> QED
  BY <1>3, <1>4, <1>5, <1>6

Nearer(s, t, down)      == IF down THEN s > t ELSE s < t
Ordered(list, down)     == \A i, j \in DOMAIN list : i < j => Nearer(list[i], list[j], down)
Onside(s, start, down)  == IF down THEN s <= start ELSE s >= start

\* The search passes every start on the side of the swap once, nearest first.
LEMMA OnwardIs ==
  ASSUME NEW tick \in Ticks, NEW down \in BOOLEAN, NEW ahead, ahead = Onward(Start(tick), down)
  PROVE  \E n \in Nat :
           /\ DOMAIN ahead = 1..n
           /\ \A k \in 1..n : ahead[k] \in Starts /\ Onside(ahead[k], Start(tick), down)
           /\ Ordered(ahead, down)
           /\ \A s \in Starts : Onside(s, Start(tick), down) => \E k \in 1..n : ahead[k] = s
<1> DEFINE b == tick \div Span
           n == IF down THEN b - Low + 1 ELSE High - b + 1
           at(k) == IF down THEN b - (k - 1) ELSE b + (k - 1)
<1>1. Low \in Int /\ High \in Int /\ Lowest = Low * Span /\ Highest = High * Span
      /\ b \in Low..High /\ Start(tick) = b * Span /\ Span \in Nat \ {0}
  BY StartNumbers, TickTypes
<1> HIDE DEF b
<1>2. b \in Int /\ n \in Nat
  BY <1>1
<1>3. ahead = [k \in 1..n |-> Start(tick) + (k - 1) * Step(down)]
  <2>1. (b * Span - Low * Span) \div Span = b - Low
    <3>1. b * Span - Low * Span = (b - Low) * Span /\ b - Low \in Int
      BY <1>1, <1>2, Multiples
    <3> QED
      BY <3>1, Multiples
  <2>2. (High * Span - b * Span) \div Span = High - b
    <3>1. High * Span - b * Span = (High - b) * Span /\ High - b \in Int
      BY <1>1, <1>2, Multiples
    <3> QED
      BY <3>1, Multiples
  <2>3. n = IF down THEN (Start(tick) - Lowest) \div Span + 1 ELSE (Highest - Start(tick)) \div Span + 1
    BY <1>1, <2>1, <2>2
  <2> HIDE DEF n
  <2> QED
    BY <2>3, Zenon DEF Onward
<1>4. \A k \in 1..n : at(k) \in Low..High
  BY <1>1, <1>2
<1>5. \A k \in 1..n : ahead[k] = at(k) * Span
  <2> TAKE k \in 1..n
  <2>1. k \in Int
    BY <1>2
  <2>2. ahead[k] = b * Span + (k - 1) * Step(down)
    BY <1>1, <1>3
  <2>3. CASE down
    <3>1. (k - 1) * (-Span) = -((k - 1) * Span)
      BY <1>1, <2>1
    <3>2. b * Span - (k - 1) * Span = (b - (k - 1)) * Span /\ b * Span \in Int /\ (k - 1) * Span \in Int
      BY <1>2, <2>1, Multiples
    <3>3. ahead[k] = b * Span + (k - 1) * (-Span)
      BY <2>2, <2>3 DEF Step
    <3> QED
      BY <2>3, <3>1, <3>2, <3>3
  <2>4. CASE ~down
    <3>1. ahead[k] = b * Span + (k - 1) * Span
      BY <2>2, <2>4 DEF Step
    <3>2. (b + (k - 1)) * Span = b * Span + (k - 1) * Span
      BY <1>1, <1>2, <2>1
    <3> QED
      BY <2>4, <3>1, <3>2
  <2> QED
    BY <2>3, <2>4
<1>6. DOMAIN ahead = 1..n
  BY <1>3
<1>7. ASSUME NEW k \in 1..n PROVE ahead[k] \in Starts /\ Onside(ahead[k], Start(tick), down)
  <2>1. at(k) \in Low..High /\ at(k) \in Int /\ ahead[k] = at(k) * Span
    BY <1>1, <1>4, <1>5
  <2>2. ahead[k] \in Starts
    BY <2>1, StartNumbers
  <2>3. IF down THEN at(k) <= b ELSE at(k) >= b
    BY <1>2
  <2> HIDE DEF at
  <2>4. (at(k) <= b <=> at(k) * Span <= b * Span) /\ (b <= at(k) <=> b * Span <= at(k) * Span)
        /\ at(k) * Span \in Int /\ b * Span \in Int
    BY <1>2, <2>1, Multiples
  <2> QED
    BY <1>1, <1>2, <2>1, <2>2, <2>3, <2>4 DEF Onside
<1>8. ASSUME NEW i \in 1..n, NEW j \in 1..n, i < j
      PROVE  IF down THEN ahead[i] > ahead[j] ELSE ahead[i] < ahead[j]
  <2>1. at(i) \in Int /\ at(j) \in Int /\ ahead[i] = at(i) * Span /\ ahead[j] = at(j) * Span
    <3>1. at(i) \in Low..High /\ at(j) \in Low..High
      BY <1>4
    <3> HIDE DEF at, n
    <3> QED
      BY <1>1, <1>5, <3>1
  <2>2. IF down THEN at(j) < at(i) ELSE at(i) < at(j)
    BY <1>2, <1>8
  <2> HIDE DEF at
  <2>3. (at(i) < at(j) <=> at(i) * Span < at(j) * Span) /\ (at(j) < at(i) <=> at(j) * Span < at(i) * Span)
        /\ at(i) * Span \in Int /\ at(j) * Span \in Int
    BY <2>1, Multiples
  <2> QED
    BY <2>1, <2>2, <2>3
<1>9. ASSUME NEW s \in Starts, Onside(s, Start(tick), down) PROVE \E k \in 1..n : ahead[k] = s
  <2>1. PICK x \in Low..High : s = x * Span
    BY StartNumbers
  <2>2. x \in Int /\ Low <= x /\ x <= High
    BY <1>1
  <2>3. IF down THEN x <= b ELSE b <= x
    <3>1. (x <= b <=> x * Span <= b * Span) /\ (b <= x <=> b * Span <= x * Span)
          /\ x * Span \in Int /\ b * Span \in Int
      BY <1>2, <2>2, Multiples
    <3> QED
      BY <1>1, <1>9, <2>1, <3>1 DEF Onside
  <2> DEFINE k == IF down THEN b - x + 1 ELSE x - b + 1
  <2>4. k \in 1..n /\ at(k) = x
    BY <1>1, <1>2, <2>2, <2>3
  <2> HIDE DEF k, n, at
  <2> QED
    BY <1>5, <2>1, <2>4
<1> HIDE DEF n
<1>10. Ordered(ahead, down)
  BY <1>6, <1>8 DEF Ordered, Nearer
<1> QED
  BY <1>2, <1>6, <1>7, <1>9, <1>10

\* What is picked from a list in order: members at the places, and only those
\* beyond a full pick are left out.
Covers(f, list, P, down) ==
  /\ \A i \in DOMAIN f : \E p \in P : f[i] = list[p]
  /\ \A p \in P : \/ \E i \in DOMAIN f : f[i] = list[p]
                  \/ Len(f) = MaxSwapArrays /\ \A i \in DOMAIN f : Nearer(f[i], list[p], down)

LEMMA PickedInOrder ==
  ASSUME NEW n \in Nat, NEW list, NEW down \in BOOLEAN,
         DOMAIN list = 1..n, \A k \in 1..n : list[k] \in Int, Ordered(list, down),
         NEW P \in SUBSET (1..n), NEW f, f = FirstAt(list, P, MaxSwapArrays)
  PROVE  /\ f \in Seq(Int) /\ Len(f) <= MaxSwapArrays /\ (Len(f) = 0 <=> P = {})
         /\ Ordered(f, down) /\ Covers(f, list, P, down)
<1> DEFINE m == Took(P, MaxSwapArrays)
<1>1. MaxSwapArrays \in Nat \ {0}
  BY TickAssumption DEF TickAssumption
<1>2. /\ m \in Nat /\ m <= MaxSwapArrays /\ (m = 0 <=> P = {})
      /\ \A k \in 1..m : Place(P, k) \in P
      /\ \A i, j \in 1..m : i < j => Place(P, i) < Place(P, j)
      /\ \A p \in P : \/ \E i \in 1..m : Place(P, i) = p
                      \/ m = MaxSwapArrays /\ \A i \in 1..m : Place(P, i) < p
  BY <1>1, Picks
<1>3. f = [k \in 1..m |-> list[Place(P, k)]]
  <2>1. \A s : FirstAt(s, P, MaxSwapArrays) = [k \in 1..m |-> s[Place(P, k)]]
    BY <1>1, Picks
  <2> QED
    BY <2>1, Zenon
<1> HIDE DEF m
<1>4. \A p \in P : p \in 1..n /\ list[p] \in Int
  OBVIOUS
<1>5. \A i \in 1..m : f[i] = list[Place(P, i)] /\ f[i] \in Int
  BY <1>2, <1>3, <1>4
<1>6. f \in Seq(Int) /\ Len(f) = m /\ DOMAIN f = 1..m
  <2>1. f = [k \in 1..m |-> f[k]] /\ DOMAIN f = 1..m
    BY <1>3
  <2> QED
    BY <1>2, <1>5, <2>1
<1>7. ASSUME NEW p \in P, NEW q \in P, p < q PROVE Nearer(list[p], list[q], down)
  BY <1>4, <1>7 DEF Ordered
<1>8. Ordered(f, down)
  BY <1>2, <1>5, <1>6, <1>7 DEF Ordered
<1>9. ASSUME NEW p \in P
      PROVE  \/ \E i \in 1..m : f[i] = list[p]
             \/ m = MaxSwapArrays /\ \A i \in 1..m : Nearer(f[i], list[p], down)
  BY <1>2, <1>5, <1>7
<1>10. Covers(f, list, P, down)
  BY <1>2, <1>5, <1>6, <1>9 DEF Covers
<1> QED
  BY <1>2, <1>6, <1>8, <1>10

\* The search returns starts of arrays in the direction of the swap.
LEMMA SearchType ==
  ASSUME NEW tick \in Ticks, NEW down \in BOOLEAN, NEW bitmaps,
         NEW found, found = InitializedStarts(bitmaps, Start(tick), down)
  PROVE  found \in Seq(Int) /\ Len(found) <= MaxSwapArrays /\ Ordered(found, down)
<1> DEFINE ahead == Onward(Start(tick), down)
           Known(k) == \A j \in 1..k : IsInitialized(bitmaps, ahead[j]) # "unknown"
           P == {k \in DOMAIN ahead : Known(k) /\ IsInitialized(bitmaps, ahead[k]) = "yes"}
<1>1. PICK n \in Nat : /\ DOMAIN ahead = 1..n
                       /\ \A k \in 1..n : ahead[k] \in Starts
                       /\ Ordered(ahead, down)
  BY OnwardIs
<1>2. found = FirstAt(ahead, P, MaxSwapArrays)
  BY DEF InitializedStarts
<1>3. P \in SUBSET (1..n) /\ \A k \in 1..n : ahead[k] \in Int
  BY <1>1, TickTypes DEF Starts
<1> HIDE DEF P, ahead
<1> QED
  BY <1>1, <1>2, <1>3, PickedInOrder

\* With the bitmaps of one moment, it returns the nearest initialized ones:
\* without the extension only from a start, and with arrays, in reach of the
\* pool's own bitmap.
LEMMA SearchFinds ==
  ASSUME NEW tick \in Ticks, NEW down \in BOOLEAN, NEW initialized \in SUBSET Starts,
         NEW bitmaps, bitmaps.default = DefaultBits(initialized), bitmaps.loaded \in BOOLEAN,
         bitmaps.loaded => bitmaps.extension = ExtensionBits(initialized),
         bitmaps.loaded \/ (InDefault(Start(tick)) /\ \A s \in initialized : InDefault(s)),
         NEW found, found = InitializedStarts(bitmaps, Start(tick), down)
  PROVE  /\ \A k \in DOMAIN found : found[k] \in initialized /\ Onside(found[k], Start(tick), down)
         /\ \A s \in initialized : Onside(s, Start(tick), down) =>
              \/ \E k \in DOMAIN found : found[k] = s
              \/ Len(found) = MaxSwapArrays /\ \A k \in DOMAIN found : Nearer(found[k], s, down)
<1> DEFINE ahead == Onward(Start(tick), down)
           Known(k) == \A j \in 1..k : IsInitialized(bitmaps, ahead[j]) # "unknown"
           P == {k \in DOMAIN ahead : Known(k) /\ IsInitialized(bitmaps, ahead[k]) = "yes"}
           Q == {k \in DOMAIN ahead : ahead[k] \in initialized}
<1>1. PICK n \in Nat :
        /\ DOMAIN ahead = 1..n
        /\ \A k \in 1..n : ahead[k] \in Starts /\ Onside(ahead[k], Start(tick), down)
        /\ Ordered(ahead, down)
        /\ \A s \in Starts : Onside(s, Start(tick), down) => \E k \in 1..n : ahead[k] = s
  BY OnwardIs
<1>2. found = FirstAt(ahead, P, MaxSwapArrays)
  BY DEF InitializedStarts
<1>3. Starts \in SUBSET Int /\ Start(tick) \in Int
  <2>1. Start(tick) = (tick \div Span) * Span /\ tick \div Span \in Low..High /\ Low \in Int /\ High \in Int
    BY StartNumbers
  <2> QED
    BY <2>1, TickTypes, Multiples DEF Starts
<1> HIDE DEF ahead
<1>4. ASSUME NEW s \in Starts, bitmaps.loaded \/ InDefault(s)
      PROVE  IsInitialized(bitmaps, s) # "unknown" /\ (IsInitialized(bitmaps, s) = "yes" <=> s \in initialized)
  <2>1. CASE bitmaps.loaded
    <3>1. (IsInitialized(bitmaps, s) = "yes") <=> (s \in initialized)
      BY <2>1, BitmapsAgree
    <3>2. IsInitialized(bitmaps, s) # "unknown"
      BY <2>1 DEF IsInitialized
    <3> QED
      BY <3>1, <3>2
  <2>2. CASE InDefault(s)
    <3> DEFINE full == [default |-> DefaultBits(initialized), loaded |-> TRUE,
                        extension |-> ExtensionBits(initialized)]
    <3>1. (IsInitialized(full, s) = "yes") <=> (s \in initialized)
      BY BitmapsAgree
    <3>2. IsInitialized(bitmaps, s) = IsInitialized(full, s) /\ IsInitialized(bitmaps, s) # "unknown"
      BY <2>2 DEF IsInitialized
    <3> QED
      BY <3>1, <3>2
  <2> QED
    BY <1>4, <2>1, <2>2
<1>5. ASSUME NEW s \in Starts, ~bitmaps.loaded, ~InDefault(s)
      PROVE  IsInitialized(bitmaps, s) = "unknown" /\ s \notin initialized
  BY <1>5 DEF IsInitialized
\* Between the start and an array in reach of the default bitmap all are.
<1>6. ASSUME NEW j \in 1..n, NEW k \in 1..n, j <= k, ~bitmaps.loaded, InDefault(ahead[k])
      PROVE  InDefault(ahead[j])
  <2>1. ahead[j] \in Int /\ ahead[k] \in Int /\ Reach \in Int
    <3>1. ahead[j] \in Starts /\ ahead[k] \in Starts
      BY <1>1
    <3>2. ahead[j] \in Int /\ ahead[k] \in Int
      BY <1>3, <3>1, Zenon
    <3> QED
      BY <3>2, TickTypes
  <2>2. j = k \/ Nearer(ahead[j], ahead[k], down)
    BY <1>1, <1>6 DEF Ordered
  <2>3. Onside(ahead[j], Start(tick), down) /\ InDefault(Start(tick))
    BY <1>1, <1>6
  <2> QED
    BY <1>3, <1>6, <2>1, <2>2, <2>3 DEF Nearer, Onside, InDefault
<1>7. P = Q
  <2>1. ASSUME NEW k \in 1..n, ahead[k] \in initialized
        PROVE  Known(k) /\ IsInitialized(bitmaps, ahead[k]) = "yes"
    <3>1. bitmaps.loaded \/ InDefault(ahead[k])
      BY <2>1
    <3>2. IsInitialized(bitmaps, ahead[k]) = "yes"
      BY <1>1, <1>4, <2>1, <3>1
    <3>3. ASSUME NEW j \in 1..k PROVE IsInitialized(bitmaps, ahead[j]) # "unknown"
      <4>1. j \in 1..n /\ j <= k
        BY <1>1
      <4>2. bitmaps.loaded \/ InDefault(ahead[j])
        BY <1>6, <3>1, <4>1
      <4> QED
        BY <1>1, <1>4, <4>1, <4>2
    <3> QED
      BY <3>2, <3>3
  <2>2. ASSUME NEW k \in 1..n, IsInitialized(bitmaps, ahead[k]) = "yes" PROVE ahead[k] \in initialized
    <3>1. bitmaps.loaded \/ InDefault(ahead[k])
      BY <1>1, <1>5, <2>2
    <3> QED
      BY <1>1, <1>4, <2>2, <3>1
  <2> QED
    BY <1>1, <2>1, <2>2
<1>8. Q \in SUBSET (1..n) /\ \A p \in Q : ahead[p] \in initialized
  BY <1>1
<1>9. found = FirstAt(ahead, Q, MaxSwapArrays)
  BY <1>2, <1>7
<1>10. Covers(found, ahead, Q, down)
  <2> HIDE DEF P, Q
  <2>1. \A k \in 1..n : ahead[k] \in Int
    BY <1>1, <1>3
  <2> QED
    BY <1>1, <1>8, <1>9, <2>1, PickedInOrder
<1>11. ASSUME NEW s \in initialized, Onside(s, Start(tick), down) PROVE \E p \in Q : ahead[p] = s
  BY <1>1, <1>11
<1>12. \A p \in Q : ahead[p] \in initialized /\ Onside(ahead[p], Start(tick), down)
  BY <1>1
<1> HIDE DEF P, Q
<1> QED
  BY <1>10, <1>11, <1>12 DEF Covers

-----------------------------------------------------------------------------
\* The scan around the current tick, and that it stays in reach of the pool's
\* own bitmap where no extension is asked for.
LEMMA ScanIs ==
  ASSUME NEW tick \in Ticks, NEW down \in BOOLEAN
  PROVE  /\ TickArrayCandidates(tick, down) \in Seq(Int)
         /\ Ordered(TickArrayCandidates(tick, down), down)
         /\ ~NeedsBitmapExtension(tick) =>
              /\ \A k \in 0..ScanLength : InDefault(Start(tick) + k * Step(down))
              /\ \A k \in DOMAIN TickArrayCandidates(tick, down) : InDefault(TickArrayCandidates(tick, down)[k])
              /\ InDefault(Start(tick))
<1> DEFINE b == Start(tick)
           list == TickArrayCandidates(tick, down)
<1>1. Span \in Nat \ {0} /\ Reach \in Nat \ {0} /\ ScanLength \in Nat \ {0} /\ tick \in Int
  BY TickTypes, TickAssumption DEF TickAssumption, Ticks
<1>2. b \in Int /\ b <= tick /\ tick < b + Span
  <2>1. b = (tick \div Span) * Span /\ tick \div Span \in Low..High /\ Low \in Int /\ High \in Int
        /\ b <= tick /\ tick < b + Span
    BY StartNumbers
  <2> HIDE DEF b
  <2> QED
    BY <2>1, Multiples
<1> HIDE DEF b
<1>3. \A k \in Int : k * Span \in Int /\ k * (-Span) = -(k * Span)
  BY <1>1
<1>4. ASSUME NEW k \in Int PROVE b + k * Step(down) = IF down THEN b - k * Span ELSE b + k * Span
  BY <1>1, <1>2, <1>3 DEF Step
<1>5. list = [k \in 1..ScanLength |-> b + (k - 1) * Step(down)]
  BY DEF TickArrayCandidates, b
<1>6. \A k \in 1..ScanLength : list[k] = (IF down THEN b - (k - 1) * Span ELSE b + (k - 1) * Span)
                               /\ list[k] \in Int /\ (k - 1) * Span \in Int
  <2> TAKE k \in 1..ScanLength
  <2>1. k - 1 \in Int
    OBVIOUS
  <2>2. list[k] = b + (k - 1) * Step(down)
    BY <1>5
  <2> HIDE DEF list
  <2> QED
    BY <1>2, <1>3, <1>4, <2>1, <2>2
<1>7. list \in Seq(Int) /\ DOMAIN list = 1..ScanLength
  <2>1. list = [k \in 1..ScanLength |-> list[k]]
    BY <1>5
  <2> HIDE DEF list
  <2> QED
    BY <1>1, <1>6, <2>1
<1> HIDE DEF list
<1>8. Ordered(list, down)
  <2> SUFFICES ASSUME NEW i \in 1..ScanLength, NEW j \in 1..ScanLength, i < j
               PROVE  Nearer(list[i], list[j], down)
    BY <1>7 DEF Ordered
  <2>1. i - 1 \in Int /\ j - 1 \in Int /\ i - 1 < j - 1
    OBVIOUS
  <2>2. (i - 1) * Span < (j - 1) * Span
    BY <2>1, Multiples
  <2> QED
    BY <1>2, <1>6, <2>2 DEF Nearer
<1>9. ASSUME ~NeedsBitmapExtension(tick), NEW k \in 0..ScanLength
      PROVE  InDefault(b + k * Step(down))
  <2>1. (ScanLength + 1) * Span = ScanLength * Span + Span /\ ScanLength * Span \in Int
    BY <1>1
  <2>2. k * Span <= ScanLength * Span /\ 0 * Span <= k * Span /\ 0 * Span = 0
    <3>1. k \in Int /\ ScanLength \in Int /\ 0 \in Int /\ k <= ScanLength /\ 0 <= k
      BY <1>1
    <3> QED
      BY <1>1, <3>1, Multiples
  <2>3. Abs(tick) + ((ScanLength + 1) * Span) < Reach
    BY <1>1, <1>9, <2>1 DEF NeedsBitmapExtension, Abs
  <2>4. tick + ScanLength * Span + Span < Reach /\ -tick + ScanLength * Span + Span < Reach
    BY <1>1, <2>1, <2>3 DEF Abs
  <2>5. k \in Int /\ k * Span \in Int
    BY <1>3
  <2>6. b + k * Step(down) = IF down THEN b - k * Span ELSE b + k * Span
    BY <1>4, <2>5
  <2> QED
    BY <1>1, <1>2, <2>1, <2>2, <2>4, <2>5, <2>6 DEF InDefault
<1>10. ASSUME ~NeedsBitmapExtension(tick) PROVE InDefault(b) /\ \A k \in 1..ScanLength : InDefault(list[k])
  <2>1. InDefault(b + 0 * Step(down)) /\ b + 0 * Step(down) = b
    BY <1>1, <1>2, <1>9, <1>10 DEF Step
  <2>2. ASSUME NEW k \in 1..ScanLength PROVE InDefault(list[k])
    <3>1. k - 1 \in 0..ScanLength
      BY <1>1
    <3>2. InDefault(b + (k - 1) * Step(down))
      BY <1>9, <1>10, <3>1
    <3> QED
      BY <1>5, <3>2
  <2> QED
    BY <2>1, <2>2
<1> QED
  BY <1>7, <1>8, <1>9, <1>10 DEF b, list

-----------------------------------------------------------------------------
(* The accounts of a swap *)

ChainShape ==
  /\ chain = [tick |-> chain.tick, initialized |-> chain.initialized, existing |-> chain.existing,
              extension |-> chain.extension]
  /\ chain.tick \in Ticks /\ chain.existing \in SUBSET Starts
  /\ chain.initialized \in SUBSET chain.existing
  /\ chain.extension \in BOOLEAN /\ (chain.extension <=> \E s \in chain.existing : ~InDefault(s))

PathShape ==
  path = [ask |-> path.ask, got |-> path.got, bitmap |-> path.bitmap, pool |-> path.pool,
          extension |-> path.extension, old |-> path.old]

\* While the accounts of the candidates are fetched: what was found to exist
\* does, and without a move of the chain the candidates are the arrays ahead,
\* or none is.
Looking ==
  /\ path.ask \in Seq(Int) /\ path.got \in Seq(BOOLEAN) /\ Len(path.got) <= Len(path.ask)
  /\ Ordered(path.ask, Down)
  /\ \A k \in 1..Len(path.got) : path.got[k] => path.ask[k] \in chain.existing
  /\ moves = 0 /\ path.bitmap =>
       /\ Len(path.ask) \in 1..MaxSwapArrays /\ Nearest(path.ask)
       /\ \A k \in 1..Len(path.got) : path.got[k]
  /\ moves = 0 /\ ~path.bitmap => Ahead = {}
  /\ ~path.extension =>
       ~NeedsBitmapExtension(chain.tick) /\ \A k \in 1..Len(path.ask) : InDefault(path.ask[k])

Early == stage \in {"pool", "config", "arrays"}

LookupInv ==
  /\ ChainShape /\ PathShape /\ TxShape
  /\ setting.wsolFirst \in BOOLEAN /\ batch \in Nat \ {0} /\ moves \in Nat
  /\ stage = "idle" \/ Early => tx.arrays = <<>>
  /\ Early => path.old \in SUBSET chain.existing /\ (moves = 0 => path.old = chain.existing)
  /\ stage = "pool" \/ stage = "config" => path.got = <<>>
  /\ stage = "config" /\ moves = 0 => path.pool = DefaultBits(chain.initialized)
  /\ stage = "arrays" => Looking
  /\ SwapAccountsSuffice

LEMMA DownType == Down \in BOOLEAN
  BY DEF Down

LEMMA Alike ==
  /\ \A s, t : Before(s, t) <=> Nearer(s, t, Down)
  /\ \A a : InDirection(a) <=> Ordered(a, Down)
  /\ Ahead = {s \in chain.initialized : Onside(s, Start(chain.tick), Down)}
  BY DEF Before, Nearer, InDirection, Ordered, Ahead, Onside

\* What the search finds.
LEMMA FoundIs ==
  ASSUME ChainShape, chain.extension \/ ~BeyondDefault
  PROVE  /\ Found \in Seq(Int) /\ Len(Found) <= MaxSwapArrays /\ Ordered(Found, Down)
         /\ path.pool = DefaultBits(chain.initialized) => Nearest(Found)
         /\ ~chain.extension =>
              ~NeedsBitmapExtension(chain.tick) /\ \A k \in 1..Len(Found) : InDefault(Found[k])
<1> DEFINE bitmaps == [default |-> path.pool, loaded |-> chain.extension,
                       extension |-> IF chain.extension THEN ExtensionBits(chain.initialized) ELSE {}]
<1>1. Found = InitializedStarts(bitmaps, Start(chain.tick), Down) /\ chain.tick \in Ticks
  BY DEF Found, ChainShape
<1>2. Found \in Seq(Int) /\ Len(Found) <= MaxSwapArrays /\ Ordered(Found, Down)
  BY <1>1, DownType, SearchType
<1>3. ASSUME ~chain.extension
      PROVE  /\ ~NeedsBitmapExtension(chain.tick) /\ \A k \in 1..Len(Found) : InDefault(Found[k])
             /\ InDefault(Start(chain.tick)) /\ \A s \in chain.initialized : InDefault(s)
  <2>1. ~NeedsBitmapExtension(chain.tick) /\ \A k \in DOMAIN Found : InDefault(Found[k])
    BY <1>3 DEF BeyondDefault
  <2>2. InDefault(Start(chain.tick))
    BY <1>1, <2>1, DownType, ScanIs
  <2>3. \A s \in chain.initialized : InDefault(s)
    BY <1>3 DEF ChainShape
  <2> QED
    BY <1>2, <2>1, <2>2, <2>3
<1>4. ASSUME path.pool = DefaultBits(chain.initialized) PROVE Nearest(Found)
  <2>1. chain.initialized \in SUBSET Starts /\ chain.extension \in BOOLEAN
    BY DEF ChainShape
  <2>2. /\ bitmaps.default = DefaultBits(chain.initialized) /\ bitmaps.loaded = chain.extension
        /\ bitmaps.loaded => bitmaps.extension = ExtensionBits(chain.initialized)
    BY <1>4
  <2> HIDE DEF bitmaps
  <2>3. /\ \A k \in DOMAIN Found : Found[k] \in chain.initialized /\ Onside(Found[k], Start(chain.tick), Down)
        /\ \A s \in chain.initialized : Onside(s, Start(chain.tick), Down) =>
             \/ \E k \in DOMAIN Found : Found[k] = s
             \/ Len(Found) = MaxSwapArrays /\ \A k \in DOMAIN Found : Nearer(Found[k], s, Down)
    BY <1>1, <1>3, <2>1, <2>2, DownType, SearchFinds
  <2> QED
    BY <2>3, Alike DEF Nearest
<1> QED
  BY <1>2, <1>3, <1>4

\* What is chosen among the candidates.
LEMMA SelectedIs ==
  ASSUME ChainShape, Looking, Len(path.got) = Len(path.ask)
  PROVE  /\ Selected \in Seq(Int) /\ Ordered(Selected, Down)
         /\ \A i \in DOMAIN Selected : Selected[i] \in chain.existing
         /\ moves = 0 /\ path.bitmap => Selected # <<>> /\ Nearest(Selected)
         /\ ~path.extension => \A i \in DOMAIN Selected : InDefault(Selected[i])
<1> DEFINE n == Len(path.ask)
           P == {k \in DOMAIN path.ask : path.got[k]}
<1>1. n \in Nat /\ DOMAIN path.ask = 1..n /\ (\A k \in 1..n : path.ask[k] \in Int) /\ Ordered(path.ask, Down)
  BY DEF Looking
<1>2. Selected = FirstAt(path.ask, P, MaxSwapArrays)
  BY DEF Selected, SelectTickArrays
<1>3. P \in SUBSET (1..n) /\ \A k \in 1..n : k \in P <=> path.got[k]
  BY <1>1
<1> HIDE DEF P
<1>4. /\ Selected \in Seq(Int) /\ Len(Selected) <= MaxSwapArrays /\ (Len(Selected) = 0 <=> P = {})
      /\ Ordered(Selected, Down) /\ Covers(Selected, path.ask, P, Down)
  <2> HIDE DEF n
  <2> QED
    BY <1>1, <1>2, <1>3, DownType, PickedInOrder
<1>5. \A i \in DOMAIN Selected : \E p \in P : Selected[i] = path.ask[p]
  BY <1>4 DEF Covers
<1>6. \A i \in DOMAIN Selected : Selected[i] \in chain.existing
  BY <1>3, <1>5 DEF Looking
<1>7. ~path.extension => \A i \in DOMAIN Selected : InDefault(Selected[i])
  BY <1>3, <1>5 DEF Looking
<1>8. ASSUME moves = 0, path.bitmap PROVE Selected # <<>> /\ Nearest(Selected)
  <2>1. n \in 1..MaxSwapArrays /\ Nearest(path.ask) /\ \A k \in 1..n : path.got[k]
    BY <1>8 DEF Looking
  <2>2. P = 1..n /\ P # {}
    <3>1. \A k \in 1..n : k \in P
      BY <1>3, <2>1
    <3>2. 1 \in 1..n
      BY <1>1, <2>1
    <3> HIDE DEF n
    <3> QED
      BY <1>3, <3>1, <3>2, Zenon
  <2>3. Selected # <<>>
    BY <1>4, <2>2
  <2>4. /\ \A k \in 1..n : path.ask[k] \in Ahead
        /\ \A s \in Ahead : \/ \E k \in 1..n : path.ask[k] = s
                            \/ n = MaxSwapArrays /\ \A k \in 1..n : Nearer(path.ask[k], s, Down)
    BY <1>1, <2>1, Alike DEF Nearest
  <2>5. \A p \in P : \/ \E i \in DOMAIN Selected : Selected[i] = path.ask[p]
                     \/ Len(Selected) = MaxSwapArrays
                        /\ \A i \in DOMAIN Selected : Nearer(Selected[i], path.ask[p], Down)
    BY <1>4 DEF Covers
  \* Of as many candidates as a swap takes, all are taken.
  <2>6. n = MaxSwapArrays => Len(Selected) = MaxSwapArrays
    <3>1. IsFiniteSet(1..n) /\ Cardinality(1..n) = n
      BY <1>1, FS_Interval
    <3>2. MaxSwapArrays \in Nat
      BY TickAssumption DEF TickAssumption
    <3>3. n = MaxSwapArrays => Selected = [k \in 1..n |-> path.ask[Place(P, k)]]
      BY <1>2, <2>2, <3>1, <3>2 DEF FirstAt, Place
    <3> HIDE DEF n
    <3> QED
      BY <1>1, <1>4, <3>3
  <2>7. \A i \in DOMAIN Selected : Selected[i] \in Ahead
    BY <1>5, <2>2, <2>4
  <2>8. ASSUME NEW s \in Ahead
        PROVE  \/ \E i \in DOMAIN Selected : Selected[i] = s
               \/ Len(Selected) = MaxSwapArrays /\ \A i \in DOMAIN Selected : Nearer(Selected[i], s, Down)
    <3>1. CASE \E k \in 1..n : path.ask[k] = s
      BY <2>2, <2>5, <3>1
    <3>2. CASE n = MaxSwapArrays /\ \A k \in 1..n : Nearer(path.ask[k], s, Down)
      BY <1>5, <2>2, <2>6, <3>2
    <3> QED
      BY <2>4, <3>1, <3>2
  <2>9. Nearest(Selected)
    BY <2>7, <2>8, Alike DEF Nearest
  <2> QED
    BY <2>3, <2>9
<1> QED
  BY <1>4, <1>6, <1>7, <1>8

LEMMA InitLookup == Init => LookupInv
<1> SUFFICES ASSUME Init PROVE LookupInv
  OBVIOUS
<1>0. \E o \in Openings : \E exists \in {o.initialized, o.initialized \cup Touched} :
        chain = [tick |-> o.tick, initialized |-> o.initialized, existing |-> exists,
                 extension |-> \E s \in exists : ~InDefault(s)]
  BY DEF Init
<1>1. PICK o \in Openings : \E exists \in {o.initialized, o.initialized \cup Touched} :
        chain = [tick |-> o.tick, initialized |-> o.initialized, existing |-> exists,
                 extension |-> \E s \in exists : ~InDefault(s)]
  BY <1>0, Zenon
<1>9. PICK exists \in {o.initialized, o.initialized \cup Touched} :
        chain = [tick |-> o.tick, initialized |-> o.initialized, existing |-> exists,
                 extension |-> \E s \in exists : ~InDefault(s)]
  BY <1>1, Zenon
<1>2. o.tick \in Ticks /\ o.initialized \in SUBSET Starts /\ exists \in SUBSET Starts
      /\ o.initialized \in SUBSET exists
  BY <1>9, SwapAssumption DEF SwapAssumption
<1>3. ChainShape
  BY <1>9, <1>2 DEF ChainShape
<1>4. setting.wsolFirst \in BOOLEAN /\ batch \in Nat \ {0} /\ moves = 0 /\ stage = "idle"
      /\ tx = NoTx /\ path = NoPath
  BY SwapAssumption DEF Init, SwapAssumption
<1>5. PathShape /\ TxShape /\ tx.arrays = <<>>
  BY <1>4 DEF PathShape, TxShape, NoPath, NoTx
<1>6. SwapAccountsSuffice
  BY <1>5 DEF SwapAccountsSuffice, ArraysAreNext, ExtensionSupplied
<1> QED
  BY <1>3, <1>4, <1>5, <1>6 DEF LookupInv, Early

\* The end of an attempt.
LEMMA IdleLookup ==
  ASSUME LookupInv, Idle, UNCHANGED <<chain, setting>>, batch' \in Nat \ {0}
  PROVE  LookupInv'
<1>1. stage' = "idle" /\ tx' = NoTx /\ path' = NoPath /\ moves' = 0
  BY DEF Idle
<1>2. PathShape' /\ TxShape' /\ tx'.arrays = <<>> /\ ~Early' /\ (tx.arrays = <<>>)'
  BY <1>1 DEF PathShape, TxShape, NoPath, NoTx, Early
<1>3. SwapAccountsSuffice'
  BY <1>2 DEF SwapAccountsSuffice, ArraysAreNext, ExtensionSupplied
<1>4. ChainShape'
  BY DEF LookupInv, ChainShape
<1> QED
  BY <1>1, <1>2, <1>3, <1>4 DEF LookupInv

\* A step past the choice of the arrays.
LEMMA LateLookup ==
  ASSUME LookupInv, ~Early, stage # "idle", ~Early', stage' # "idle",
         UNCHANGED <<chain, setting, batch, swap, path, moves>>, TxShape', tx'.arrays = tx.arrays
  PROVE  LookupInv'
<1>1. UNCHANGED <<Down, Ahead>>
  BY DEF Down, Ahead
<1>2. ArraysAreNext'
  BY <1>1 DEF LookupInv, SwapAccountsSuffice, ArraysAreNext, InDirection, Nearest, Before
<1>3. ExtensionSupplied'
  BY <1>1 DEF LookupInv, SwapAccountsSuffice, ExtensionSupplied
<1>4. ChainShape' /\ PathShape'
  BY DEF LookupInv, ChainShape, PathShape
<1> QED
  BY <1>2, <1>3, <1>4 DEF LookupInv, SwapAccountsSuffice, Early

\* A step before it, which leaves no arrays chosen.
LEMMA EarlyLookup ==
  ASSUME LookupInv, Early', tx' = tx, tx.arrays = <<>>, setting' = setting, ChainShape', PathShape',
         batch' \in Nat \ {0}, moves' \in Nat,
         path'.old \in SUBSET chain'.existing, moves' = 0 => path'.old = chain'.existing,
         stage' = "pool" \/ stage' = "config" => path'.got = <<>>,
         stage' = "config" /\ moves' = 0 => path'.pool = DefaultBits(chain'.initialized),
         stage' = "arrays" => Looking'
  PROVE  LookupInv'
<1>1. TxShape' /\ (tx.arrays = <<>>)'
  BY DEF LookupInv, TxShape
<1>2. SwapAccountsSuffice'
  BY <1>1 DEF SwapAccountsSuffice, ArraysAreNext, ExtensionSupplied
<1> QED
  BY <1>1, <1>2 DEF LookupInv

\* An array is opened or emptied meanwhile.
LEMMA MovedLookup ==
  ASSUME LookupInv, NEW s \in Touched, Opened(s) \/ Emptied(s)
  PROVE  LookupInv'
<1>1. /\ Early /\ moves' = moves + 1 /\ UNCHANGED <<setting, batch, stage, swap, path, tx>>
      /\ chain' = [chain EXCEPT !.initialized = @ \cup {s}, !.existing = @ \cup {s},
                                !.extension = @ \/ ~InDefault(s)]
         \/ chain' = [chain EXCEPT !.initialized = @ \ {s}]
  BY DEF Opened, Emptied, Moving, Early
<1>2. ChainShape /\ moves \in Nat /\ batch \in Nat \ {0} /\ PathShape /\ tx.arrays = <<>>
      /\ path.old \in SUBSET chain.existing /\ (stage = "arrays" => Looking)
  BY <1>1 DEF LookupInv
<1>3. s \in Starts
  BY SwapAssumption DEF SwapAssumption
<1>4. /\ chain'.tick = chain.tick /\ chain.existing \in SUBSET chain'.existing
      /\ chain'.existing \in SUBSET Starts /\ chain'.initialized \in SUBSET chain'.existing
      /\ chain' = [tick |-> chain'.tick, initialized |-> chain'.initialized, existing |-> chain'.existing,
                   extension |-> chain'.extension]
      /\ chain'.extension \in BOOLEAN /\ (chain'.extension <=> \E t \in chain'.existing : ~InDefault(t))
  <2>1. CASE chain' = [chain EXCEPT !.initialized = @ \ {s}]
    BY <1>2, <2>1 DEF ChainShape
  <2>2. CASE chain' = [chain EXCEPT !.initialized = @ \cup {s}, !.existing = @ \cup {s},
                                    !.extension = @ \/ ~InDefault(s)]
    <3>1. chain' = [tick |-> chain.tick, initialized |-> chain.initialized \cup {s},
                    existing |-> chain.existing \cup {s}, extension |-> chain.extension \/ ~InDefault(s)]
      BY <1>2, <2>2 DEF ChainShape
    <3> QED
      BY <1>2, <1>3, <3>1 DEF ChainShape
  <2> QED
    BY <1>1, <2>1, <2>2
<1>5. ChainShape'
  BY <1>2, <1>4 DEF ChainShape
<1>6. moves' \in Nat /\ moves' # 0
  BY <1>1, <1>2
<1>7. Down' = Down
  BY <1>1 DEF Down
<1>8. stage' = "arrays" => Looking'
  BY <1>1, <1>2, <1>4, <1>6, <1>7 DEF Looking
<1>9. stage' = "pool" \/ stage' = "config" => path'.got = <<>>
  BY <1>1 DEF LookupInv
<1> QED
  BY <1>1, <1>2, <1>4, <1>5, <1>6, <1>8, <1>9, EarlyLookup DEF Early, PathShape

LEMMA BeginLookup ==
  ASSUME LookupInv, NEW close \in BOOLEAN, Begin(close)
  PROVE  LookupInv'
<1>1. /\ stage = "idle" /\ stage' = "pool" /\ UNCHANGED <<chain, setting, batch, tx, moves>>
      /\ path' = [NoPath EXCEPT !.old = chain.existing]
  BY DEF Begin
<1>2. PathShape' /\ path'.old = chain.existing /\ path'.got = <<>>
  BY <1>1 DEF PathShape, NoPath
<1> QED
  BY <1>1, <1>2, EarlyLookup DEF LookupInv, Early, ChainShape

LEMMA ReadPoolLookup ==
  ASSUME LookupInv, ReadPool
  PROVE  LookupInv'
<1>1. /\ stage = "pool" /\ stage' = "config" /\ UNCHANGED <<chain, setting, batch, tx, moves>>
      /\ path' = [path EXCEPT !.pool = DefaultBits(chain.initialized)]
  BY DEF ReadPool
<1>2. Early /\ PathShape /\ tx.arrays = <<>>
  BY <1>1 DEF Early, LookupInv
<1>3. PathShape' /\ path'.old = path.old /\ path'.got = path.got
      /\ path'.pool = DefaultBits(chain.initialized)
  BY <1>1, <1>2 DEF PathShape
<1> QED
  BY <1>1, <1>2, <1>3, EarlyLookup DEF LookupInv, Early, ChainShape

LEMMA ReadConfigLookup ==
  ASSUME LookupInv, ReadConfig
  PROVE  LookupInv'
<1> DEFINE ask == IF Found = <<>> THEN TickArrayCandidates(chain.tick, Down) ELSE Found
<1>1. /\ stage = "config" /\ stage' = "arrays" /\ UNCHANGED <<chain, setting, batch, swap, tx, moves>>
      /\ chain.extension \/ ~BeyondDefault
      /\ path' = [path EXCEPT !.ask = ask, !.bitmap = Found # <<>>, !.pool = {}, !.extension = chain.extension]
  BY DEF ReadConfig
<1>2. /\ Early /\ PathShape /\ ChainShape /\ tx.arrays = <<>>
      /\ moves = 0 => path.pool = DefaultBits(chain.initialized)
  BY <1>1 DEF Early, LookupInv
<1>3. /\ Found \in Seq(Int) /\ Len(Found) <= MaxSwapArrays /\ Ordered(Found, Down)
      /\ moves = 0 => Nearest(Found)
      /\ ~chain.extension =>
           ~NeedsBitmapExtension(chain.tick) /\ \A k \in 1..Len(Found) : InDefault(Found[k])
  BY <1>1, <1>2, FoundIs
<1>4. /\ TickArrayCandidates(chain.tick, Down) \in Seq(Int) /\ Ordered(TickArrayCandidates(chain.tick, Down), Down)
      /\ ~NeedsBitmapExtension(chain.tick) =>
           \A k \in DOMAIN TickArrayCandidates(chain.tick, Down) : InDefault(TickArrayCandidates(chain.tick, Down)[k])
  BY <1>2, DownType, ScanIs DEF ChainShape
<1>5. /\ ask \in Seq(Int) /\ Ordered(ask, Down)
      /\ ~chain.extension => ~NeedsBitmapExtension(chain.tick) /\ \A k \in 1..Len(ask) : InDefault(ask[k])
  BY <1>3, <1>4
<1>6. Found # <<>> => ask = Found
  OBVIOUS
<1>7. moves = 0 /\ Found = <<>> => Ahead = {}
  <2> SUFFICES ASSUME moves = 0, Found = <<>> PROVE Ahead = {}
    OBVIOUS
  <2>1. Len(Found) = 0 /\ MaxSwapArrays # 0 /\ DOMAIN Found = {}
    BY TickAssumption DEF TickAssumption
  <2> QED
    BY <1>3, <2>1 DEF Nearest
<1>8. Found # <<>> => Len(Found) \in 1..MaxSwapArrays
  BY <1>3, TickAssumption DEF TickAssumption
<1> HIDE DEF ask
<1>9. /\ path' = [ask |-> ask, got |-> path.got, bitmap |-> Found # <<>>, pool |-> {},
                  extension |-> chain.extension, old |-> path.old]
  BY <1>1, <1>2 DEF PathShape
<1>10. path.got = <<>>
  BY <1>1 DEF LookupInv
<1>11. UNCHANGED <<Down, Ahead>>
  BY <1>1 DEF Down, Ahead
<1>12. /\ path'.ask = ask /\ path'.got = <<>> /\ path'.bitmap = (Found # <<>>)
       /\ path'.extension = chain.extension /\ path'.old = path.old /\ PathShape'
  BY <1>9, <1>10 DEF PathShape
<1> HIDE DEF Found
<1>14. Looking'
  <2>1. path'.ask \in Seq(Int) /\ path'.got \in Seq(BOOLEAN) /\ Len(path'.got) = 0
        /\ Len(path'.got) <= Len(path'.ask)
    BY <1>5, <1>12
  <2>2. 1..Len(path'.got) = {}
    BY <2>1
  <2>3. Ordered(path'.ask, Down')
    BY <1>5, <1>11, <1>12
  <2>4. moves' = 0 /\ path'.bitmap => Len(path'.ask) \in 1..MaxSwapArrays /\ Nearest(path.ask)'
    <3> SUFFICES ASSUME moves' = 0, path'.bitmap
                 PROVE  Len(path'.ask) \in 1..MaxSwapArrays /\ Nearest(path.ask)'
      OBVIOUS
    <3>1. ask = Found /\ Nearest(Found) /\ moves = 0 /\ Len(Found) \in 1..MaxSwapArrays
      BY <1>1, <1>3, <1>6, <1>8, <1>12
    <3>2. Nearest(path.ask)' <=> Nearest(ask)
      BY <1>11, <1>12 DEF Nearest, Before
    <3> QED
      BY <1>12, <3>1, <3>2
  <2>5. moves' = 0 /\ ~path'.bitmap => Ahead' = {}
    BY <1>1, <1>7, <1>11, <1>12
  <2>6. ~path'.extension => ~NeedsBitmapExtension(chain'.tick) /\ \A k \in 1..Len(path'.ask) : InDefault(path'.ask[k])
    BY <1>1, <1>5, <1>12
  <2> QED
    BY <2>1, <2>2, <2>3, <2>4, <2>5, <2>6 DEF Looking
<1>15. moves' \in Nat /\ batch' \in Nat \ {0} /\ ChainShape'
       /\ path'.old \in SUBSET chain'.existing /\ (moves' = 0 => path'.old = chain'.existing)
  BY <1>1, <1>2, <1>12 DEF LookupInv, ChainShape
<1> QED
  BY <1>1, <1>2, <1>12, <1>14, <1>15, EarlyLookup DEF Early, LookupInv


LEMMA Listed ==
  ASSUME NEW S, NEW c \in Nat, NEW f \in [1..c -> S] PROVE f \in Seq(S) /\ Len(f) = c
  OBVIOUS

LEMMA Appended ==
  ASSUME NEW S, NEW a \in Seq(S), NEW b \in Seq(S)
  PROVE  a \o b \in Seq(S) /\ Len(a \o b) = Len(a) + Len(b)
  OBVIOUS

LEMMA AskedFits ==
  ASSUME Looking, batch \in Nat \ {0}
  PROVE  /\ path.ask \in Seq(Int) /\ path.got \in Seq(BOOLEAN)
         /\ Len(path.got) \in Nat /\ Len(path.ask) \in Nat
         /\ Asked \in Nat /\ Len(path.got) + Asked <= Len(path.ask)
<1> DEFINE m == Len(path.got)
           n == Len(path.ask)
<1>1. path.ask \in Seq(Int) /\ path.got \in Seq(BOOLEAN) /\ m <= n
  BY DEF Looking
<1>2. m \in Nat /\ n \in Nat
  BY <1>1
<1>3. Asked = IF batch < n - m THEN batch ELSE n - m
  BY DEF Asked, Least
<1> HIDE DEF m, n
<1>4. Asked \in Nat /\ m + Asked <= n
  BY <1>1, <1>2, <1>3
<1> QED
  BY <1>1, <1>2, <1>4 DEF m, n

LEMMA FetchLookup ==
  ASSUME LookupInv, NEW existing \in {chain.existing, path.old}, FetchBatch(existing)
  PROVE  LookupInv'
<1> DEFINE n == Len(path.got)
           c == Asked
           more == [k \in 1..c |-> path.ask[n + k] \in existing]
<1>1. /\ stage = "arrays" /\ n < Len(path.ask)
      /\ path' = [path EXCEPT !.got = path.got \o more]
      /\ UNCHANGED <<chain, setting, batch, stage, swap, tx, moves>>
  BY DEF FetchBatch
<1>2. Early /\ PathShape /\ ChainShape /\ tx.arrays = <<>> /\ Looking /\ batch \in Nat \ {0} /\ moves \in Nat
      /\ path.old \in SUBSET chain.existing /\ (moves = 0 => path.old = chain.existing)
  BY <1>1 DEF Early, LookupInv
<1>3. /\ path.ask \in Seq(Int) /\ path.got \in Seq(BOOLEAN) /\ n \in Nat /\ Len(path.ask) \in Nat
      /\ c \in Nat /\ n + c <= Len(path.ask)
  BY <1>1, <1>2, AskedFits
<1> HIDE DEF c
<1>4. more \in Seq(BOOLEAN) /\ Len(more) = c /\ \A k \in 1..c : more[k] <=> path.ask[n + k] \in existing
  <2>1. \A k \in 1..c : more[k] \in BOOLEAN /\ (more[k] <=> path.ask[n + k] \in existing)
    <3> TAKE k \in 1..c
    <3>1. more[k] = (path.ask[n + k] \in existing)
      OBVIOUS
    <3>2. (path.ask[n + k] \in existing) \in BOOLEAN
      OBVIOUS
    <3> HIDE DEF more
    <3> QED
      BY <3>1, <3>2
  <2>2. DOMAIN more = 1..c /\ more = [k \in 1..c |-> more[k]]
    OBVIOUS
  <2> HIDE DEF more
  <2>3. more \in [1..c -> BOOLEAN]
    BY <2>1, <2>2, Zenon
  <2>4. more \in Seq(BOOLEAN) /\ Len(more) = c
    BY <1>3, <2>3, Listed
  <2> QED
    BY <2>1, <2>4
<1>5. existing \in SUBSET chain.existing /\ (moves = 0 => existing = chain.existing)
  BY <1>2
<1> HIDE DEF more
<1>6. /\ path'.got = path.got \o more /\ path'.ask = path.ask /\ path'.bitmap = path.bitmap
      /\ path'.extension = path.extension /\ path'.old = path.old /\ PathShape'
  BY <1>1, <1>2 DEF PathShape
<1>7. /\ path'.got \in Seq(BOOLEAN) /\ Len(path'.got) = n + c
      /\ \A k \in 1..n : path'.got[k] = path.got[k]
      /\ \A k \in 1..(n + c) : k \in 1..n \/ (k - n \in 1..c /\ path'.got[k] = more[k - n] /\ n + (k - n) = k)
  <2> DEFINE got == path.got
  <2>1. got \in Seq(BOOLEAN) /\ Len(got) = n /\ n \in Nat /\ more \in Seq(BOOLEAN) /\ Len(more) = c /\ c \in Nat
        /\ path'.got = got \o more
    BY <1>3, <1>4, <1>6
  <2> HIDE DEF got, n
  <2>2. got \o more \in Seq(BOOLEAN) /\ Len(got \o more) = n + c
    BY <2>1, Appended
  <2>3. \A k \in 1..n : (got \o more)[k] = got[k]
    BY <2>1
  <2>4. \A k \in 1..(n + c) : k \in 1..n \/ (k - n \in 1..c /\ (got \o more)[k] = more[k - n] /\ n + (k - n) = k)
    BY <2>1
  <2> QED
    BY <2>1, <2>2, <2>3, <2>4 DEF got
<1>8. UNCHANGED <<Down, Ahead>>
  BY <1>1 DEF Down, Ahead
<1>9. ASSUME NEW k \in 1..(n + c), k \notin 1..n PROVE path'.got[k] <=> path.ask[k] \in existing
  BY <1>4, <1>7, <1>9
<1>10. ASSUME NEW k \in 1..(n + c), path'.got[k] PROVE path.ask[k] \in chain.existing
  <2>1. CASE k \in 1..n
    BY <1>2, <1>7, <1>10, <2>1 DEF Looking
  <2>2. CASE k \notin 1..n
    BY <1>5, <1>9, <1>10, <2>2
  <2> QED
    BY <2>1, <2>2
<1>11. ASSUME moves = 0, path.bitmap, NEW k \in 1..(n + c) PROVE path'.got[k]
  <2>1. Nearest(path.ask) /\ \A j \in 1..n : path.got[j]
    BY <1>2, <1>11 DEF Looking
  <2>2. CASE k \in 1..n
    BY <1>7, <2>1, <2>2
  <2>3. CASE k \notin 1..n
    <3>1. k \in DOMAIN path.ask
      BY <1>3
    <3>2. path.ask[k] \in chain.initialized
      BY <2>1, <3>1 DEF Nearest, Ahead
    <3>3. path.ask[k] \in existing
      BY <1>2, <1>5, <1>11, <3>2 DEF ChainShape
    <3> QED
      BY <1>9, <2>3, <3>3
  <2> QED
    BY <2>2, <2>3
<1>12. Nearest(path.ask)' <=> Nearest(path.ask)
  BY <1>6, <1>8 DEF Nearest, Before
<1> HIDE DEF n
<1>13. Looking'
  BY <1>1, <1>2, <1>3, <1>6, <1>7, <1>8, <1>10, <1>11, <1>12 DEF Looking
<1> QED
  BY <1>1, <1>2, <1>6, <1>13, EarlyLookup DEF Early, ChainShape

LEMMA BatchLookup ==
  ASSUME LookupInv, BatchTooLarge
  PROVE  LookupInv'
<1>1. stage = "arrays" /\ Asked > 1 /\ batch' = Asked \div 2 /\ Len(path.got) < Len(path.ask)
      /\ UNCHANGED <<chain, setting, stage, swap, path, tx, moves>>
  BY DEF BatchTooLarge, attemptVars
<1>2. Early /\ Looking /\ PathShape /\ ChainShape /\ tx.arrays = <<>> /\ batch \in Nat \ {0} /\ moves \in Nat
      /\ path.old \in SUBSET chain.existing /\ (moves = 0 => path.old = chain.existing)
  BY <1>1 DEF Early, LookupInv
<1>3. Asked \in Nat
  BY <1>1, <1>2, AskedFits
<1>4. batch' \in Nat \ {0}
  <2> DEFINE c == Asked
  <2>1. c \in Nat /\ c > 1 /\ batch' = c \div 2
    BY <1>1, <1>3
  <2> HIDE DEF c
  <2> QED
    BY <2>1
<1>5. UNCHANGED <<Down, Ahead>>
  BY <1>1 DEF Down, Ahead
<1>6. Looking'
  BY <1>1, <1>2, <1>5 DEF Looking, Nearest, Before
<1> QED
  BY <1>1, <1>2, <1>4, <1>6, EarlyLookup DEF Early, ChainShape, PathShape

\* With every candidate of the bitmaps answered and none chosen, the chain moved.
LEMMA ScanLookup ==
  ASSUME LookupInv, ScanInstead
  PROVE  LookupInv'
<1>1. /\ stage = "arrays" /\ Len(path.got) = Len(path.ask) /\ Selected = <<>> /\ path.bitmap
      /\ path' = [path EXCEPT !.ask = TickArrayCandidates(chain.tick, Down), !.got = <<>>, !.bitmap = FALSE]
      /\ UNCHANGED <<chain, setting, batch, stage, swap, tx, moves>>
  BY DEF ScanInstead
<1>2. Early /\ Looking /\ PathShape /\ ChainShape /\ tx.arrays = <<>> /\ batch \in Nat \ {0} /\ moves \in Nat
      /\ path.old \in SUBSET chain.existing /\ (moves = 0 => path.old = chain.existing)
  BY <1>1 DEF Early, LookupInv
<1>3. moves # 0
  BY <1>1, <1>2, SelectedIs
<1>4. /\ TickArrayCandidates(chain.tick, Down) \in Seq(Int) /\ Ordered(TickArrayCandidates(chain.tick, Down), Down)
      /\ ~NeedsBitmapExtension(chain.tick) =>
           \A k \in DOMAIN TickArrayCandidates(chain.tick, Down) : InDefault(TickArrayCandidates(chain.tick, Down)[k])
  BY <1>2, DownType, ScanIs DEF ChainShape
<1>5. /\ path'.ask = TickArrayCandidates(chain.tick, Down) /\ path'.got = <<>>
      /\ path'.extension = path.extension /\ path'.old = path.old /\ PathShape'
  BY <1>1, <1>2 DEF PathShape
<1>6. Down' = Down
  BY <1>1 DEF Down
<1> DEFINE list == TickArrayCandidates(chain.tick, Down)
<1>7. ~path.extension => ~NeedsBitmapExtension(chain.tick)
  BY <1>2 DEF Looking
<1>8. Looking'
  <2>1. list \in Seq(Int) /\ Ordered(list, Down) /\ path'.ask = list
        /\ (~NeedsBitmapExtension(chain.tick) => \A k \in 1..Len(list) : InDefault(list[k]))
    BY <1>4, <1>5
  <2> HIDE DEF list
  <2>2. path'.ask \in Seq(Int) /\ path'.got \in Seq(BOOLEAN) /\ Len(path'.got) = 0
        /\ Len(path'.got) <= Len(path'.ask) /\ 1..Len(path'.got) = {}
    BY <1>5, <2>1
  <2> QED
    BY <1>1, <1>3, <1>5, <1>6, <1>7, <2>1, <2>2 DEF Looking
<1> QED
  BY <1>1, <1>2, <1>3, <1>5, <1>8, EarlyLookup DEF Early, ChainShape

LEMMA ChooseLookup ==
  ASSUME LookupInv, ChooseArrays
  PROVE  LookupInv'
<1>1. /\ stage = "arrays" /\ Len(path.got) = Len(path.ask) /\ stage' = "quote"
      /\ tx' = [tx EXCEPT !.arrays = Selected]
      /\ path' = [NoPath EXCEPT !.extension = path.extension]
      /\ UNCHANGED <<chain, setting, batch, swap, moves>>
  BY DEF ChooseArrays
<1>2. Looking /\ ChainShape /\ TxShape /\ setting.wsolFirst \in BOOLEAN /\ batch \in Nat \ {0} /\ moves \in Nat
  BY <1>1 DEF LookupInv
<1>3. /\ Selected \in Seq(Int) /\ Ordered(Selected, Down)
      /\ \A i \in DOMAIN Selected : Selected[i] \in chain.existing
      /\ moves = 0 /\ path.bitmap => Nearest(Selected)
      /\ ~path.extension => \A i \in DOMAIN Selected : InDefault(Selected[i])
  BY <1>1, <1>2, SelectedIs
<1>4. /\ moves = 0 /\ ~path.bitmap => Ahead = {}
      /\ ~path.extension => \A k \in 0..ScanLength : InDefault(Start(chain.tick) + k * Step(Down))
  BY <1>2, DownType, ScanIs DEF Looking, ChainShape
<1> DEFINE f == Selected
<1>5. tx'.arrays = f /\ TxShape' /\ PathShape' /\ path'.extension = path.extension
  BY <1>1, <1>2 DEF TxShape, PathShape, NoPath
<1>6. UNCHANGED <<Down, Ahead>>
  BY <1>1 DEF Down, Ahead
<1>7. ArraysAreNext'
  <2>1. Ordered(f, Down) /\ (\A i \in DOMAIN f : f[i] \in chain.existing) /\ (moves = 0 /\ Ahead # {} => Nearest(f))
    BY <1>3, <1>4
  <2> HIDE DEF f
  <2>2. Nearest(f) => Nearest(tx.arrays)'
    BY <1>5, <1>6 DEF Nearest, Before
  <2>3. InDirection(tx.arrays)'
    BY <1>5, <1>6, <2>1 DEF InDirection, Before, Ordered, Nearer
  <2> QED
    BY <1>1, <1>5, <1>6, <2>1, <2>2, <2>3 DEF ArraysAreNext
<1>8. ExtensionSupplied'
  <2>1. ~path.extension => \A i \in DOMAIN f : InDefault(f[i])
    BY <1>3
  <2> HIDE DEF f
  <2> QED
    BY <1>1, <1>4, <1>5, <1>6, <2>1 DEF ExtensionSupplied
<1>9. ChainShape' /\ ~Early' /\ stage' # "idle"
  BY <1>1, <1>2 DEF ChainShape, Early
<1> HIDE DEF f
<1> QED
  BY <1>1, <1>2, <1>5, <1>7, <1>8, <1>9 DEF LookupInv, SwapAccountsSuffice, Early

LEMMA NextLookup == LookupInv /\ [Next]_vars => LookupInv'
<1> SUFFICES ASSUME LookupInv, [Next]_vars PROVE LookupInv'
  OBVIOUS
<1> USE DEF attemptVars
<1>t. TxShape /\ batch \in Nat \ {0}
  BY DEF LookupInv
<1>1. ASSUME UNCHANGED <<chain, setting, batch, stage, swap, path, tx, moves>> PROVE LookupInv'
  <2>1. UNCHANGED <<Down, Ahead, Early>>
    BY <1>1 DEF Down, Ahead, Early
  <2>2. SwapAccountsSuffice'
    BY <1>1, <2>1 DEF LookupInv, SwapAccountsSuffice, ArraysAreNext, ExtensionSupplied, InDirection, Nearest, Before
  <2>3. stage = "arrays" => Looking'
    BY <1>1, <2>1 DEF LookupInv, Looking, Nearest, Before
  <2>4. ChainShape' /\ PathShape' /\ TxShape'
    BY <1>1 DEF LookupInv, ChainShape, PathShape, TxShape
  <2> QED
    BY <1>1, <2>1, <2>2, <2>3, <2>4 DEF LookupInv
<1>2. ASSUME NEW s \in Touched, Opened(s) \/ Emptied(s) PROVE LookupInv'
  BY <1>2, MovedLookup
<1>3. ASSUME NEW k \in {Pin, OtherKey}, ServerRestarts(k) PROVE LookupInv'
  BY <1>1, <1>3 DEF ServerRestarts
<1>4. CASE UNCHANGED vars
  BY <1>1, <1>4 DEF vars
<1>5. ASSUME NEW close \in BOOLEAN, Begin(close) PROVE LookupInv'
  BY <1>5, BeginLookup
<1>6. CASE ReadPool \/ ReadConfig \/ BatchTooLarge \/ ChooseArrays \/ ScanInstead
  BY <1>6, ReadPoolLookup, ReadConfigLookup, BatchLookup, ChooseLookup, ScanLookup
<1>7. ASSUME NEW existing \in {chain.existing, path.old}, FetchBatch(existing) PROVE LookupInv'
  BY <1>7, FetchLookup
<1>8. CASE Beyond \/ NoArrays \/ ReadFails \/ ServerRefuses \/ NoAnswer \/ Unverified \/ DoesNotFill
  BY <1>8, <1>t, IdleLookup DEF Beyond, NoArrays, ReadFails, ServerRefuses, NoAnswer, Unverified,
                                 DoesNotFill, GiveUp
<1>9. ASSUME NEW spot \in Outs, NEW sim \in Outs, NEW l \in Liquidities, RejectEntry(spot, sim, l)
      PROVE  LookupInv'
  BY <1>9, <1>t, IdleLookup DEF RejectEntry, GiveUp
<1>10. CASE HoldOn
  BY <1>10, <1>t, IdleLookup DEF HoldOn
<1>11. ASSUME NEW spot, NEW quoted, stage = "quote", stage' = "sign", tx' = Built(quoted, spot),
              UNCHANGED <<chain, setting, batch, swap, path, moves>>
       PROVE  LookupInv'
  <2>1. TxShape' /\ tx'.arrays = tx.arrays
    BY <1>11, <1>t DEF TxShape, Built
  <2> QED
    BY <1>11, <2>1, LateLookup DEF Early
<1>12. ASSUME NEW spot \in Outs, NEW sim \in Outs, NEW l \in Liquidities, QuoteEntry(spot, sim, l)
       PROVE  LookupInv'
  BY <1>11, <1>12 DEF QuoteEntry
<1>13. ASSUME NEW spot \in Outs \ {0}, NEW sim \in Outs, QuoteExit(spot, sim) PROVE LookupInv'
  BY <1>11, <1>13 DEF QuoteExit
<1>14. ASSUME NEW signature, stage = "sign", stage' = "verify", tx' = [tx EXCEPT !.signature = signature],
              UNCHANGED <<chain, setting, batch, swap, path, moves>>
       PROVE  LookupInv'
  <2>1. TxShape' /\ tx'.arrays = tx.arrays
    BY <1>14, <1>t DEF TxShape
  <2> QED
    BY <1>14, <2>1, LateLookup DEF Early
<1>15. CASE ServerSigns
  BY <1>14, <1>15 DEF ServerSigns
<1>16. ASSUME NEW signature \in {Zero, <<OtherKey, tx.message>>}, Misanswer(signature) PROVE LookupInv'
  BY <1>14, <1>16 DEF Misanswer
<1>17. CASE Verified
  <2>1. TxShape' /\ tx'.arrays = tx.arrays
    BY <1>17, <1>t DEF Verified, TxShape
  <2> QED
    BY <1>17, <2>1, LateLookup DEF Verified, Early
<1>18. ASSUME NEW out \in Outs, Fills(out) PROVE LookupInv'
  BY <1>18, <1>t, IdleLookup DEF Fills
<1> QED
  BY <1>2, <1>3, <1>4, <1>5, <1>6, <1>7, <1>8, <1>9, <1>10, <1>12, <1>13, <1>15, <1>16, <1>17, <1>18 DEF Next

\* The accounts of resolve_swap_accounts, for every tick spacing, bitmap, scan
\* and batch and however the chain moves meanwhile: they exist and lie in order
\* in the direction of the swap, they are the nearest initialized arrays unless
\* one changed during the lookup, and the extension is there where a swap needs it.
THEOREM SwapAccounts == Spec => []SwapAccountsSuffice
<1>1. LookupInv => SwapAccountsSuffice
  BY DEF LookupInv
<1> QED
  BY <1>1, InitLookup, NextLookup, PTL DEF Spec
=============================================================================
