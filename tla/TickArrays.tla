------------------------------ MODULE TickArrays ------------------------------
(***************************************************************************)
(* How a Raydium CLMM swap finds its tick arrays (amm/account_resolver.rs).*)
(* A tick array is named by its start tick, a multiple of Span.  The pool  *)
(* marks initialized arrays in a bitmap of its own for the starts near     *)
(* zero and in an extension account beyond.  A bit is named by the bitmap  *)
(* and its index in it, not by word and shift.                             *)
(***************************************************************************)
EXTENDS Integers, Sequences, FiniteSets

CONSTANTS
  Span,             \* TICK_ARRAY_SIZE * tick_spacing
  DefaultArrays,    \* DEFAULT_BITMAP_ARRAYS
  ExtensionBitmaps, \* EXTENSION_BITMAPS
  MinTick, MaxTick, \* MIN_TICK and MAX_TICK
  MaxSwapArrays,    \* MAX_SWAP_TICK_ARRAYS
  ScanLength        \* TICK_ARRAY_SCAN

ASSUME TickAssumption ==
  /\ {Span, DefaultArrays, ExtensionBitmaps, MaxSwapArrays, ScanLength} \subseteq Nat \ {0}
  /\ MinTick \in Int /\ MaxTick \in Nat /\ MinTick < 0

Reach   == DefaultArrays * Span   \* the starts in -Reach..Reach - 1 have a bit in the pool
Ticks   == MinTick..MaxTick
Abs(n)  == IF n < 0 THEN -n ELSE n
Start(tick) == (tick \div Span) * Span
Lowest  == Start(MinTick)
Highest == Start(MaxTick)
Starts  == {s \in Lowest..Highest : s % Span = 0}

\* The bitmaps reach over the whole tick range: 15 times 512 arrays of 60
\* ticks or more pass MAX_TICK.
ASSUME ReachAssumption ==
  Lowest >= -((ExtensionBitmaps + 1) * Reach) /\ Highest < (ExtensionBitmaps + 1) * Reach

InDefault(start) == start \in -Reach..Reach - 1

\* Mutant: the lowest array of a negative bitmap is looked up in the next one.
NegativeBitShifted(start) ==
  LET m == Abs(start) % Reach
  IN  <<"negative", Abs(start) \div Reach - 1, IF m = 0 THEN 0 ELSE DefaultArrays - m \div Span>>

NegativeBit(start) ==
  LET m == Abs(start) % Reach
  IN  <<"negative",
        Abs(start) \div Reach - 1 - (IF m = 0 THEN 1 ELSE 0),
        IF m = 0 THEN 0 ELSE DefaultArrays - m \div Span>>

PositiveBit(start) == <<"positive", start \div Reach - 1, (start % Reach) \div Span>>

\* TickArrayBitmaps.  "unknown": the bit lives in an extension not loaded.
IsInitialized(bitmaps, start) ==
  IF InDefault(start)
  THEN IF start \div Span + DefaultArrays \in bitmaps.default THEN "yes" ELSE "no"
  ELSE IF ~bitmaps.loaded THEN "unknown"
  ELSE LET bit == IF start > 0 THEN PositiveBit(start) ELSE NegativeBit(start)
       IN  IF bit[2] < ExtensionBitmaps /\ bit \in bitmaps.extension THEN "yes" ELSE "no"

Step(down) == IF down THEN -Span ELSE Span

\* The arrays from start on in the direction of the swap, inside the tick range.
Onward(start, down) ==
  LET n == IF down THEN (start - Lowest) \div Span + 1 ELSE (Highest - start) \div Span + 1
  IN  [k \in 1..n |-> start + (k - 1) * Step(down)]

\* The members of a list at the positions P, in its order and at most n.
Rank(P, p) == Cardinality({q \in P : q <= p})
FirstAt(s, P, n) ==
  [k \in 1..(IF Cardinality(P) < n THEN Cardinality(P) ELSE n) |-> s[CHOOSE p \in P : Rank(P, p) = k]]

InitializedStarts(bitmaps, start, down) ==
  LET path     == Onward(start, down)
      Known(k) == \A j \in 1..k : IsInitialized(bitmaps, path[j]) # "unknown"
  IN  FirstAt(path, {k \in DOMAIN path : Known(k) /\ IsInitialized(bitmaps, path[k]) = "yes"}, MaxSwapArrays)

\* The fallback: a fixed scan from the array of the current tick.
TickArrayCandidates(tick, down) ==
  [k \in 1..ScanLength |-> Start(tick) + (k - 1) * Step(down)]

\* Mutant: the last array of the scan is not counted.
NeedsBitmapExtensionShort(tick) == Abs(tick) + (ScanLength - 1) * Span >= Reach

NeedsBitmapExtension(tick) == Abs(tick) + (ScanLength + 1) * Span >= Reach

\* owned: for each candidate, whether its account exists under the program.
SelectTickArrays(candidates, owned) ==
  FirstAt(candidates, {k \in DOMAIN candidates : owned[k]}, MaxSwapArrays)

-----------------------------------------------------------------------------
(* The deployed program's side: where it keeps the bit of an array.  The   *)
(* bitmaps of a side follow one another away from zero, each of            *)
(* DefaultArrays arrays in ascending order of their starts.                *)

ProgramBit(start) ==
  LET k == CHOOSE j \in 0..ExtensionBitmaps : 
             IF start > 0 THEN start \in (j + 1) * Reach..(j + 2) * Reach - 1
             ELSE start \in -(j + 2) * Reach..-(j + 1) * Reach - 1
      first == IF start > 0 THEN (k + 1) * Reach ELSE -(k + 2) * Reach
  IN  <<IF start > 0 THEN "positive" ELSE "negative", k, (start - first) \div Span>>

\* What an account read returns when the arrays of `initialized` have their bit set.
DefaultBits(initialized)   == {s \div Span + DefaultArrays : s \in {t \in initialized : InDefault(t)}}
ExtensionBits(initialized) == {ProgramBit(s) : s \in {t \in initialized : ~InDefault(t)}}
=============================================================================
