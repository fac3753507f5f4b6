--------------------------------- MODULE SlotMasks ---------------------------------
(***********************************************************************************)
(* SlotMask (src/include/opp/spectrum.hpp, src/spectrum.cpp): a bit set over the   *)
(* slots of the spectrum, held in words and printed as hexadecimal digits.  The    *)
(* planner's modules speak of sets of slots; here the words are shown to be one.   *)
(***********************************************************************************)
EXTENDS Naturals, Sequences, FiniteSets, SequencesExt, FiniteSetsExt

CONSTANTS Words,        \* kWords
          WordBits,     \* 64
          DigitBits     \* 4: the bits of one hexadecimal digit

VARIABLES words,        \* words_: index -> word
          slots         \* the set of slots the calls so far stand for

maskVars == <<words, slots>>

Slots == Words * WordBits      \* kMaxSpectrumSlots

None == [i \in 0 .. Words - 1 |-> 0]

\* A word with one bit, and the bitwise operators the code uses.
BitOf(index) == 2^(index % WordBits)
Bits(w) == {b \in 0 .. WordBits - 1 : (w \div 2^b) % 2 = 1}
Word(bits) == FoldSet(LAMBDA b, w : w + 2^b, 0, bits)
And(w, v) == Word(Bits(w) \cap Bits(v))
Or(w, v) == Word(Bits(w) \cup Bits(v))
Complement(w) == 2^WordBits - 1 - w

Set(m, index) == IF index >= Slots THEN m ELSE [m EXCEPT ![index \div WordBits] = Or(@, BitOf(index))]
Reset(m, index) == IF index >= Slots THEN m ELSE [m EXCEPT ![index \div WordBits] = And(@, Complement(BitOf(index)))]
Test(m, index) == index < Slots /\ And(m[index \div WordBits], BitOf(index)) # 0

\* All: the first slots, as far as there are words for them.
All(count) == FoldLeft(Set, None, [k \in 1 .. (IF count < Slots THEN count ELSE Slots) |-> k - 1])

Intersect(m, other) == [i \in DOMAIN m |-> And(m[i], other[i])]
IsEmpty(m) == \A i \in DOMAIN m : m[i] = 0
IsSubsetOf(m, other) == \A i \in DOMAIN m : And(m[i], Complement(other[i])) = 0

Count(m) == FoldLeft(LAMBDA total, i : total + Cardinality(Bits(m[i])), 0, [k \in 1 .. Words |-> k - 1])

\* LowestSetBit: of the first word that is not zero; nullopt is the empty set.
LowestSetBit(m) ==
  IF IsEmpty(m) THEN {}
  ELSE LET i == CHOOSE j \in DOMAIN m : m[j] # 0 /\ \A k \in 0 .. j - 1 : m[k] = 0
           b == CHOOSE c \in Bits(m[i]) : \A k \in Bits(m[i]) : c <= k
       IN {i * WordBits + b}

\* Mutant of FirstSlotMask: the last place a channel can start is left out.
FirstSlotMaskShort(m, width) ==
  IF width = 0 \/ width > Slots THEN None
  ELSE FoldLeft(LAMBDA result, start : IF \A o \in 0 .. width - 1 : Test(m, start + o) THEN Set(result, start) ELSE result,
                None, [k \in 1 .. Slots - width |-> k - 1])

FirstSlotMask(m, width) ==
  IF width = 0 \/ width > Slots THEN None
  ELSE FoldLeft(LAMBDA result, start : IF \A o \in 0 .. width - 1 : Test(m, start + o) THEN Set(result, start) ELSE result,
                None, [k \in 1 .. Slots - width + 1 |-> k - 1])

\* Digits of a word, most significant word and digit first.
Digits == WordBits \div DigitBits

ToHex(m) ==
  [k \in 1 .. Words * Digits |->
     LET word == m[Words - 1 - ((k - 1) \div Digits)]
         place == Digits - 1 - ((k - 1) % Digits)
     IN (word \div 2^(place * DigitBits)) % 2^DigitBits]

FromHex(hex) ==
  [i \in 0 .. Words - 1 |->
     LET first == (Words - 1 - i) * Digits
     IN FoldLeft(LAMBDA word, digit : word * 2^DigitBits + digit, 0, SubSeq(hex, first + 1, first + Digits))]

(***********************************************************************************)
(* The calls that change a mask.                                                   *)
(***********************************************************************************)
MaskInit == words = None /\ slots = {}

MaskSet(i) == words' = Set(words, i) /\ slots' = slots \cup ({i} \cap 0 .. Slots - 1)
MaskReset(i) == words' = Reset(words, i) /\ slots' = slots \ {i}
MaskAnd(count) == words' = Intersect(words, All(count)) /\ slots' = slots \cap 0 .. count - 1

MaskNext == \E i \in 0 .. Slots : MaskSet(i) \/ MaskReset(i) \/ MaskAnd(i)

MaskSpec == MaskInit /\ [][MaskNext]_maskVars

(***********************************************************************************)
(* Properties.                                                                     *)
(***********************************************************************************)
\* The mask a set of slots has.
MaskOf(s) == FoldSet(LAMBDA i, m : Set(m, i), None, s)

Agrees(m, s) ==
  /\ \A i \in 0 .. Slots : Test(m, i) <=> i \in s
  /\ Count(m) = Cardinality(s) /\ (IsEmpty(m) <=> s = {})
  /\ LowestSetBit(m) = {i \in s : \A j \in s : i <= j}
  /\ \A width \in 0 .. Slots + 1 :
       FirstSlotMask(m, width) = MaskOf({i \in s : width > 0 /\ i .. i + width - 1 \subseteq s})
  /\ \A count \in 0 .. Slots + 1 : IsSubsetOf(m, All(count)) <=> s \subseteq 0 .. count - 1
  /\ FromHex(ToHex(m)) = m

\* Whatever calls a mask has been through, words and sets agree, at word boundaries and at
\* the end of the spectrum too: membership, counting, the lowest slot, the places where a
\* channel of any width fits, inclusion in the slots of a spectrum of any size, and what is
\* left after printing and parsing.
MasksAgree == [][maskVars' # maskVars => Agrees(words', slots')]_maskVars
====================================================================================
