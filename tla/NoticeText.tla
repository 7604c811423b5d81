------------------------------ MODULE NoticeText ------------------------------
(***************************************************************************)
(* EncodeToUTF8: the texts of the notices, GB18030 in the source, become the   *)
(* UTF-8 of the messages.  First char2uni turns them into 16-bit units, one    *)
(* character a call, then utf8_wcstombs writes the bytes of each unit.  The    *)
(* texts hold characters of one and of two bytes; what char2uni does with      *)
(* characters of four bytes, or with illegal ones, they never reach.           *)
(***************************************************************************)
EXTENDS Integers, Sequences, FiniteSets

CONSTANTS
    Alphabet,          \* characters: their GB18030 bytes
    __twobyte_to_ucs,  \* the code of a two-byte character, by index
    MaxChars           \* bound: characters of a text

TwoByteIndex(ch, ch2) == (ch - 129) * 192 + (ch2 - 64)

\* The bytes of a text, and the 16-bit codes of its characters.
GBBytes   == 1 .. 254
CodeUnits == 1 .. 65535

ASSUME TextAssumption == Alphabet # {} /\ MaxChars \in Nat \ {0}

\* The characters char2uni takes in one byte, or in two that have a code.
ASSUME AlphabetAssumption ==
    \A ch \in Alphabet :
       /\ ch \in Seq(GBBytes)
       /\ \/ Len(ch) = 1 /\ ch[1] <= 127
          \/ /\ Len(ch) = 2 /\ ch[1] >= 129 /\ ch[2] >= 64
             /\ __twobyte_to_ucs[TwoByteIndex(ch[1], ch[2])] \in CodeUnits

VARIABLES
    text,    \* the characters of the text
    mbcs,    \* mbcsStr: its bytes
    pos,     \* iInputPos
    unis,    \* pwszBuffer
    done,    \* the units written
    utf8,    \* pszOutputBuffer
    maxlen   \* maxlen of utf8_wcstombs

textVars == <<text, mbcs, pos, unis, done, utf8, maxlen>>

-----------------------------------------------------------------------------
(* One character                                                           *)

\* The bytes a character takes and its unit, at position p of s.
char2uni(s, p) ==
    IF s[p] <= 127
    THEN [n |-> 1, uni |-> s[p]]
    ELSE [n |-> 2, uni |-> __twobyte_to_ucs[TwoByteIndex(s[p], s[p + 1])]]

\* The rows of utf8_table a 16-bit unit can reach: the greatest code of a
\* sequence of nc bytes, the leading byte, and the shift as a power of two.
lmask == <<127, 2047, 65535>>
cval  == <<0, 192, 224>>
shift == <<1, 64, 4096>>

RowOf(l) == IF l <= lmask[1] THEN 1 ELSE IF l <= lmask[2] THEN 2 ELSE 3

\* Mutant: the last six bits first.
utf8_wctomb_reversed(l) ==
    LET nc == RowOf(l)
    IN  [k \in 1 .. nc |->
            IF k = 1 THEN cval[nc] + (l \div shift[nc])
            ELSE 128 + ((l \div shift[k - 1]) % 64)]

utf8_wctomb(l) ==
    LET nc == RowOf(l)
    IN  [k \in 1 .. nc |->
            IF k = 1 THEN cval[nc] + (l \div shift[nc])
            ELSE 128 + ((l \div shift[nc - k + 1]) % 64)]

-----------------------------------------------------------------------------
(* EncodeToUTF8                                                            *)

ToUnit ==
    /\ pos <= Len(mbcs)
    /\ LET c == char2uni(mbcs, pos)
       IN  pos' = pos + c.n /\ unis' = Append(unis, c.uni)
    /\ UNCHANGED <<text, mbcs, done, utf8, maxlen>>

\* A unit up to 0x7f does not count against maxlen, and one that needs more
\* bytes than are left of it is dropped.
ToBytes ==
    /\ pos > Len(mbcs)
    /\ done < Len(unis) /\ maxlen > 0
    /\ LET bytes == utf8_wctomb(unis[done + 1])
           fits  == Len(bytes) = 1 \/ Len(bytes) <= maxlen
       IN  /\ utf8' = IF fits THEN utf8 \o bytes ELSE utf8
           /\ maxlen' = CASE Len(bytes) = 1 -> maxlen
                        [] Len(bytes) > 1 /\ fits -> maxlen - Len(bytes)
                        [] OTHER -> maxlen - 1
    /\ done' = done + 1
    /\ UNCHANGED <<text, mbcs, pos, unis>>

\* Mutant: the UTF-8 is taken to be as long as the GB18030 text.
SameLength(len) == len

iOutputLen(len) == 4 * len

\* Where the k-th character of the text t begins, and the text as one string.
At(t, k) == k + Cardinality({j \in 1 .. k - 1 : Len(t[j]) = 2})

BytesOf(t) ==
    [i \in 1 .. At(t, Len(t) + 1) - 1 |->
        LET k == CHOOSE k \in 1 .. Len(t) : At(t, k) <= i /\ i < At(t, k + 1)
        IN  t[k][i - At(t, k) + 1]]

TextInit ==
    /\ text \in UNION {[1 .. n -> Alphabet] : n \in 1 .. MaxChars}
    /\ mbcs = BytesOf(text) /\ maxlen = iOutputLen(Len(mbcs))
    /\ pos = 1 /\ unis = <<>> /\ done = 0 /\ utf8 = <<>>

TextNext == ToUnit \/ ToBytes

TextSpec == TextInit /\ [][TextNext]_textVars

-----------------------------------------------------------------------------
(* Reference: UTF-8 as its reader sees it                                 *)

\* A character begins at every byte that is not 10xxxxxx; its leading byte says
\* of how many bytes it is.
Leads(s) == {p \in 1 .. Len(s) : s[p] \notin 128 .. 191}

SizeOf(lead) == IF lead < 128 THEN 1 ELSE IF lead < 224 THEN 2 ELSE 3

Low(b) == b % 64

Value(s, p) ==
    CASE SizeOf(s[p]) = 1 -> s[p]
      [] SizeOf(s[p]) = 2 -> (s[p] % 32) * 64 + Low(s[p + 1])
      [] OTHER -> (s[p] % 16) * 4096 + Low(s[p + 1]) * 64 + Low(s[p + 2])

\* How many characters have begun at or before p.
Rank(s, p) == Cardinality({q \in Leads(s) : q <= p})

Finished == pos > Len(mbcs) /\ done = Len(unis)

\* The UTF-8 of a notice reads back as its characters, one by one and in order:
\* there are as many, each ends where the next begins (or with the string), and
\* the k-th has the code of the k-th character of the text.
TextReadsBack ==
    Finished =>
        /\ Cardinality(Leads(utf8)) = Len(text)
        /\ utf8[1] \notin 128 .. 191
        /\ \A p \in Leads(utf8) :
              /\ p + SizeOf(utf8[p]) \in Leads(utf8) \cup {Len(utf8) + 1}
              /\ \A i \in p + 1 .. p + SizeOf(utf8[p]) - 1 : i \notin Leads(utf8)
              /\ Value(utf8, p) = char2uni(text[Rank(utf8, p)], 1).uni

\* UTF8Utils.c:70: the length never exceeds four times that of the GB18030 text,
\* so that maxlen cuts nothing off and the units fit with their terminator.
LengthFits ==
    /\ pos > Len(mbcs) /\ done < Len(unis) =>
          maxlen >= Len(utf8_wctomb(unis[done + 1]))
    /\ Len(utf8) < 4 * Len(mbcs)
    /\ Len(unis) < 2 * Len(mbcs)
=============================================================================
