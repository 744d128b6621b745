------------------------------ MODULE Versions ------------------------------
(***************************************************************************)
(* Comparing versions: pmb/parse/version.py, after version.c of apk-tools. *)
(* A version string is the sequence of its symbols: digits, letters, ".",  *)
(* "_", "-r" and the names of the suffixes.                                *)
(***************************************************************************)
EXTENDS Integers, Sequences, SequencesExt

INVALID       == -1
DIGIT_OR_ZERO == 0
DIGIT         == 1
LETTER        == 2
SUFFIX        == 3
SUFFIX_NO     == 4
REVISION_NO   == 5
END           == 6

DigitSymbols == <<"0", "1", "2", "3", "4", "5", "6", "7", "8", "9">>
Letters      == <<"a", "b", "c">>
Pre          == <<"alpha", "beta", "pre", "rc">>
Post         == <<"cvs", "svn", "git", "hg", "p">>

IsDigit(c)    == Contains(DigitSymbols, c)
IsLower(c)    == Contains(Letters \o Pre \o Post, c)
PositionOf(c, s) == CHOOSE i \in DOMAIN s : s[i] = c

(* What follows the token before without a mark, or with ".", "_" or "-".   *)
PlainToken(previous, rest) ==
    CASE rest = <<>> -> END
      [] rest # <<>> /\ previous \in {DIGIT, DIGIT_OR_ZERO} /\ IsLower(Head(rest)) -> LETTER
      [] rest # <<>> /\ previous = LETTER /\ IsDigit(Head(rest)) -> DIGIT
      [] rest # <<>> /\ previous = SUFFIX /\ IsDigit(Head(rest)) -> SUFFIX_NO
      [] OTHER -> INVALID
MarkedToken(c) ==
    CASE c = "."  -> DIGIT_OR_ZERO
      [] c = "_"  -> SUFFIX
      [] c = "-r" -> REVISION_NO
      [] OTHER    -> INVALID

Allowed(previous, token) ==
    IF \/ token >= previous
       \/ token = DIGIT_OR_ZERO /\ previous = DIGIT
       \/ token = SUFFIX /\ previous = SUFFIX_NO
       \/ token = DIGIT /\ previous = LETTER
    THEN token ELSE INVALID

NextToken(previous, rest) ==
    IF PlainToken(previous, rest) # INVALID
    THEN << Allowed(previous, PlainToken(previous, rest)), rest >>
    ELSE << Allowed(previous, MarkedToken(Head(rest))), Tail(rest) >>

(* The first symbols of rest that are in the set.                           *)
Leading(rest, set) ==
    LET fits == {n \in 0..Len(rest) : \A i \in 1..n : rest[i] \in set}
    IN  SubSeq(rest, 1, CHOOSE n \in fits : \A m \in fits : m <= n)

DigitsValue(digits) ==
    FoldLeft(LAMBDA v, c : 10 * v + PositionOf(c, DigitSymbols) - 1, 0, digits)

IsSuffixName(c)   == Contains(Pre \o Post, c)
SuffixValue(c) == IF Contains(Pre, c) THEN PositionOf(c, Pre) - 1 - Len(Pre)
                  ELSE PositionOf(c, Post) - 1

(* The value of the current token and what comes after it:                  *)
(* <<next token, value, rest>>.                                             *)
GetToken(previous, rest) ==
    LET zeros  == Leading(rest, {"0"})
        digits == Leading(rest, ToSet(DigitSymbols))
        After(n) == SubSeq(rest, n + 1, Len(rest))
        Entry(next, value) == <<next[1], value, next[2]>>
        Then(value, left)  == Entry(NextToken(previous, left), value)
    IN  CASE rest = <<>> -> <<END, 0, rest>>
          [] rest # <<>> /\ previous = DIGIT_OR_ZERO /\ zeros # <<>> ->
               << IF After(Len(zeros)) = <<>> THEN END ELSE DIGIT, -Len(zeros), After(Len(zeros)) >>
          [] rest # <<>> /\ \/ previous \in {DIGIT, SUFFIX_NO, REVISION_NO}
                            \/ previous = DIGIT_OR_ZERO /\ zeros = <<>> ->
               Then(DigitsValue(digits), After(Len(digits)))
          [] rest # <<>> /\ previous = LETTER ->
               Then(IF Contains(Letters, rest[1]) THEN 96 + PositionOf(rest[1], Letters) ELSE 0, After(1))
          [] rest # <<>> /\ previous = SUFFIX ->
               IF IsSuffixName(rest[1]) THEN Then(SuffixValue(rest[1]), After(1)) ELSE <<INVALID, 0, rest>>
          [] OTHER -> <<INVALID, -1, rest>>

Tokens == INVALID..END

ValidFrom[token \in Tokens, rest \in Seq(STRING)] ==
    LET next == GetToken(token, rest)
    IN  IF token = END THEN TRUE ELSE next[1] # INVALID /\ ValidFrom[next[1], next[3]]

Validate(version) == ValidFrom[DIGIT, version]

Sign(a, b) == IF a < b THEN -1 ELSE IF a > b THEN 1 ELSE 0

(* a and b are the tokens behind which both versions are equal so far.      *)
CompareFrom[token \in Tokens, arest \in Seq(STRING), brest \in Seq(STRING)] ==
    LET pre(t)   == t[1] = SUFFIX /\ GetToken(SUFFIX, t[3])[2] < 0
        after(t) == IF t[1] = SUFFIX THEN GetToken(SUFFIX, t[3])[1] ELSE t[1]
        Decide(a, b) ==
            CASE a[2] # b[2]                -> Sign(a[2], b[2])
              [] a[2] = b[2] /\ a[1] = b[1] -> IF a[1] \in {END, INVALID} THEN 0
                                               ELSE CompareFrom[a[1], a[3], b[3]]
              [] OTHER -> IF pre(a) THEN -1 ELSE IF pre(b) THEN 1
                          ELSE Sign(after(b), after(a))
    IN  Decide(GetToken(token, arest), GetToken(token, brest))

Compare(a, b) == CompareFrom[DIGIT, a, b]

(* A kernel configuration rule like ">=5.10" or "<6.1".                     *)
CheckString(version, op, limit) ==
    CASE op = ">=" -> Compare(version, limit) \in {0, 1}
      [] op = "<"  -> Compare(version, limit) = -1

-----------------------------------------------------------------------------
(* The reference: what a version means.  nums are the dotted numbers,       *)
(* letter is 0 for none, suffixes are <<name, number>> with -1 for no       *)
(* number, rev is -1 for none.                                              *)

NumberSymbols(n) == IF n < 10 THEN <<DigitSymbols[n + 1]>>
                    ELSE <<DigitSymbols[(n \div 10) + 1], DigitSymbols[(n % 10) + 1]>>

Symbols(v) ==
    LET dotted == FlattenSeq([i \in 1..Len(v.nums) - 1 |-> <<".">> \o NumberSymbols(v.nums[i + 1])])
        suffix == FlattenSeq([i \in DOMAIN v.suffixes |->
                     <<"_", v.suffixes[i][1]>>
                       \o (IF v.suffixes[i][2] = -1 THEN <<>> ELSE NumberSymbols(v.suffixes[i][2]))])
    IN  NumberSymbols(v.nums[1]) \o dotted
          \o (IF v.letter = 0 THEN <<>> ELSE <<Letters[v.letter]>>)
          \o suffix
          \o (IF v.rev = -1 THEN <<>> ELSE <<"-r">> \o NumberSymbols(v.rev))

(* The first position where a and b differ decides; beyond the end of one,  *)
(* what follows is higher than nothing, unless it is a pre-release.         *)
Lexicographic(a, b) ==
    LET Absent(x) == IF x < 0 THEN -1 ELSE 1
        n  == IF Len(a) < Len(b) THEN Len(a) ELSE Len(b)
        differ == {i \in 1..n : a[i] # b[i]}
        first  == CHOOSE i \in differ : \A j \in differ : i <= j
    IN  CASE differ # {}     -> Sign(a[first], b[first])
          [] differ = {} /\ Len(a) > Len(b) -> Absent(a[n + 1])
          [] differ = {} /\ Len(a) < Len(b) -> -Absent(b[n + 1])
          [] OTHER -> 0

SuffixRanks(v) == FlattenSeq([i \in DOMAIN v.suffixes |->
                      <<SuffixValue(v.suffixes[i][1]), v.suffixes[i][2]>>])

(* Numbers first, then the letter, then the suffixes, a pre-release before  *)
(* the release and a post-release after it, then the revision.              *)
Meaning(a, b) ==
    LET parts == << Lexicographic(a.nums, b.nums),
                    Sign(a.letter, b.letter),
                    Lexicographic(SuffixRanks(a), SuffixRanks(b)),
                    Sign(a.rev, b.rev) >>
        differ == {i \in DOMAIN parts : parts[i] # 0}
    IN  IF differ = {} THEN 0 ELSE parts[CHOOSE i \in differ : \A j \in differ : i <= j]

(* Where version.py is known to differ: a post-release without a number     *)
(* equals the release, and a version that ends in ".0" is lower than its    *)
(* own pre-releases.                                                        *)
Numbered(v) == \A i \in DOMAIN v.suffixes : v.suffixes[i][2] = -1 =>
                  SuffixValue(v.suffixes[i][1]) < 0 /\ i = Len(v.suffixes)
EndsInZero(v) == Len(v.nums) > 1 /\ Last(v.nums) = 0 /\ v.letter = 0 /\ v.suffixes = <<>> /\ v.rev = -1
PreReleaseOf(a, b) == /\ a.nums = b.nums /\ a.letter = b.letter
                      /\ a.suffixes # <<>> /\ SuffixValue(a.suffixes[1][1]) < 0
Regular(a, b) == /\ Numbered(a) /\ Numbered(b)
                 /\ ~(EndsInZero(b) /\ PreReleaseOf(a, b))
                 /\ ~(EndsInZero(a) /\ PreReleaseOf(b, a))
=============================================================================
