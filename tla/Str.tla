--------------------------------- MODULE Str ---------------------------------
(***************************************************************************)
(* The string of framework/common/str.c: a buffer of characters with its   *)
(* length and its capacity in front of it.                                 *)
(*                                                                         *)
(* A string has two lengths that should agree: the one it keeps, and the   *)
(* position of the first '\0', which the C functions that str.c calls on   *)
(* it (strlen, strstr, strcpy) go by.  Reading or writing behind the       *)
(* buffer, which C leaves undefined, is the state in which str is Wild.    *)
(***************************************************************************)
EXTENDS Naturals, Sequences, FiniteSetsExt

CONSTANTS
    Char,     \* the characters
    Blank,    \* those str_trim drops
    NUL,      \* '\0'
    DEFAULT_STRING_LEN,
    MaxLen,   \* bound: lengths
    MaxArg    \* bound: lengths of the C strings passed

ASSUME CharAssumption == NUL \notin Char /\ Blank \subseteq Char
ASSUME BoundAssumption == {DEFAULT_STRING_LEN, MaxLen, MaxArg} \subseteq Nat

VARIABLES
    str    \* the string: [buf, length, capacity], or Wild

CStr(n) == UNION {[1 .. m -> Char] : m \in 0 .. n}
Arg == CStr(MaxArg)

Wild == [buf |-> <<>>, length |-> 0, capacity |-> 0]

(***************************************************************************)
(* The buffer: cells 0 .. capacity                                         *)
(***************************************************************************)

Larger(m, n) == IF m < n THEN n ELSE m

str_new__len(len) ==
    LET cap == Larger(len, DEFAULT_STRING_LEN) IN
    [buf |-> [k \in 0 .. cap |-> NUL], length |-> 0, capacity |-> cap]

\* memcpy(str + at, text, Len(text))
MemCpy(s, at, text) ==
    [s EXCEPT !.buf = [k \in DOMAIN @ |-> IF k - at + 1 \in DOMAIN text THEN text[k - at + 1] ELSE @[k]]]

\* Bytes m .. n - 1 of the buffer.
Bytes(s, m, n) == [k \in 1 .. n - m |-> s.buf[m + k - 1]]

\* What strlen and the functions that stop at a '\0' see from position m on.
StrLen(s, m) == Min({k \in m .. s.capacity : s.buf[k] = NUL}) - m
Seen(s, m) == Bytes(s, m, m + StrLen(s, m))

\* Mutant: a string one too short is large enough.
str_realloc_short(s, size) ==
    IF s.capacity + 1 < size
    THEN [MemCpy(str_new__len(size), 0, Bytes(s, 0, s.length)) EXCEPT !.length = s.length]
    ELSE s

str_realloc(s, size) ==
    IF s.capacity < size
    THEN [MemCpy(str_new__len(size), 0, Bytes(s, 0, s.length)) EXCEPT !.length = s.length]
    ELSE s

str_resize(s, size) ==
    LET r == IF size > s.capacity THEN str_realloc(s, size) ELSE s
    IN  [r EXCEPT !.buf[size] = NUL, !.length = size]

str_new__cstr(c) == str_resize(MemCpy(str_new__len(Len(c)), 0, c), Len(c))

\* At most len characters of what is seen from position m on.
str_new__cstr2(s, m, len) ==
    LET c == Seen(s, m) IN str_new__cstr(SubSeq(c, 1, IF len < Len(c) THEN len ELSE Len(c)))

(***************************************************************************)
(* Functions that read                                                     *)
(***************************************************************************)

\* strstr(str + m, sub): the position found, or capacity + 1 for NULL.
StrStr(s, m, sub) ==
    Min({k \in m .. m + StrLen(s, m) : k + Len(sub) <= m + StrLen(s, m) /\ Bytes(s, k, k + Len(sub)) = sub}
        \cup {s.capacity + 1})

\* What strstr gives, called again and again behind what it found: a position, until
\* it gives NULL.
Finds(s, sub) ==
    LET found[i \in 0 .. s.capacity + 1] ==
            IF i = 0 THEN StrStr(s, 0, sub)
            ELSE LET last == found[i - 1] IN IF last > s.capacity THEN last ELSE StrStr(s, last + Len(sub), sub)
    IN  found

str_count(s, sub) ==
    LET found == Finds(s, sub)
    IN  IF sub = <<>> THEN 0 ELSE Min({i \in DOMAIN found : found[i] > s.capacity})

\* Mutant: the next piece starts one character after the separator was found.
str_split_next(s, sep) ==
    LET found == Finds(s, sep)
        End(i) == IF found[i - 1] > s.capacity THEN s.length ELSE found[i - 1]
        Start(i) == IF i = 1 THEN 0 ELSE End(i - 1) + 1
    IN  [i \in 1 .. str_count(s, sep) + 1 |-> str_new__cstr2(s, Start(i), End(i) - Start(i))]

\* The last piece ends at the length the string keeps.
str_split(s, sep) ==
    LET found == Finds(s, sep)
        End(i) == IF found[i - 1] > s.capacity THEN s.length ELSE found[i - 1]
        Start(i) == IF i = 1 THEN 0 ELSE End(i - 1) + Len(sep)
    IN  [i \in 1 .. str_count(s, sep) + 1 |-> str_new__cstr2(s, Start(i), End(i) - Start(i))]

(***************************************************************************)
(* Operations                                                              *)
(***************************************************************************)

StrInit == str = str_new__len(DEFAULT_STRING_LEN)

Sound == str # Wild

\* str_new__cstr of another string, str_copy over this one.
str_copy(c) == Sound /\ str' = MemCpy(str_resize(str, Len(c)), 0, c)

str_erase == Sound /\ str' = [str EXCEPT !.length = 0, !.buf[0] = NUL]

\* By a caller: to cut the string.  Longer than the text, it would leave a '\0' inside
\* the length, and the two lengths would no longer agree.
resize(n) ==
    /\ Sound /\ n <= str.length
    /\ str' = str_resize(str, n)

\* strcpy writes a '\0' behind what it copies.
str_append(c) ==
    /\ Sound /\ str.length + Len(c) <= MaxLen
    /\ str' = MemCpy(str_resize(str, str.length + Len(c)), str.length, Append(c, NUL))

str_prepend(c) ==
    /\ Sound /\ str.length + Len(c) <= MaxLen
    /\ LET new == str_new__len(str.length + Len(c)) IN
       str' = str_resize(MemCpy(MemCpy(new, 0, c), Len(c), Bytes(str, 0, str.length)), str.length + Len(c))

str_insert(i, c) ==
    /\ Sound /\ i <= str.length /\ str.length + Len(c) <= MaxLen
    /\ LET new == MemCpy(MemCpy(str_new__len(str.length + Len(c)), 0, Bytes(str, 0, i)), i, c)
       IN  str' = str_resize(MemCpy(new, i + Len(c), Bytes(str, i, str.length)), str.length + Len(c))

\* '\0' counts as blank: the search for the first character does not stop at the
\* end of the string, and the word ends at the first blank.
str_trim ==
    /\ Sound
    /\ LET kept == {k \in 0 .. str.capacity : str.buf[k] \notin Blank \cup {NUL}}
           first == Min(kept)
           last == Min({k \in first .. str.capacity : str.buf[k] \in Blank \cup {NUL}})
           new == str_new__len(str.length)
       IN  str' = IF kept = {} \/ last - first > new.capacity THEN Wild
                  ELSE str_resize(MemCpy(new, 0, Bytes(str, first, last)), last - first)

\* Mutant: room for the replacement is looked for one character too far.
Joined_room(pieces, rep, size) ==
    LET text[i \in 0 .. Len(pieces)] ==
            IF i = 0 THEN <<>>
            ELSE LET t == text[i - 1] \o Bytes(pieces[i], 0, pieces[i].length)
                 IN  IF Len(t) <= size THEN t \o rep ELSE t
    IN  text[Len(pieces)]

\* The pieces with rep behind each, as long as there is room.
Joined(pieces, rep, size) ==
    LET text[i \in 0 .. Len(pieces)] ==
            IF i = 0 THEN <<>>
            ELSE LET t == text[i - 1] \o Bytes(pieces[i], 0, pieces[i].length)
                 IN  IF Len(t) < size THEN t \o rep ELSE t
    IN  text[Len(pieces)]

str_replace(sub, rep) ==
    LET num == str_count(str, sub)
        size == str.length + Len(rep) * num - Len(sub) * num
        text == Joined(str_split(str, sub), rep, size)
        new == str_resize(str, size)
    IN  /\ Sound /\ size <= MaxLen
        /\ str' = IF Len(text) > new.capacity + 1 THEN Wild ELSE MemCpy(new, 0, text)

StrNext ==
    \/ \E c \in Arg : str_copy(c)
    \/ str_erase
    \/ \E n \in 0 .. MaxLen : resize(n)
    \/ \E c \in Arg : str_append(c)
    \/ \E c \in Arg : str_prepend(c)
    \/ \E i \in 0 .. MaxLen, c \in Arg : str_insert(i, c)
    \/ str_trim
    \/ \E sub, rep \in Arg : sub # <<>> /\ str_replace(sub, rep)

StrSpec == StrInit /\ [][StrNext]_str

(***************************************************************************)
(* Properties                                                              *)
(***************************************************************************)

InBuffer ==
    Sound =>
        /\ DOMAIN str.buf = 0 .. str.capacity /\ str.capacity >= DEFAULT_STRING_LEN
        /\ \A k \in 0 .. str.capacity : str.buf[k] \in Char \cup {NUL}
        /\ str.length \in 0 .. str.capacity

\* A string stays inside the buffer it has, terminator included, and the length it keeps
\* is the one that strlen finds, so the functions that go by the one and those that go by
\* the other mean the same text (str.c:158-350).
WellFormed == InBuffer /\ (Sound => StrLen(str, 0) = str.length)

\* Taking a string apart and putting it together again gives it back, for every
\* separator (str.c:158-198).
SplitJoins ==
    Sound => \A sep \in Arg \ {<<>>} :
        Joined(str_split(str, sep), sep, str.length) = Bytes(str, 0, str.length)

Contents == IF Sound THEN Bytes(str, 0, str.length) ELSE <<>>

Seqs == INSTANCE StrSeq WITH val <- Contents

\* Trimming a string that is all blank looks behind its end.
Overrun == (\A k \in DOMAIN Contents : Contents[k] \in Blank) /\ str_trim

\* Where the C is defined, a string is a sequence of characters and each operation
\* does to it what its name says (str.c:93-350).
ValueSpec == [][Sound /\ ~Overrun => Sound' /\ Seqs!Next]_str
=============================================================================
