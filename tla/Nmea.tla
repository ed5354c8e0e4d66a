-------------------------------- MODULE Nmea --------------------------------
(***************************************************************************)
(* The parser of the GPS receiver's sentences (hardware/gps/minmea.c,      *)
(* hardware/include/hardware/minmea.h): minmea_scan with the conversions   *)
(* of its formats, the functions that call it for one kind of sentence     *)
(* each, and the checksum.                                                 *)
(*                                                                         *)
(* A sentence is its fields, the first one with the "$", and a tail: the   *)
(* checksum and the newline.  The pointers sentence and field are the      *)
(* number of the field, 0 for NULL.  A field is a sequence of characters.  *)
(***************************************************************************)
EXTENDS Integers, FiniteSets, SequencesExt

CONSTANTS
    Calls,       \* the calls looked at: [fn, fields, tail]
    IntBits,     \* the width of int and int_least32_t
    MaxLength    \* MINMEA_MAX_LENGTH

ASSUME CallsAssumption ==
    Calls \subseteq [fn : {"RMC", "GGA", "GSA", "GLL", "GST", "GSV", "VTG", "own"},
                     fields : Seq(Seq(STRING)) \ {<<>>}, tail : Seq(STRING)]
ASSUME BitsAssumption == IntBits \in 8 .. 32
ASSUME LengthAssumption == MaxLength \in Nat

IntMax == 2 ^ (IntBits - 1) - 1

\* An int after an overflow, as the machine has it.
Wrap(n) == ((n + IntMax + 1) % (2 ^ IntBits)) - IntMax - 1

-----------------------------------------------------------------------------
(***************************************************************************)
(* Characters.                                                             *)
(***************************************************************************)
Digits == <<"0", "1", "2", "3", "4", "5", "6", "7", "8", "9">>
Upper == <<"A", "B", "C", "D", "E", "F">>
Lower == <<"a", "b", "c", "d", "e", "f">>

\* The printable characters of ASCII, in their order.
Ascii ==
    <<" ", "!", "\"", "#", "$", "%", "&", "'", "(", ")", "*", "+", ",", "-", ".", "/",
      "0", "1", "2", "3", "4", "5", "6", "7", "8", "9", ":", ";", "<", "=", ">", "?",
      "@", "A", "B", "C", "D", "E", "F", "G", "H", "I", "J", "K", "L", "M", "N", "O",
      "P", "Q", "R", "S", "T", "U", "V", "W", "X", "Y", "Z", "[", "\\", "]", "^", "_",
      "backquote", "a", "b", "c", "d", "e", "f", "g", "h", "i", "j", "k", "l", "m", "n", "o",
      "p", "q", "r", "s", "t", "u", "v", "w", "x", "y", "z", "{", "|", "}", "~">>

Place(s, c) == CHOOSE i \in DOMAIN s : s[i] = c
Code == [c \in ToSet(Ascii) |-> 31 + Place(Ascii, c)]
Digit == [c \in ToSet(Digits) |-> Place(Digits, c) - 1]

isprint(c) == c \in DOMAIN Code
isdigit(c) == c \in DOMAIN Digit
At(s, i) == IF i \in DOMAIN s THEN s[i] ELSE "nul"

hex2int(c) ==
    IF isdigit(c) THEN Digit[c]
    ELSE IF c \in ToSet(Upper) THEN Place(Upper, c) - 1 + 10
    ELSE IF c \in ToSet(Lower) THEN Place(Lower, c) - 1 + 10
    ELSE -1

-----------------------------------------------------------------------------
(***************************************************************************)
(* minmea_check, of the characters of a sentence.                          *)
(***************************************************************************)
Text(s) ==
    LET upto[i \in 1 .. Len(s.fields)] ==
            IF i = 1 THEN s.fields[1] ELSE upto[i - 1] \o <<",">> \o s.fields[i]
    IN  upto[Len(s.fields)] \o s.tail

\* Where the loop over the body stops.
BodyEnd(t) ==
    CHOOSE e \in 2 .. Len(t) + 1 :
        /\ At(t, e) = "*" \/ ~isprint(At(t, e))
        /\ \A i \in 2 .. e - 1 : t[i] # "*" /\ isprint(t[i])

\* The bits of a byte.
Weight == <<1, 2, 4, 8, 16, 32, 64, 128>>
Bits(n) == {b \in 1 .. 8 : (n \div Weight[b]) % 2 = 1}

\* The exclusive-or of the characters has the bits that an odd number of them have.
minmea_checksum(body) ==
    {b \in 1 .. 8 : Cardinality({i \in DOMAIN body : b \in Bits(Code[body[i]])}) % 2 = 1}

\* Mutant: whatever follows the checksum is not looked at.
minmea_check_open(t, strict) ==
    LET e == BodyEnd(t)
        upper == hex2int(At(t, e + 1))
        lower == hex2int(At(t, e + 2))
    IN /\ Len(t) <= MaxLength + 3
       /\ At(t, 1) = "$"
       /\ IF At(t, e) = "*"
            THEN upper # -1 /\ lower # -1 /\ minmea_checksum(SubSeq(t, 2, e - 1)) = Bits(16 * upper + lower)
            ELSE ~strict

minmea_check(t, strict) ==
    LET e == BodyEnd(t)
        upper == hex2int(At(t, e + 1))
        lower == hex2int(At(t, e + 2))
        summed == At(t, e) = "*"
    IN /\ Len(t) <= MaxLength + 3
       /\ At(t, 1) = "$"
       /\ IF summed
            THEN upper # -1 /\ lower # -1 /\ minmea_checksum(SubSeq(t, 2, e - 1)) = Bits(16 * upper + lower)
            ELSE ~strict
       /\ SubSeq(t, IF summed THEN e + 3 ELSE e, Len(t)) \in {<<>>, <<"\n">>, <<"\r", "\n">>}

-----------------------------------------------------------------------------
(***************************************************************************)
(* The conversions.  A value carries the C type it is stored as; Error is  *)
(* the jump to parse_error.                                                *)
(***************************************************************************)
Error == <<"error">>
Stale == <<"stale">>    \* what was on the stack before

scan_c(f) == <<"char", At(f, 1)>>

scan_d(f) ==
    IF f = <<>> THEN <<"int", 0>>
    ELSE IF f[1] \in {"N", "E"} THEN <<"int", 1>>
    ELSE IF f[1] \in {"S", "W"} THEN <<"int", -1>>
    ELSE Error

(* 'f': the loop over the characters, with what stopped it. *)
Float == [stop |-> "no", sign |-> 0, value |-> -1, scale |-> 0]

\* Mutant: the test for an overflow forgets the digit.
Float_digit_late(s, d) ==
    LET v == IF s.value = -1 THEN 0 ELSE s.value IN
    IF v > IntMax \div 10
      THEN [s EXCEPT !.value = v, !.stop = IF s.scale # 0 THEN "cut" ELSE "error"]
      ELSE [s EXCEPT !.value = Wrap(10 * v + d), !.scale = Wrap(10 * @)]

Float_digit(s, d) ==
    LET v == IF s.value = -1 THEN 0 ELSE s.value IN
    IF v > (IntMax - d) \div 10
      THEN [s EXCEPT !.value = v, !.stop = IF s.scale # 0 THEN "cut" ELSE "error"]
      ELSE [s EXCEPT !.value = 10 * v + d, !.scale = Wrap(10 * @)]

Float_char(s, c) ==
    IF s.stop # "no" THEN s
    ELSE IF c \in {"+", "-"} /\ s.sign = 0 /\ s.value = -1
      THEN [s EXCEPT !.sign = IF c = "+" THEN 1 ELSE -1]
    ELSE IF isdigit(c) THEN Float_digit(s, Digit[c])
    ELSE IF c = "." /\ s.scale = 0 THEN [s EXCEPT !.scale = 1]
    ELSE IF c = " " /\ s = Float THEN s
    ELSE [s EXCEPT !.stop = "error"]

Float_loop(f) ==
    LET after[k \in 0 .. Len(f)] == IF k = 0 THEN Float ELSE Float_char(after[k - 1], f[k])
    IN  after[Len(f)]

scan_f(f) ==
    LET s == Float_loop(f) IN
    IF s.stop = "error" \/ (s.value = -1 /\ (s.sign # 0 \/ s.scale # 0)) THEN Error
    ELSE IF s.value = -1 THEN <<"float", 0, 0>>
    ELSE <<"float", IF s.sign = -1 THEN -s.value ELSE s.value, IF s.scale = 0 THEN 1 ELSE s.scale>>

\* The number a sequence of digits writes, in the width of an int.
Number(f) == FoldLeft(LAMBDA n, c : Wrap(10 * n + Digit[c]), 0, f)

\* 'i': strtol, whose end must be that of the field.
\* Beyond the width of a long strtol saturates: such numbers are left out.
scan_i(f) ==
    LET first == SelectInSeq(f, LAMBDA c : c # " ")
        signed == first # 0 /\ f[first] \in {"+", "-"}
        number == IF first = 0 THEN <<>> ELSE SubSeq(f, IF signed THEN first + 1 ELSE first, Len(f))
    IN IF f = <<>> THEN <<"int", 0>>
       ELSE IF number = <<>> \/ \E i \in DOMAIN number : ~isdigit(number[i]) THEN Error
       ELSE <<"int", IF signed /\ f[first] = "-" THEN Wrap(-Number(number)) ELSE Number(number)>>

scan_s(f) == <<"text", f>>

\* 't': a "$" and five characters of the first field.
scan_t(f) ==
    IF At(f, 1) # "$" \/ Len(f) < 6 THEN Error ELSE <<"text", SubSeq(f, 2, 6)>>

\* Two of six digits.
SixDigits(f) == Len(f) >= 6 /\ \A i \in 1 .. 6 : isdigit(f[i])
Pair(f, i) == 10 * Digit[f[i]] + Digit[f[i + 1]]

scan_D(f) ==
    IF f = <<>> THEN <<"date", -1, -1, -1>>
    ELSE IF ~SixDigits(f) THEN Error
    ELSE <<"date", Pair(f, 1), Pair(f, 3), Pair(f, 5)>>

\* 'T': the first six digits behind the point are the microseconds.
Microseconds(f) ==
    LET more == [i \in 1 .. 6 |-> At(f, 7 + i)]
        n == CHOOSE n \in 0 .. 6 : /\ \A i \in 1 .. n : isdigit(more[i])
                                   /\ n < 6 => ~isdigit(more[n + 1])
    IN IF At(f, 7) # "." THEN 0
       ELSE FoldLeft(LAMBDA v, i : v + (Digit[more[i]] * 10 ^ (6 - i)), 0, [i \in 1 .. n |-> i])

scan_T(f) ==
    IF f = <<>> THEN <<"time", -1, -1, -1, -1>>
    ELSE IF ~SixDigits(f) THEN Error
    ELSE <<"time", Pair(f, 1), Pair(f, 3), Pair(f, 5), Microseconds(f)>>

Scan(type, f) ==
    CASE type = "c" -> scan_c(f) [] type = "d" -> scan_d(f) [] type = "f" -> scan_f(f)
      [] type = "i" -> scan_i(f) [] type = "s" -> scan_s(f) [] type = "t" -> scan_t(f)
      [] type = "D" -> scan_D(f) [] type = "T" -> scan_T(f)

\* minmea_sentence_id, not strict.
minmea_sentence_id(s) ==
    IF ~minmea_check(Text(s), FALSE) \/ scan_t(s.fields[1]) = Error THEN <<"INVALID">>
    ELSE SubSeq(s.fields[1], 4, 6)

-----------------------------------------------------------------------------
(***************************************************************************)
(* The formats, and what is passed for each conversion: locals, and the    *)
(* members of the frame with the types minmea.h gives them.                *)
(***************************************************************************)
Format ==
    [RMC |-> <<"t", "T", "c", "f", "d", "f", "d", "f", "f", "D", "f", "d">>,
     GGA |-> <<"t", "T", "f", "d", "f", "d", "i", "i", "f", "f", "c", "f", "c", "i", "_">>,
     GSA |-> <<"t", "c", "i", "i", "i", "i", "i", "i", "i", "i", "i", "i", "i", "i", "i", "f", "f", "f">>,
     GLL |-> <<"t", "f", "d", "f", "d", "T", "c", ";", "c">>,
     GST |-> <<"t", "T", "f", "f", "f", "f", "f", "f", "f">>,
     GSV |-> <<"t", "i", "i", "i", ";", "i", "i", "i", "i", "i", "i", "i", "i", "i", "i", "i", "i", "i", "i", "i", "i">>,
     VTG |-> <<"t", "f", "c", "f", "c", "f", "c", "f", "c", ";", "c">>,
     own |-> <<"t", "f", "s">>]

Sats == <<"sats1", "sats2", "sats3", "sats4", "sats5", "sats6", "sats7", "sats8", "sats9",
          "sats10", "sats11", "sats12", "sats13", "sats14", "sats15", "sats16">>
Deviations == <<"rms", "semi_major", "semi_minor", "orientation", "latitude_error",
                "longitude_error", "altitude_error">>
Each(names, n, type) == [i \in 1 .. n |-> <<names[i], type>>]

Args ==
    [RMC |-> <<<<"type", "text">>, <<"time", "time">>, <<"validity", "char">>,
               <<"latitude", "float">>, <<"latitude_direction", "int">>,
               <<"longitude", "float">>, <<"longitude_direction", "int">>,
               <<"speed", "float">>, <<"course", "float">>, <<"date", "date">>,
               <<"variation", "float">>, <<"variation_direction", "int">>>>,
     GGA |-> <<<<"type", "text">>, <<"time", "time">>,
               <<"latitude", "float">>, <<"latitude_direction", "int">>,
               <<"longitude", "float">>, <<"longitude_direction", "int">>,
               <<"fix_quality", "int">>, <<"satellites_tracked", "int">>, <<"hdop", "float">>,
               <<"altitude", "float">>, <<"altitude_units", "char">>,
               <<"height", "float">>, <<"height_units", "char">>, <<"dgps_age", "int">>>>,
     GSA |-> <<<<"type", "text">>, <<"mode", "char">>, <<"fix_type", "int">>>>
             \o Each(Sats, 12, "int")
             \o <<<<"pdop", "float">>, <<"hdop", "float">>, <<"vdop", "float">>>>,
     GLL |-> <<<<"type", "text">>,
               <<"latitude", "float">>, <<"latitude_direction", "int">>,
               <<"longitude", "float">>, <<"longitude_direction", "int">>,
               <<"time", "time">>, <<"status", "char">>, <<"mode", "char">>>>,
     GST |-> <<<<"type", "text">>, <<"time", "time">>>> \o Each(Deviations, 7, "float"),
     GSV |-> <<<<"type", "text">>, <<"total_msgs", "int">>, <<"msg_nr", "int">>, <<"total_sats", "int">>>>
             \o Each(Sats, 16, "int"),
     VTG |-> <<<<"type", "text">>, <<"true_track_degrees", "float">>, <<"c_true", "char">>,
               <<"magnetic_track_degrees", "float">>, <<"c_magnetic", "char">>,
               <<"speed_knots", "float">>, <<"c_knots", "char">>,
               <<"speed_kph", "float">>, <<"c_kph", "char">>, <<"faa_mode", "char">>>>,
     own |-> <<<<"type", "text">>, <<"value", "float">>, <<"rest", "text">>>>]

Members(fn) == {Args[fn][i][1] : i \in DOMAIN Args[fn]}

VARIABLES
    call,        \* the function called and the sentence
    format,      \* the rest of the format
    ap,          \* the arguments not yet taken
    field,       \* the field the next conversion reads
    optional,    \* a ";" was seen
    frame,       \* the frame and the locals
    result       \* "none" until the function returns: "ok", "error"

scanning == <<call, format, ap, field, optional, frame, result>>

FrameTypes ==
    /\ call.fn \in DOMAIN Format /\ field \in 0 .. Len(call.fields) /\ optional \in BOOLEAN
    /\ DOMAIN frame = Members(call.fn)
    /\ result \in {"none", "ok", "error"}

ScanInit ==
    /\ call \in Calls
    /\ format = Format[call.fn] /\ ap = Args[call.fn]
    /\ field = 1 /\ optional = FALSE
    /\ frame = [m \in Members(call.fn) |-> Stale]
    /\ result = "none"

\* The text of the field; none, and an empty one, read the same.
FieldText == IF field = 0 THEN <<>> ELSE call.fields[field]
next_field == IF field \in 1 .. Len(call.fields) - 1 THEN field + 1 ELSE 0

Scanning == result = "none" /\ format # <<>>

\* Mutant: what is optional and missing is left alone.
scan_optional_stops ==
    /\ Scanning /\ Head(format) = ";"
    /\ optional' = TRUE
    /\ format' = IF field = 0 THEN <<>> ELSE Tail(format)
    /\ UNCHANGED <<call, ap, field, frame, result>>

scan_optional ==
    /\ Scanning /\ Head(format) = ";"
    /\ optional' = TRUE
    /\ format' = Tail(format)
    /\ UNCHANGED <<call, ap, field, frame, result>>

Misses == field = 0 /\ (~optional \/ Head(format) = "t")

scan_ignored ==
    /\ Scanning /\ Head(format) = "_" /\ ~Misses
    /\ format' = Tail(format)
    /\ field' = next_field
    /\ UNCHANGED <<call, ap, optional, frame, result>>

scan_convert ==
    /\ Scanning /\ Head(format) \notin {";", "_"} /\ ~Misses
    /\ LET v == Scan(Head(format), FieldText) IN
       IF v = Error
         THEN result' = "error" /\ UNCHANGED <<format, ap, field, frame>>
         ELSE /\ frame' = [frame EXCEPT ![Head(ap)[1]] = v]
              /\ ap' = Tail(ap)
              /\ format' = Tail(format)
              /\ field' = next_field
              /\ UNCHANGED result
    /\ UNCHANGED <<call, optional>>

scan_misses ==
    /\ Scanning /\ Head(format) # ";" /\ Misses
    /\ result' = "error"
    /\ UNCHANGED <<call, format, ap, field, optional, frame>>

(***************************************************************************)
(* What the parse functions do when minmea_scan has succeeded.             *)
(***************************************************************************)
Type(f) == SubSeq(f["type"][2], 3, 5)
TypeOf == [RMC |-> <<"R", "M", "C">>, GGA |-> <<"G", "G", "A">>, GSA |-> <<"G", "S", "A">>,
           GLL |-> <<"G", "L", "L">>, GST |-> <<"G", "S", "T">>, GSV |-> <<"G", "S", "V">>,
           VTG |-> <<"V", "T", "G">>]

\* value *= direction
Directed == [latitude |-> "latitude_direction", longitude |-> "longitude_direction",
             variation |-> "variation_direction"]

Turned(f) ==
    [m \in DOMAIN f |->
       IF m \in DOMAIN Directed /\ Directed[m] \in DOMAIN f
         THEN <<"float", f[m][2] * f[Directed[m]][2], f[m][3]>>
         ELSE f[m]]

Units == [c_true |-> "T", c_magnetic |-> "M", c_knots |-> "N", c_kph |-> "K"]

parse ==
    /\ result = "none" /\ format = <<>>
    /\ IF call.fn = "own" THEN result' = "ok" /\ UNCHANGED frame
       ELSE IF \/ Type(frame) # TypeOf[call.fn]
               \/ call.fn = "VTG" /\ \E u \in DOMAIN Units : frame[u][2] # Units[u]
         THEN result' = "error" /\ UNCHANGED frame
       ELSE result' = "ok" /\ frame' = Turned(frame)
    /\ UNCHANGED <<call, format, ap, field, optional>>

ScanNext == scan_optional \/ scan_ignored \/ scan_convert \/ scan_misses \/ parse

ScanSpec == ScanInit /\ [][ScanNext]_scanning

-----------------------------------------------------------------------------
(***************************************************************************)
(* Properties.                                                             *)
(***************************************************************************)
Mandatory(fn) ==
    CHOOSE n \in 0 .. Len(Format[fn]) :
        /\ \A i \in 1 .. n : Format[fn][i] # ";"
        /\ n < Len(Format[fn]) => Format[fn][n + 1] = ";"

\* A frame on the stack still holds the sentence before.  When a function
\* returns success, every member was written from this sentence, with a value
\* of the type its declaration has (the compiler checks no variadic argument);
\* the sentence was long enough, and of the kind that minmea_sentence_id,
\* which the driver asks first, saw in it.
FrameWhole ==
    /\ FrameTypes
    /\ result = "ok" =>
        /\ \A i \in DOMAIN Args[call.fn] : frame[Args[call.fn][i][1]][1] = Args[call.fn][i][2]
        /\ Len(call.fields) >= Mandatory(call.fn)
        /\ call.fn # "own" => minmea_sentence_id(call) \in {<<"INVALID">>, TypeOf[call.fn]}

(* The number a field writes, independently of the loop that reads it. *)
Rest(f) == LET i == SelectInSeq(f, LAMBDA c : c # " ") IN IF i = 0 THEN <<>> ELSE SubSeq(f, i, Len(f))

Next_digit(n, c) == IF isdigit(c) /\ n <= IntMax THEN 10 * n + Digit[c] ELSE n

\* The number its first n characters write, no longer exact once it is no int.
Capped(f, n) ==
    LET upto[k \in 0 .. Len(f)] ==
            IF k = 0 THEN 0 ELSE Next_digit(upto[k - 1], f[k])
    IN  upto[n]

\* As many characters as leave the number within an int.
Fitting(f) == CHOOSE n \in 0 .. Len(f) :
                /\ Capped(f, n) <= IntMax
                /\ n < Len(f) => Capped(f, n + 1) > IntMax

Where(f, C) == {i \in DOMAIN f : f[i] \in C}
Numerals == ToSet(Digits)
Decimals(f) == Cardinality({i \in Where(f, Numerals) : \E j \in Where(f, {"."}) : j < i})

IsNumber(f) ==
    /\ Where(f, Numerals \cup {"+", "-", "."}) = DOMAIN f
    /\ Where(f, Numerals) # {}
    /\ Cardinality(Where(f, {"."})) <= 1 /\ Cardinality(Where(f, {"+", "-"})) <= 1
    /\ \A i \in Where(f, {"+", "-"}) : \A j \in Where(f, Numerals) : i < j

\* What is to come of it.
Fraction(f) ==
    LET g == SubSeq(f, 1, Fitting(f))
        n == Capped(f, Fitting(f))
    IN IF f = <<>> THEN <<"float", 0, 0>>
       ELSE IF IsNumber(g) /\ (g = f \/ Where(g, {"."}) # {})
         THEN <<"float", IF "-" \in ToSet(g) THEN -n ELSE n, 10 ^ Decimals(g)>>
       ELSE Error

\* The scale, a power of ten, is an int: nothing in the loop tests it.
ScaleFits(f) ==
    LET d == Decimals(SubSeq(f, 1, Fitting(f))) IN d < 10 /\ 10 ^ d <= IntMax

\* A fraction is read as it is written, cut at the last decimal that still
\* fits an int, and what is no number, or has an integer part too large, is
\* refused.  This holds as long as its scale fits an int too, for the digits
\* are tested for an overflow and the scale is not.
FloatsExact ==
    call.fn = "own" /\ Len(call.fields) = 3 /\ scan_t(call.fields[1]) # Error /\ result # "none" =>
        LET f == Rest(call.fields[2]) IN
        ScaleFits(f) =>
            IF Fraction(f) = Error THEN result = "error"
            ELSE result = "ok" /\ frame["value"] = Fraction(f)

\* In the checksum, upper-case digits in the place of lower-case ones are the same.
SameDigit(c, d) == hex2int(c) # -1 /\ hex2int(c) = hex2int(d)

\* A sentence the strict check accepts is one it refuses when any one of its
\* characters is another, be it in the text, in the checksum, around it, or
\* the "*" itself.
DamageSeen ==
    call.fn = "own" /\ field = 1 /\ minmea_check(Text(call), TRUE) =>
        LET t == Text(call) IN
        \A i \in DOMAIN t : \A c \in ToSet(Ascii) \cup {"\n", "\r"} :
            c = t[i] \/ (i > BodyEnd(t) /\ SameDigit(c, t[i])) \/ ~minmea_check([t EXCEPT ![i] = c], TRUE)
=============================================================================
