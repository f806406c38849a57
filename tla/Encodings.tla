------------------------------ MODULE Encodings ------------------------------
(***************************************************************************)
(* util-src/encodings.c: base64, the check for UTF-8, and the calls of     *)
(* stringprep and IDNA.  The functions are pure; the state is an input     *)
(* that grows by one symbol per step, so that every input up to a bound is *)
(* met.  They are compared with definitions that do not look at the code:  *)
(* the bit string of RFC 4648, and Table 3-7 of the Unicode standard.      *)
(***************************************************************************)
EXTENDS Integers, SequencesExt

CONSTANTS EncBytes,    \* byte values given to the encoder
          EncChars,    \* characters given to the decoder, see below
          UtfBytes,    \* byte values of strings checked for UTF-8
          EncBound,    \* kind of input -> its length
          PrepBuffer   \* size of the buffers of the stringprep functions

VARIABLES kind,        \* "bytes", "chars", "utf8" or "names"
          input

encVars == <<kind, input>>

(* Bytes are those of an unsigned char, characters of base64 are as below.  *)
ASSUME EncAssumption ==
    /\ EncBytes \subseteq 0..255 /\ UtfBytes \subseteq 0..255 /\ EncChars \subseteq 0..67
    /\ PrepBuffer \in Nat

(* A base64 character is its index in "code", or one of these. *)
Pad == 64
Blank == 65
Nul == 66
Bad == 67
-----------------------------------------------------------------------------
base64_encode(c1, c2, c3, n) ==
    LET tuple == c3 + 256 * (c2 + 256 * c1)
    IN  [i \in 1..4 |-> IF i > n + 1 THEN Pad ELSE tuple \div <<262144, 4096, 64, 1>>[i] % 64]

Lbase64_encode(s) ==
    LET l == Len(s)
    IN  FlattenSeq([g \in 1..(l \div 3) |-> base64_encode(s[3*g - 2], s[3*g - 1], s[3*g], 3)])
        \o IF l % 3 = 1 THEN base64_encode(s[l], 0, 0, 1)
           ELSE IF l % 3 = 2 THEN base64_encode(s[l - 1], s[l], 0, 2)
           ELSE <<>>

(* One byte less than the characters collected in t. *)
base64_decode(t) ==
    LET At(i) == IF i <= Len(t) THEN t[i] ELSE 0
        tuple == At(4) + 64 * (At(3) + 64 * (At(2) + 64 * At(1)))
    IN  [i \in 1..Len(t) - 1 |-> tuple \div <<65536, 256, 1>>[i] % 256]

(* One turn of the loop; "end" stops it, as does "no", which returns nothing. *)
Mut_DecodeStep(d, c) ==
    IF d.is # "on" \/ c = Blank THEN d
    ELSE IF c = Nul THEN [d EXCEPT !.is = "end"]
    ELSE IF c = Bad THEN [d EXCEPT !.is = "no"]
    ELSE IF c = Pad THEN [d EXCEPT !.out = d.out \o base64_decode(d.t)]
    ELSE IF Len(d.t) = 3 THEN [d EXCEPT !.out = d.out \o base64_decode(Append(d.t, c)), !.t = <<>>]
    ELSE [d EXCEPT !.t = Append(d.t, c)]
DecodeStep(d, c) ==
    IF d.is # "on" \/ c = Blank THEN d
    ELSE IF c = Nul THEN [d EXCEPT !.is = "end"]
    ELSE IF c = Bad THEN [d EXCEPT !.is = "no"]
    ELSE IF c = Pad THEN [d EXCEPT !.out = d.out \o base64_decode(d.t), !.t = <<>>]
    ELSE IF Len(d.t) = 3 THEN [d EXCEPT !.out = d.out \o base64_decode(Append(d.t, c)), !.t = <<>>]
    ELSE [d EXCEPT !.t = Append(d.t, c)]

Nil == [ok |-> FALSE]

(* The string ends with a NUL of its own. *)
Lbase64_decode(s) ==
    LET text == Append(s, Nul)
        d[i \in 0..Len(text)] == IF i = 0 THEN [is |-> "on", out |-> <<>>, t |-> <<>>]
                                 ELSE DecodeStep(d[i - 1], text[i])
        last == d[Len(text)]
    IN  IF last.is = "end" THEN [ok |-> TRUE, out |-> last.out] ELSE Nil
-----------------------------------------------------------------------------
(* UTF-8.  s ends with the NUL that Lua puts after a string; what is behind *)
(* it could be anything, for instance a continuation byte.                  *)
Byte(s, i) == IF i <= Len(s) THEN s[i] ELSE 128
IsContinuation(b) == b \div 64 = 2
Bits == <<64, 32, 16, 8, 4, 2, 1>>
Continuations(c) == Min({k \in 0..6 : c \div Bits[k + 1] % 2 = 0} \cup {7})
limits == <<255, 127, 2047, 65535>>

(* The continuation bytes from pos on, six bits of each. *)
Sextets(s, pos, count) ==
    LET res[i \in 0..count] ==
            IF i = 0 THEN 0 ELSE 64 * res[i - 1] + (Byte(s, pos + i) % 64)
    IN  res[count]

(* The first byte, moved by one bit in each turn and then by five for each  *)
(* byte read.  A count above 3 is refused, so that what the shift by 35     *)
(* bits gives for it does not matter.                                       *)
FirstByte(c, count) == ((c * <<1, 2, 4, 8>>[count + 1]) % 128) * <<1, 32, 1024, 32768>>[count + 1]

(* Position after the sequence at pos, 0 if it is invalid, and how far it   *)
(* was read.                                                                *)
Mut_utf8_decode(s, pos) ==
    LET c == Byte(s, pos)
        count == Continuations(c)
        wrong == {i \in 1..count : ~IsContinuation(Byte(s, pos + i))}
        val == Sextets(s, pos, count) + FirstByte(c, count)
        bad == count > 3 \/ val > 1114111
    IN  IF c < 128 THEN [next |-> pos + 1, read |-> pos]
        ELSE IF wrong # {} THEN [next |-> 0, read |-> pos + Min(wrong)]
        ELSE [next |-> IF bad THEN 0 ELSE pos + count + 1, read |-> pos + count]
utf8_decode(s, pos) ==
    LET c == Byte(s, pos)
        count == Continuations(c)
        wrong == {i \in 1..count : ~IsContinuation(Byte(s, pos + i))}
        val == Sextets(s, pos, count) + FirstByte(c, count)
        bad == count > 3 \/ val > 1114111 \/ val <= limits[count + 1] \/ (55296 <= val /\ val <= 57343)
    IN  IF c < 128 THEN [next |-> pos + 1, read |-> pos]
        ELSE IF wrong # {} THEN [next |-> 0, read |-> pos + Min(wrong)]
        ELSE [next |-> IF bad THEN 0 ELSE pos + count + 1, read |-> pos + count]

(* The loop runs over the terminating NUL as well. *)
check_utf8(s) ==
    LET t == Append(s, 0)
        valid[pos \in 1..Len(t) + 4] ==
            \/ pos > Len(t)
            \/ LET d == utf8_decode(t, pos) IN d.next # 0 /\ valid[d.next]
    IN  valid[1]
-----------------------------------------------------------------------------
(* Names.  What a profile does to a character: keeps it, drops it, makes    *)
(* two of it, or forbids it; "nul" is a NUL inside the string, "inv" is not *)
(* UTF-8, and "ace" is a label in its ASCII form, which is kept.            *)
NameChars == {"keep", "drop", "two", "ban", "nul", "inv", "ace"}
PrepChar(c) == CASE c = "drop" -> <<>> [] c = "two" -> <<"t1", "t2">> [] OTHER -> <<c>>
Prep(s) == FlattenSeq([i \in DOMAIN s |-> PrepChar(s[i])])
Until(s, c) == SelectInSeq(s, LAMBDA x : x = c)
CString(s) == IF Contains(s, "nul") THEN SubSeq(s, 1, Until(s, "nul") - 1) ELSE s

(* The conversion of to_unicode: of a label in its ASCII form it makes the  *)
(* characters it stands for, which take more bytes, and it leaves alone     *)
(* what it cannot convert.                                                  *)
UnicodeChar(c) == IF c = "ace" THEN <<"u1", "u2">> ELSE <<c>>
ToUnicode(s) == FlattenSeq([i \in DOMAIN s |-> UnicodeChar(s[i])])

(* libidn: stringprep works in the buffer, and says when it is too small.   *)
Mut_stringprep_prep(s) ==
    IF Contains(s, "inv") \/ Len(s) >= PrepBuffer \/ Contains(CString(s), "ban")
       \/ Len(Prep(CString(s))) >= PrepBuffer
    THEN Nil ELSE [ok |-> TRUE, out |-> Prep(CString(s))]
stringprep_prep(s) ==
    IF Contains(s, "inv") \/ Len(s) >= PrepBuffer \/ Contains(s, "nul") \/ Contains(s, "ban")
       \/ Len(Prep(s)) >= PrepBuffer
    THEN Nil ELSE [ok |-> TRUE, out |-> Prep(s)]

(* ICU: it is told lengths, and a NUL is a character like others. *)
icu_stringprep_prep(s) ==
    IF Len(s) >= PrepBuffer \/ Contains(s, "inv") \/ Contains(s, "ban") \/ Len(Prep(s)) >= PrepBuffer
    THEN Nil ELSE [ok |-> TRUE, out |-> Prep(s)]

(* IDNA, first as compiled with libidn, then with ICU.  The rules asked for *)
(* do not let a NUL into an ASCII name; what has to be encoded in one gets  *)
(* longer, as what a profile makes two of.                                  *)
Lidna_to_ascii(s) ==
    IF Contains(s, "inv") \/ Contains(s, "nul") \/ Contains(s, "ban")
    THEN Nil ELSE [ok |-> TRUE, out |-> Prep(s)]

(* The answers there may be.  libidn sees the string up to its first NUL,   *)
(* and nobody looked whether that is UTF-8: for what is not, libidn, which  *)
(* does not validate it either (encodings.c:169), may answer anything.      *)
Garbled == <<"inv">>
Lidna_to_unicode(s) ==
    IF Contains(CString(s), "inv") THEN {Nil, [ok |-> TRUE, out |-> Garbled]}
    ELSE {[ok |-> TRUE, out |-> ToUnicode(CString(s))]}

icu_to_ascii(s) ==
    IF Len(s) > PrepBuffer \/ Contains(s, "inv") \/ Contains(s, "nul") \/ Contains(s, "ban")
       \/ Len(Prep(s)) >= PrepBuffer
    THEN Nil ELSE [ok |-> TRUE, out |-> Prep(s)]

icu_to_unicode(s) ==
    IF Len(s) > PrepBuffer \/ Contains(s, "inv") \/ Len(ToUnicode(s)) >= PrepBuffer
    THEN Nil ELSE [ok |-> TRUE, out |-> ToUnicode(s)]
-----------------------------------------------------------------------------
Alphabet ==
    [bytes |-> EncBytes, chars |-> EncChars, utf8 |-> UtfBytes, names |-> NameChars]

EncInit == kind \in DOMAIN EncBound /\ input = <<>>
Extend ==
    /\ Len(input) < EncBound[kind]
    /\ \E x \in Alphabet[kind] : input' = Append(input, x)
    /\ UNCHANGED kind
EncSpec == EncInit /\ [][Extend]_encVars
-----------------------------------------------------------------------------
(* RFC 4648: the bits of the string in groups of six, zeros filling the     *)
(* last one, and "=" the last four characters.                              *)
ByteBit(s, i) ==
    IF i < 8 * Len(s) THEN s[i \div 8 + 1] \div <<128, 64, 32, 16, 8, 4, 2, 1>>[(i % 8) + 1] % 2 ELSE 0
SixBits(s, k) ==
    32 * ByteBit(s, 6*k) + 16 * ByteBit(s, 6*k + 1) + 8 * ByteBit(s, 6*k + 2)
    + 4 * ByteBit(s, 6*k + 3) + 2 * ByteBit(s, 6*k + 4) + ByteBit(s, 6*k + 5)
Rfc4648(s) ==
    [k \in 1..4 * ((Len(s) + 2) \div 3) |->
        IF k > (4 * Len(s) + 2) \div 3 THEN Pad ELSE SixBits(s, k - 1)]

(* Encoding is that of RFC 4648, and decoding undoes it, also when white    *)
(* space was put into it (encodings.c:33-157).                              *)
Base64Encodes ==
    kind = "bytes" =>
        LET e == Lbase64_encode(input)
        IN  /\ e = Rfc4648(input)
            /\ \A i \in 0..Len(e) :
                Lbase64_decode(SubSeq(e, 1, i) \o <<Blank>> \o SubSeq(e, i + 1, Len(e)))
                    = [ok |-> TRUE, out |-> input]

(* What decoding makes of any text: each run of characters that "=" ends    *)
(* gives the whole bytes in it; of the last run, without "=", only groups   *)
(* of four count; characters after a NUL do not; and one character that is  *)
(* none of the alphabet before that spoils all of it (encodings.c:95-157).  *)
CharBit(run, i) == run[i \div 6 + 1] \div <<32, 16, 8, 4, 2, 1>>[(i % 6) + 1] % 2
EightBits(run, k) ==
    128 * CharBit(run, 8*k) + 64 * CharBit(run, 8*k + 1) + 32 * CharBit(run, 8*k + 2)
    + 16 * CharBit(run, 8*k + 3) + 8 * CharBit(run, 8*k + 4) + 4 * CharBit(run, 8*k + 5)
    + 2 * CharBit(run, 8*k + 6) + CharBit(run, 8*k + 7)
WholeBytes(run, n) == [k \in 1..n |-> EightBits(run, k - 1)]
Base64Decodes ==
    kind = "chars" =>
        LET read == IF Contains(input, Nul) THEN SubSeq(input, 1, Until(input, Nul) - 1) ELSE input
            text == FlattenSeq([i \in DOMAIN read |-> IF read[i] = Blank THEN <<>> ELSE <<read[i]>>])
            pads == {i \in DOMAIN text : text[i] = Pad}
            RunTo(i) == SubSeq(text, Max({j \in pads : j < i} \cup {0}) + 1, i - 1)
            last == RunTo(Len(text) + 1)
            parts == [k \in 1..Len(text) |->
                        IF k \in pads THEN WholeBytes(RunTo(k), (6 * Len(RunTo(k))) \div 8) ELSE <<>>]
        IN  Lbase64_decode(input) =
              IF Contains(text, Bad) THEN Nil
              ELSE [ok |-> TRUE, out |-> FlattenSeq(parts) \o WholeBytes(last, 3 * (Len(last) \div 4))]

(* Both directions of base64. *)
Base64Right == Base64Encodes /\ Base64Decodes

(* Table 3-7 of the Unicode standard. *)
WellFormedBytes ==
    LET T == 128..191 IN
    {<<0..127>>, <<194..223, T>>, <<{224}, 160..191, T>>, <<225..236, T, T>>,
     <<{237}, 128..159, T>>, <<238..239, T, T>>, <<{240}, 144..191, T, T>>,
     <<241..243, T, T, T>>, <<{244}, 128..143, T, T>>}

(* A string passes exactly if it is well formed, and no byte behind its     *)
(* terminator is looked at, wherever a sequence is cut off                  *)
(* (encodings.c:177-239).                                                   *)
Utf8IsUnicode ==
    kind = "utf8" =>
        LET wf[i \in 1..Len(input) + 1] ==
                \/ i = Len(input) + 1
                \/ \E row \in WellFormedBytes :
                    /\ i + Len(row) <= Len(input) + 1
                    /\ \A j \in DOMAIN row : input[i + j - 1] \in row[j]
                    /\ wf[i + Len(row)]
            t == Append(input, 0)
        IN  /\ check_utf8(input) <=> wf[1]
            /\ \A pos \in DOMAIN t : utf8_decode(t, pos).read <= Len(t)

(* A prepared or converted name is that of the whole string that was given: *)
(* neither a NUL nor the end of a buffer, of the input, of what is made of  *)
(* it or of what is handed out, cuts it short, and a name is only refused   *)
(* for a reason, whichever library the file was compiled with.  to_unicode  *)
(* of libidn is the exception: it ignores what follows a NUL, and does not  *)
(* refuse what is not UTF-8 (encodings.c:272-318, 360-388, 412-525).        *)
PrepWhole ==
    kind = "names" =>
        LET invalid == Contains(input, "inv")
            refused == invalid \/ Contains(input, "ban")
            nul == Contains(input, "nul")
            Fits(out) == Len(input) < PrepBuffer /\ Len(out) < PrepBuffer
            Only(r, out, wanted) == (r.ok => r.out = out) /\ (wanted => r.ok)
        IN  /\ refused => \A r \in {stringprep_prep(input), icu_stringprep_prep(input),
                                    Lidna_to_ascii(input), icu_to_ascii(input)} : ~r.ok
            /\ ~refused =>
                /\ Only(stringprep_prep(input), Prep(input), Fits(Prep(input)) /\ ~nul)
                /\ Only(icu_stringprep_prep(input), Prep(input), Fits(Prep(input)))
                /\ Only(Lidna_to_ascii(input), Prep(input), ~nul)
                /\ Only(icu_to_ascii(input), Prep(input), Fits(Prep(input)) /\ ~nul)
            /\ invalid => ~icu_to_unicode(input).ok
            /\ Only(icu_to_unicode(input), ToUnicode(input), ~invalid /\ Fits(ToUnicode(input)))
            /\ ~nul /\ ~invalid => \A r \in Lidna_to_unicode(input) : Only(r, ToUnicode(input), TRUE)
=============================================================================
