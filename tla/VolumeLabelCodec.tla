---------------------------- MODULE VolumeLabelCodec ----------------------------
(***************************************************************************)
(* package volumelabel: the encoding of a struct as a docker volume name,  *)
(*                                                                         *)
(*   key.value_key.value...                                                *)
(*                                                                         *)
(* and UnmarshalVolumeLabel as a machine that splits the name and then     *)
(* visits the fields of the target struct in their order, up to the first  *)
(* one that cannot be parsed.                                              *)
(*                                                                         *)
(* A text is what strings.Split makes of it, at "_" and then at ".": a     *)
(* non-empty sequence of non-empty sequences of words without separators.  *)
(* "" is a word, so every string is exactly one text.                      *)
(***************************************************************************)
EXTENDS Integers, SequencesExt

CONSTANTS
  Fields,   \* the fields of the struct, in order: [key, type, max, ptr]
  Structs,  \* the structs that are encoded
  Texts,    \* the texts that are typed in
  Valid,    \* the words that match the field regex
  BoolOf,   \* strconv.ParseBool: words -> BOOLEAN
  IntOf,    \* the integer that a word of digits, with or without a sign, is
  Signed,   \* the words among these that have one
  Nil       \* a nil pointer

ASSUME CodecAssumption ==
  /\ Fields \in Seq(Range(Fields))
  /\ \A i \in DOMAIN Fields :
       /\ Fields[i].type \in {"bool", "int", "uint", "string", "other"}
       /\ Fields[i].max \in Nat
  /\ "" \notin Valid
  /\ \A t \in Texts : t \in Seq(Range(t))

VARIABLES
  source,  \* history: the struct that text encodes, or Nil
  text,    \* the argument
  raw,     \* rawValues: key -> value
  field,   \* the next field to visit, 0 before the text has been split
  target,  \* the struct pointed to
  err      \* whether an error has been returned

vars == <<source, text, raw, field, target, err>>

-------------------------------------------------------------------------------
(* Types.                                                                    *)

Zero(type) == CASE type = "bool"            -> FALSE
                [] type \in {"int", "uint"} -> 0
                [] type = "string"          -> ""
                [] OTHER                    -> Nil

\* The integers of a field: every width has limits of its own.
Limits(f) == (IF f.type = "uint" THEN 0 ELSE -f.max - 1)..f.max

\* The words that are read as an integer: ParseInt takes a sign, ParseUint does
\* not, not even a "+".
Readable(f) == IF f.type = "uint" THEN DOMAIN IntOf \ Signed ELSE DOMAIN IntOf

\* A struct that is encoded has one field per key, and only a pointer is nil or
\* a field of a type the codec has no zero value for.
ASSUME StructAssumption == \A v \in Structs :
  /\ v = [i \in DOMAIN Fields |-> v[i]]
  /\ \A i, k \in DOMAIN Fields : Fields[i].key = Fields[k].key => i = k
  /\ \A i \in DOMAIN Fields :
       /\ Fields[i].key # ""
       /\ IF v[i] = Nil THEN Fields[i].ptr \/ Fields[i].type = "other"
          ELSE /\ Fields[i].type = "bool" => v[i] \in BOOLEAN
               /\ Fields[i].type \in {"int", "uint"} => v[i] \in Limits(Fields[i])

\* strconv and fmt: what is written for a boolean or an integer reads as itself.
ASSUME StrconvAssumption ==
  /\ {"true", "false"} \subseteq DOMAIN BoolOf /\ BoolOf["true"] = TRUE /\ BoolOf["false"] = FALSE
  /\ \A v \in Structs : \A i \in DOMAIN Fields :
       Fields[i].type \in {"int", "uint"} /\ v[i] # Nil =>
         ToString(v[i]) \in Readable(Fields[i]) /\ IntOf[ToString(v[i])] = v[i]

\* VolumeFieldValueValid: "Values may be blank."
Values == Valid \cup {""}

\* marshalType, whose result is the set of the words for value v: one, or none
\* for an error.
marshalType(type, v) ==
  CASE type = "bool"            -> {IF v THEN "true" ELSE "false"}
    [] type \in {"int", "uint"} -> {ToString(v)}
    [] type = "string"          -> {v} \cap Values
    [] type = "other"           -> {}

\* unmarshalType: the set of the values of word w for field f, empty for an error.  A type
\* without a case is left as it was, and is no error.
unmarshalType(f, w, old) ==
  CASE f.type = "bool"            -> {BoolOf[x] : x \in {w} \cap DOMAIN BoolOf}
    [] f.type \in {"int", "uint"} -> {IntOf[x] : x \in {w} \cap Readable(f)} \cap Limits(f)
    [] f.type = "string"          -> {w} \cap Values
    [] f.type = "other"           -> {old}

-------------------------------------------------------------------------------
(* Encoding.                                                                 *)

\* Mutated: zero values are left out as well.
NonZero(v) == {i \in DOMAIN Fields : v[i] # Nil /\ v[i] # Zero(Fields[i].type)}

\* Nil pointers are left out.
Present(v) == {i \in DOMAIN Fields : v[i] # Nil}

\* The fields are visited in their order.
InOrder(S) ==
  [k \in 1..Cardinality(S) |-> CHOOSE i \in S : Cardinality({j \in S : j <= i}) = k]

Marshals(v) == \A i \in Present(v) : marshalType(Fields[i].type, v[i]) # {}

MarshalVolumeLabel(v) ==
  LET word(i) == CHOOSE w \in marshalType(Fields[i].type, v[i]) : TRUE
      fields  == InOrder(Present(v)) IN
  IF fields = <<>> THEN <<<<"">>>>
  ELSE [k \in DOMAIN fields |-> <<Fields[fields[k]].key, word(fields[k])>>]

-------------------------------------------------------------------------------
(* Decoding.                                                                 *)

\* A field of the target as its caller declares it.
Fresh(i) == IF Fields[i].ptr THEN Nil ELSE Zero(Fields[i].type)

Init ==
  /\ \/ text \in Texts /\ source = Nil
     \/ /\ source \in {v \in Structs : Marshals(v)}
        /\ text = MarshalVolumeLabel(source)
  /\ raw    = <<>>
  /\ field  = 0
  /\ target = [i \in DOMAIN Fields |-> Fresh(i)]
  /\ err    = FALSE

\* The value of a piece that is not exactly key.value is "".
ValueOf(piece) == IF Len(piece) = 2 THEN piece[2] ELSE ""

\* Mutated: the first value for a key is kept.
FirstWith(key) == CHOOSE i \in DOMAIN text :
  text[i][1] = key /\ \A k \in DOMAIN text : text[k][1] = key => i <= k

LastWith(key) == CHOOSE i \in DOMAIN text :
  text[i][1] = key /\ \A k \in DOMAIN text : text[k][1] = key => k <= i

\* Of several values for a key the map keeps the last.
Split ==
  /\ field = 0
  /\ raw' = [key \in {text[i][1] : i \in DOMAIN text} |-> ValueOf(text[LastWith(key)])]
  /\ field' = 1
  /\ UNCHANGED <<source, text, target, err>>

\* A pointer is set to a new value before the word is parsed.
Field ==
  /\ field \in DOMAIN Fields /\ ~err
  /\ LET f      == Fields[field]
         old    == IF f.ptr THEN Zero(f.type) ELSE target[field]
         values == unmarshalType(f, raw[f.key], old) IN
     \/ /\ f.key \notin DOMAIN raw
        /\ field' = field + 1
        /\ UNCHANGED <<target, err>>
     \/ /\ f.key \in DOMAIN raw
        /\ \E v \in values : target' = [target EXCEPT ![field] = v]
        /\ field' = field + 1
        /\ UNCHANGED err
     \/ /\ f.key \in DOMAIN raw
        /\ values = {}
        /\ target' = [target EXCEPT ![field] = old]
        /\ err' = TRUE
        /\ UNCHANGED field
  /\ UNCHANGED <<source, text, raw>>

Next == Split \/ Field

Spec == Init /\ [][Next]_vars

Returned == err \/ field = Len(Fields) + 1

-------------------------------------------------------------------------------
(* Properties.                                                               *)

\* What the encoder accepts the decoder restores, field by field, nil pointers
\* included; the separators, the regex and the integer formats agree.
RoundTrip == Returned /\ source # Nil => ~err /\ target = source

\* Piece k decides field i: it is the last one that names it.
Decides(k, i) ==
  text[k][1] = Fields[i].key /\ \A l \in DOMAIN text : l > k => text[l][1] # Fields[i].key

\* What field i can become by piece k.
Reading(k, i) == unmarshalType(Fields[i], ValueOf(text[k]), Zero(Fields[i].type))

\* Whatever text is typed in, a setting has its effect wherever it stands, the
\* last one for a field counts, a field without one stays as it was, and there is
\* an error exactly if a setting that counts cannot be read (UnmarshalVolumeLabel,
\* which goes through the fields, not the settings, and stops at an error).
SettingsApply == Returned =>
  /\ err <=> \E i \in DOMAIN Fields, k \in DOMAIN text : Decides(k, i) /\ Reading(k, i) = {}
  /\ ~err => \A i \in DOMAIN Fields :
       \/ target[i] = Fresh(i) /\ \A k \in DOMAIN text : text[k][1] # Fields[i].key
       \/ \E k \in DOMAIN text : Decides(k, i) /\ target[i] \in Reading(k, i)

\* The text key.value, for a value that is itself a text.
Pair(key, value) == <<<<key>> \o value[1]>> \o Tail(value)

\* README.md:76: encryption-passphrase: "If the disk is created, use this
\* encryption passphrase."  A passphrase that is given is used, or refused.
PassphraseUsed == \A i \in DOMAIN Fields, v \in Texts :
  /\ Returned /\ ~err
  /\ Fields[i].key = "encryption-passphrase"
  /\ text = Pair(Fields[i].key, v)
  => v = <<<<target[i]>>>>

===============================================================================
