--------------------------- MODULE MCVolumeLabelCodec ---------------------------
(***************************************************************************)
(* Instances of VolumeLabelCodec: a struct with a field of every type the  *)
(* codec knows, plain and behind a pointer, and the VolumeQuery.           *)
(***************************************************************************)
EXTENDS VolumeLabelCodec

F(key, type, ptr) == [key |-> key, type |-> type, max |-> 0, ptr |-> ptr]

\* An integer field, and its greatest value.
N(key, type, max, ptr) == [F(key, type, ptr) EXCEPT !.max = max]

MCValid  == {"a", "b-1", "true", "7", "sha1", "aes"}
MCBoolOf == [w \in {"1", "t", "true", "0", "f", "false"} |-> w \in {"1", "t", "true"}]

\* The limits of the fields and what is just outside of them; signs and zeros.
Written == <<<<"-32768", -32768>>, <<"-129", -129>>, <<"-128", -128>>, <<"-1", -1>>,
             <<"-0", 0>>, <<"0", 0>>, <<"1", 1>>, <<"7", 7>>, <<"+7", 7>>, <<"007", 7>>,
             <<"127", 127>>, <<"128", 128>>, <<"255", 255>>, <<"256", 256>>>>
MCIntOf  == [w \in {Written[i][1] : i \in DOMAIN Written} |->
              (CHOOSE p \in Range(Written) : p[1] = w)[2]]
MCSigned == {"-32768", "-129", "-128", "-1", "-0", "+7"}

(* codec: every struct of a few values per field, and texts typed by hand.   *)
SFields == <<N("int8", "int", 127, FALSE), N("uint8", "uint", 255, FALSE),
             F("bool", "bool", FALSE), F("str", "string", FALSE),
             N("pint16", "int", 32767, TRUE), F("pbool", "bool", TRUE),
             F("pstr", "string", TRUE)>>

Strings == {"", "b-1", "not a word"}
SStructs == {<<i, u, b, s, pi, pb, ps>> :
  i \in {-128, 0, 127}, u \in {0, 255}, b \in BOOLEAN, s \in Strings,
  pi \in {-32768, 256, Nil}, pb \in {TRUE, Nil}, ps \in Strings \cup {Nil}}

Settings == {<<"int8", "007">>, <<"int8", "128">>, <<"int8", "-129">>, <<"uint8", "128">>,
             <<"uint8", "256">>, <<"uint8", "-0">>, <<"uint8", "+7">>, <<"pint16", "+7">>,
             <<"pint16", "-129">>, <<"bool", "t">>, <<"bool">>, <<"pstr">>,
             <<"pstr", "a", "a">>, <<"pbool", "a">>, <<"unknown", "a">>, <<"">>}
STexts == {<<x>> : x \in Settings} \cup (Settings \X Settings)

(* The documented claims, for the fields of VolumeQuery.                     *)

\* The greatest integer of TLC, which is that of an int32, stands for the one of
\* an int and of a uint64.
Greatest == 2147483647

QueryFields ==
  <<F("label", "string", FALSE), F("own-hostname", "bool", FALSE),
    F("own-machine-id", "bool", FALSE), F("initialized", "bool", FALSE),
    F("exclusive", "bool", FALSE), F("dynamic-mounts", "bool", FALSE),
    F("persist-numbering", "bool", FALSE), F("basename", "string", FALSE),
    F("naming-style", "other", FALSE), N("min-size", "uint", Greatest, FALSE),
    N("max-size", "uint", Greatest, FALSE), N("min-disks", "int", Greatest, FALSE),
    N("max-disks", "int", Greatest, FALSE), F("filesystem", "string", FALSE),
    F("encryption-passphrase", "string", FALSE),
    F("encryption-hash", "string", FALSE),
    N("encryption-key-size", "int", Greatest, FALSE),
    F("encryption-hash", "string", FALSE)>>

NoStructs == {}

\* "a.b-1" as a passphrase: a word, a separator, a word.
Dotted          == <<<<"a", "b-1">>>>
PassphraseTexts == {Dotted, Pair("encryption-passphrase", Dotted)}

===============================================================================
