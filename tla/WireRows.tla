------------------------------ MODULE WireRows ------------------------------
(***************************************************************************)
(* The vocabulary of the wire tables.  A record's encoder (to_cv) is a     *)
(* sequence of rows, one per key it writes, and its decoder (from_cv) a    *)
(* sequence of rows, one per key it takes: the two are apart in the code   *)
(* and apart here.                                                         *)
(***************************************************************************)
EXTENDS Integers, Sequences

\* Writer rows: always written; written when present; written when not empty;
\* written unless the signing body is asked for.
W(key, name, kind)     == [key |-> key, name |-> name, kind |-> kind, mode |-> "always"]
WOpt(key, name, kind)  == [key |-> key, name |-> name, kind |-> kind, mode |-> "present"]
WFull(key, name, kind) == [key |-> key, name |-> name, kind |-> kind, mode |-> "full"]
WSig(key, name, kind)  == [key |-> key, name |-> name, kind |-> kind, mode |-> "sig"]

\* Reader rows: required; optional; absent reads as empty.
R(key, name, kind)      == [key |-> key, name |-> name, kind |-> kind, mode |-> "req"]
ROpt(key, name, kind)   == [key |-> key, name |-> name, kind |-> kind, mode |-> "opt"]
REmpty(key, name, kind) == [key |-> key, name |-> name, kind |-> kind, mode |-> "empty"]

\* What a key holds.
Uint           == <<"uint">>        \* as_u64
Seq0           == <<"seq">>         \* as_u64, where 0 is special to the record
U8             == <<"u8">>          \* as_u8
U32            == <<"u32">>         \* as_u32
Trunc32        == <<"trunc32">>     \* as_u64 cut to 32 bits by `as u32`
Octets         == <<"octets">>      \* as_bytes
LongOctets     == <<"long">>        \* as_bytes of a length the reader checks
Str            == <<"str">>         \* as_text
FullStr        == <<"fullstr">>     \* as_text, empty refused
Topic          == <<"topic">>       \* as_text, through validate_topic_label
FullTopic      == <<"fulltopic">>   \* the same, empty refused
Flag           == <<"flag">>        \* as_bool
TrueFlag       == <<"trueflag">>    \* as_bool, written only when true
SuiteByte      == <<"suite">>       \* as_u8 and Suite::from_u8
PubSuite       == <<"pubsuite">>    \* as_u8, Suite::from_u8 and is_supported
Enum(S)        == <<"enum", S>>     \* as_u8 / as_u64 in a set of numbers
Const(n)       == <<"enum", {n}>>
Positive       == <<"positive">>    \* as_u64, zero refused
Word(S)        == <<"word", S>>     \* as_text in a set of words
List(k)        == <<"list", k>>     \* as_array
NonEmpty(k)    == <<"nonempty", k>> \* as_array, empty refused
Triple(k)      == <<"triple", k>>   \* as_array of exactly three
Keyed(k)       == <<"keyed", k>>    \* a map from numbers below 256
TextKeyed      == <<"textkeyed">>   \* a text-keyed map; an empty map has no key kind
Rec(name)      == <<"rec", name>>
Choice(names)  == <<"choice", names>>  \* a union told apart by key 0
=============================================================================
