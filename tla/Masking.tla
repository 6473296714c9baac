------------------------------- MODULE Masking -------------------------------
(***************************************************************************)
(* pipeline/masking.py and its use by corrector.py: what a writer in the   *)
(* cloud is sent has placeholders for the names and literals of the query, *)
(* and its answer gets them back.  A text is a sequence of tokens: a bare  *)
(* word, or the words of a quoted string.  A word is a real name or        *)
(* number, or has the form of a placeholder.                               *)
(***************************************************************************)
EXTENDS Naturals, Sequences, FiniteSets, Functions

CONSTANTS
    Real,                  \* names and literals' words of the database
    Numeral,               \* numeric literals
    Apostrophe, Escaped    \* in a literal: the character, and the way SQL writes it

Form == {"tbl", "col", "lit", "sentinel"}
Placeholder == [form : Form, n : Nat]
Original == Real \cup Numeral \cup {Apostrophe, Escaped}
Word == Original \cup Placeholder
P(form, n) == [form |-> form, n |-> n]

(* tbl_1 is no name of the database, and no name is a number or an apostrophe *)
ASSUME MaskingAssumption ==
    /\ Real \cap Numeral = {} /\ {Apostrophe, Escaped} \cap (Real \cup Numeral) = {}
    /\ \A w \in Original : w \notin Placeholder

Bare(w) == [quoted |-> FALSE, words |-> <<w>>]
Quoted(ws) == [quoted |-> TRUE, words |-> ws]
Token == {t \in [quoted : BOOLEAN, words : Seq(Word)] : ~t.quoted => Len(t.words) = 1}
Text == Seq(Token)
Number(t) == ~t.quoted /\ t.words[1] \in Numeral
Name(t) == ~t.quoted /\ t.words[1] \notin Numeral
(* What a literal means: the parsed query has it without its escapes. *)
Value(words) == [i \in DOMAIN words |-> IF words[i] = Escaped THEN Apostrophe ELSE words[i]]

(* Dictionaries, in insertion order: sequences of [from, to] *)
Keys(pairs) == {pairs[i].from : i \in DOMAIN pairs}
Targets(pairs) == {pairs[i].to : i \in DOMAIN pairs}
Get(pairs, key) == pairs[CHOOSE i \in DOMAIN pairs : pairs[i].from = key].to
Swapped(pairs) == [i \in DOMAIN pairs |-> [from |-> pairs[i].to, to |-> pairs[i].from]]
WordPair == [from : Word, to : Word]
StringPair == [from : Seq(Word), to : Seq(Word)]
MaskMap == [ids : Seq(WordPair), strs : Seq(StringPair), nums : Seq(WordPair)]

(* build_mask_map: what the query has, in the order it is met *)
CountOf(pairs, form) == Cardinality({i \in DOMAIN pairs : pairs[i].to.form = form})
AddId(tables, pairs, w) ==
    IF w \in Keys(pairs) THEN pairs
    ELSE LET form == IF w \in tables THEN "tbl" ELSE "col"
         IN Append(pairs, [from |-> w, to |-> P(form, CountOf(pairs, form) + 1)])
AddStr(pairs, ws) ==
    IF ws \in Keys(pairs) THEN pairs
    ELSE Append(pairs, [from |-> ws, to |-> <<P("lit", Len(pairs) + 1)>>])
AddNum(pairs, w) ==
    IF w \in Keys(pairs) THEN pairs
    ELSE Append(pairs, [from |-> w, to |-> P("sentinel", Len(pairs) + 1)])
AddToken(tables, scope, mm, t) ==
    IF t.quoted THEN [mm EXCEPT !.strs = AddStr(@, Value(t.words))]
    ELSE IF Number(t) THEN (IF scope = "all" THEN [mm EXCEPT !.nums = AddNum(@, t.words[1])] ELSE mm)
    ELSE [mm EXCEPT !.ids = AddId(tables, @, t.words[1])]
EmptyMap == [ids |-> <<>>, strs |-> <<>>, nums |-> <<>>]
Collecting(sql, tables, scope) ==
    LET mm[n \in 0 .. Len(sql)] ==
            IF n = 0 THEN EmptyMap ELSE AddToken(tables, scope, mm[n - 1], sql[n])
    IN mm
BuildMaskMap(sql, tables, scope) == Collecting(sql, tables, scope)[Len(sql)]

(* extend_mask_map: the schema block's names, numbered on from the columns'.  A *)
(* line one column of which is no bare identifier is not listed by              *)
(* identifiers_in_schema_block.                                                 *)
Entry == [name : Real, listed : BOOLEAN]
(* mutant: the names of the query only *)
ExtendNothing(mm, block) == mm
LastColumn(mm) ==
    LET used == {p.n : p \in {t \in Targets(mm.ids) : t.form = "col"}} IN
    IF used = {} THEN 0 ELSE CHOOSE n \in used : \A k \in used : k <= n
AddColumn(mm, e) ==
    IF ~e.listed \/ e.name \in Keys(mm.ids) THEN mm
    ELSE [mm EXCEPT !.ids = Append(@, [from |-> e.name, to |-> P("col", LastColumn(mm) + 1)])]
Extending(mm, block) ==
    LET m[n \in 0 .. Len(block)] == IF n = 0 THEN mm ELSE AddColumn(m[n - 1], block[n])
    IN m
ExtendMaskMap(mm, block) == Extending(mm, block)[Len(block)]

(* mask_sql: node by node, so that nothing is replaced twice *)
MaskNode(mm, t) ==
    IF t.quoted
    THEN (IF Value(t.words) \in Keys(mm.strs) THEN Quoted(Get(mm.strs, Value(t.words))) ELSE t)
    ELSE IF Number(t)
         THEN (IF t.words[1] \in Keys(mm.nums) THEN Bare(Get(mm.nums, t.words[1])) ELSE t)
    ELSE IF t.words[1] \in Keys(mm.ids) THEN Bare(Get(mm.ids, t.words[1])) ELSE t
MaskSql(sql, mm) == [i \in DOMAIN sql |-> MaskNode(mm, sql[i])]

(* _sub_words and str.replace: one key after the other, over the text so far; a *)
(* word is found within quotes as well.  A literal's value is looked for, and put *)
(* back, as it is: its escapes are neither expected nor written again.            *)
SubWord(text, p) ==
    [i \in DOMAIN text |-> [text[i] EXCEPT !.words =
        [j \in DOMAIN @ |-> IF @[j] = p.from THEN p.to ELSE @[j]]]]
SubString(text, p) ==
    [i \in DOMAIN text |-> IF text[i].quoted /\ text[i].words = p.from THEN Quoted(p.to) ELSE text[i]]
SubbingWords(text, pairs) ==
    LET out[n \in 0 .. Len(pairs)] == IF n = 0 THEN text ELSE SubWord(out[n - 1], pairs[n])
    IN out
SubWords(text, pairs) == SubbingWords(text, pairs)[Len(pairs)]
SubbingStrings(text, pairs) ==
    LET out[n \in 0 .. Len(pairs)] == IF n = 0 THEN text ELSE SubString(out[n - 1], pairs[n])
    IN out
SubStrings(text, pairs) == SubbingStrings(text, pairs)[Len(pairs)]
Substitute(mm, text) == SubWords(SubStrings(SubWords(text, mm.ids), mm.strs), mm.nums)
MaskText(text, mm) == Substitute(mm, text)
(* mutant: the literals are left as they came *)
UnmaskNames(text, mm) == Substitute([ids |-> Swapped(mm.ids), strs |-> <<>>, nums |-> Swapped(mm.nums)], text)
Unmask(text, mm) ==
    Substitute([ids |-> Swapped(mm.ids), strs |-> Swapped(mm.strs), nums |-> Swapped(mm.nums)], text)

(* find_leaks *)
WordsOf(text) == UNION {Range(text[i].words) : i \in DOMAIN text}
FindLeaks(text, mm) ==
    ((Keys(mm.ids) \cup Keys(mm.nums)) \cap WordsOf(text))
    \cup {text[i].words : i \in {j \in DOMAIN text : text[j].quoted /\ text[j].words \in Keys(mm.strs)}}
=============================================================================
