------------------------------- MODULE Netlist -------------------------------
(***************************************************************************)
(* The netlist: a graph written out as text, read back line by line, and   *)
(* loaded through the gate (src/src/netlist.ts, address.ts, render.ts).    *)
(*                                                                         *)
(* Free text is a sequence of characters, of which a quote, a backslash, a *)
(* hash and a newline matter; every other word of a line is a token that   *)
(* says what it looks like.                                                *)
(***************************************************************************)
EXTENDS Integers, Sequences, FiniteSets, SequencesExt, FiniteSetsExt

Quote     == "quote"
Backslash == "backslash"
Hash      == "hash"
Newline   == "newline"
LetterN   == "n"

-----------------------------------------------------------------------------
(* quoteString(), unquoteString(), and the two scanners of a line          *)

Escaped(char) == IF char = Newline THEN <<Backslash, LetterN>>
                 ELSE IF char \in {Quote, Backslash} THEN <<Backslash, char>> ELSE <<char>>

QuoteString(text) == <<Quote>> \o FlattenSeq([i \in DOMAIN text |-> Escaped(text[i])]) \o <<Quote>>

Unescaped(text) ==
    LET from[i \in 1..(Len(text) + 1)] ==
            IF i > Len(text) THEN <<>>
            ELSE IF i < Len(text) /\ text[i] = Backslash /\ text[i + 1] \in {Quote, Backslash, LetterN}
            THEN <<IF text[i + 1] = LetterN THEN Newline ELSE text[i + 1]>> \o from[i + 2]
            ELSE <<text[i]>> \o from[i + 1]
    IN  from[1]

UnquoteString(token) == Unescaped(SubSeq(token, 2, Len(token) - 1))

\* unquotedHash(): a comment starts at the first hash outside of quotes, and
\* every quote opens or closes them, an escaped one too.
QuotesBefore(text, i) == Cardinality({j \in 1..(i - 1) : text[j] = Quote})
Code(text) ==
    LET hashes == {i \in DOMAIN text : text[i] = Hash /\ QuotesBefore(text, i) % 2 = 0}
    IN  IF hashes = {} THEN text ELSE SubSeq(text, 1, Min(hashes) - 1)

\* tokenize(): a quoted run ends at the first quote that is not escaped.
CloseFrom(text, start) ==
    LET close[i \in Nat] == IF i > Len(text) \/ text[i] = Quote THEN i
                            ELSE close[i + IF text[i] = Backslash THEN 2 ELSE 1]
    IN  close[start]

\* A text that does not end is an error of its line.
Unterminated == <<"unterminated">>

TextOf(text) ==
    LET code  == Code(text)
        close == CloseFrom(code, 2)
    IN  IF close > Len(code) THEN Unterminated ELSE UnquoteString(SubSeq(code, 1, close))

-----------------------------------------------------------------------------
(* renderNode() and parseLine(): a node and the tokens of its line         *)

Word(text)         == <<[looks |-> "word", text |-> text]>>
Quoted(text)       == <<[looks |-> "quoted", text |-> QuoteString(text)]>>
Arrow(relation, d) == <<[looks |-> "arrow", text |-> relation, direction |-> d]>>
Weighted(t, n)     == <<[looks |-> "value", text |-> t, number |-> n]>>
Bracket(config)    == <<[looks |-> "bracket", config |-> config]>>
All(row(_), items) == FlattenSeq([i \in DOMAIN items |-> row(items[i])])

Direction(d) == IF d = "none" THEN <<>> ELSE Word(d)

RenderNode(node) ==
    CASE node.form = "cell"     -> Word(node.handle) \o Quoted(node.title)
                                   \o All(LAMBDA f : Weighted(f.field, f.number), node.fields)
      [] node.form = "body"     -> Word("body") \o Quoted(node.title)
      [] node.form = "edge"     -> (IF node.sourced THEN Word(node.source) ELSE <<>>)
                                   \o Arrow(node.relation, node.direction) \o Weighted(node.target, node.weight)
      [] node.form = "set"      -> IF node.style = "eq" THEN Word(node.addr) \o Word("=") \o Word(node.value)
                                   ELSE Word("setp") \o Word(node.addr) \o Word(node.value)
      [] node.form = "wire"     -> Word("net") \o Word(node.signal) \o Word(node.target)
                                   \o Direction(node.direction) \o All(Word, node.inputs)
      [] node.form = "schedule" -> Word("addf") \o Word(node.op) \o Word("tick") \o All(Bracket, node.config)

Looks(tokens, i, looks) == Len(tokens) >= i /\ tokens[i].looks = looks
Says(tokens, i, text)   == Looks(tokens, i, "word") /\ tokens[i].text = text

NoForm == [form |-> "error"]

\* A keyword comes first, and a line that has one is of its form or an error;
\* then an equals sign, then an edge, then a cell.
ParseLine(tokens) ==
    LET Texts(from) == [i \in 1..(Len(tokens) - from + 1) |-> tokens[from + i - 1].text]
        directed    == Says(tokens, 4, "<") \/ Says(tokens, 4, ">")
        EdgeAt(i)   == [form |-> "edge", sourced |-> i = 2, source |-> IF i = 1 THEN "none" ELSE tokens[1].text,
                        relation |-> tokens[i].text, direction |-> tokens[i].direction,
                        target |-> tokens[i + 1].text, weight |-> tokens[i + 1].number]
    IN  IF Says(tokens, 1, "net")
        THEN IF Len(tokens) < 3 THEN NoForm
             ELSE [form |-> "wire", signal |-> tokens[2].text, target |-> tokens[3].text,
                   direction |-> IF directed THEN tokens[4].text ELSE "none",
                   inputs |-> Texts(IF directed THEN 5 ELSE 4)]
        ELSE IF Says(tokens, 1, "setp")
        THEN IF Len(tokens) # 3 THEN NoForm
             ELSE [form |-> "set", style |-> "setp", addr |-> tokens[2].text, value |-> tokens[3].text]
        ELSE IF Says(tokens, 1, "addf")
        THEN IF ~Says(tokens, 3, "tick") THEN NoForm
             ELSE [form |-> "schedule", op |-> tokens[2].text,
                   config |-> [i \in 1..(Len(tokens) - 3) |-> tokens[i + 3].config]]
        ELSE IF Says(tokens, 1, "body")
        THEN IF Len(tokens) # 2 \/ ~Looks(tokens, 2, "quoted") THEN NoForm
             ELSE [form |-> "body", title |-> TextOf(tokens[2].text)]
        ELSE IF Says(tokens, 2, "=") /\ Len(tokens) = 3
        THEN [form |-> "set", style |-> "eq", addr |-> tokens[1].text, value |-> tokens[3].text]
        ELSE IF Looks(tokens, 2, "arrow") /\ Len(tokens) >= 3 THEN EdgeAt(2)
        ELSE IF Looks(tokens, 1, "arrow") /\ Len(tokens) = 2 THEN EdgeAt(1)
        ELSE IF Looks(tokens, 2, "quoted")
        THEN [form |-> "cell", handle |-> tokens[1].text, title |-> TextOf(tokens[2].text),
              fields |-> [i \in 1..(Len(tokens) - 2) |->
                            [field |-> tokens[i + 2].text, number |-> tokens[i + 2].number]]]
        ELSE NoForm

-----------------------------------------------------------------------------
(* loadNetlist().  A store is a sequence of cells in the order of their     *)
(* rows, and a put moves a row to its end.  What a cell says is its title,  *)
(* with its kind, and its body; a program cell has an operation and         *)
(* parameters, and flags are the set of those that are on.  The address of  *)
(* a set is <op>.<param> or <handle>-flags-<flag>: what it is, its owner    *)
(* and its name.                                                            *)

ProgramOps == {"watch", "trend"}
FlagNames  == {"pinned", "locked"}

Put(store, i, cell) == Append(RemoveAt(store, i), cell)

\* A cell that is new to the store gets a handle of its own, made of a random
\* key, which no line names.
OwnHandle == <<"own">>
NewCell(store, content, edges, op, params) ==
    [key |-> Len(store) + 1, handle |-> OwnHandle, content |-> content, status |-> "active",
     edges |-> edges, flags |-> {}, op |-> op, params |-> params]

Named(store, ref) == {i \in DOMAIN store : store[i].handle = ref}

\* admit() and the put that follows: every edge has to lead to a cell; if the
\* active cell found under the title has the same body, that is the answer;
\* else the cell is new, and what it supersedes is demoted.  Only of active
\* cells the first is looked for, so the row of a demoted one may stay.
Admitted(store, cell) ==
    LET same == {i \in DOMAIN store : store[i].status = "active" /\ store[i].content[1] = cell.content[1]}
        gone == {i \in DOMAIN store : \E e \in Range(cell.edges) :
                    e.relation = "supersedes" /\ i \in Named(store, e.target)}
        Settled(e) == IF e.relation = "supersedes"
                      THEN [e EXCEPT !.target = store[Min(Named(store, @))].key] ELSE e
    IN  IF \E e \in Range(cell.edges) : Named(store, e.target) = {} THEN store
        ELSE IF same # {} /\ store[Min(same)].content = cell.content
        THEN Put(store, Min(same), store[Min(same)])
        ELSE Append([i \in DOMAIN store |-> IF i \in gone THEN [store[i] EXCEPT !.status = "superseded"]
                                            ELSE store[i]],
                    [cell EXCEPT !.edges = [j \in DOMAIN @ |-> Settled(@[j])]])

ProgramOf(store, op) == {i \in DOMAIN store : store[i].status = "active" /\ store[i].op = op}

\* buildProgramSpec(): of two settings of one key the later one counts.
ParamsOf(config) == {c \in Range(config) : \A d \in Range(config) : d.key = c.key => d = c}

ProgramText(op) == << <<"program">>, <<op>> >>
NewProgram(store, op, config) == NewCell(store, ProgramText(op), <<>>, op, ParamsOf(config))

ScheduleAnew(store, op, config) ==   \* mutant
    IF ProgramOf(store, op) # {} /\ config = <<>> THEN store
    ELSE Append(store, NewProgram(store, op, config))
Schedule(store, op, config) ==
    LET there == Min(ProgramOf(store, op))
    IN  IF ProgramOf(store, op) = {} THEN Admitted(store, NewProgram(store, op, config))
        ELSE IF config = <<>> THEN store
        ELSE Put(store, there, [store[there] EXCEPT !.params = ParamsOf(config)])

SetParam(store, op, key, value) ==
    LET there == Min(ProgramOf(store, op))
    IN  IF ProgramOf(store, op) = {} THEN store
        ELSE Put(store, there, [store[there] EXCEPT !.params =
                 {c \in @ : c.key # key} \cup {[key |-> key, value |-> value]}])

SetFlag(store, handle, flag, value) ==
    LET here == Named(store, handle)
        cell == store[Min(here)]
    IN  IF here = {} \/ flag \notin FlagNames \/ value \notin {"true", "false"} THEN store
        ELSE Put(store, Min(here),
                 [cell EXCEPT !.flags = IF value = "true" THEN @ \cup {flag} ELSE @ \ {flag}])

Actuate(store, node) ==
    CASE node.form = "schedule" /\ node.op \in ProgramOps    -> Schedule(store, node.op, node.config)
      [] node.form = "set" /\ node.addr[1] = "param"         -> SetParam(store, node.addr[2], node.addr[3], node.value)
      [] node.form = "set" /\ node.addr[1] = "flag"          -> SetFlag(store, node.addr[2], node.addr[3], node.value)
      [] OTHER                                               -> store   \* acknowledged or unsupported

\* The block of a cell is its line, its body, and the edges that follow it
\* or that name it; the direction of an edge is not looked at.
BlockAt(nodes, i) ==
    LET next   == Min({Len(nodes) + 1} \cup {j \in DOMAIN nodes : j > i /\ nodes[j].form = "cell"})
        later  == Max({j \in DOMAIN nodes : nodes[j].form = "cell" /\ nodes[j].handle = nodes[i].handle})
        under  == SelectSeq(SubSeq(nodes, i + 1, next - 1), LAMBDA n : n.form = "edge" /\ ~n.sourced)
        named  == IF later # i THEN <<>>
                  ELSE SelectSeq(nodes, LAMBDA n : n.form = "edge" /\ n.sourced /\ n.source = nodes[i].handle)
        bodies == SelectSeq(SubSeq(nodes, i + 1, next - 1), LAMBDA n : n.form = "body")
    IN  [content |-> <<nodes[i].title, IF bodies = <<>> THEN nodes[i].title ELSE Last(bodies).title>>,
         edges   |-> [j \in DOMAIN (under \o named) |->
                        LET e == (under \o named)[j] IN [relation |-> e.relation, target |-> e.target]]]

AdmitBlock(store, block) == Admitted(store, NewCell(store, block.content, block.edges, "none", {}))

LoadNetlist(store, nodes, mode) ==
    LET cells     == SelectSeq([i \in DOMAIN nodes |-> i], LAMBDA i : nodes[i].form = "cell")
        actuators == SelectSeq(nodes, LAMBDA n : n.form \in {"set", "wire", "schedule"})
        admitted  == FoldLeft(LAMBDA s, i : AdmitBlock(s, BlockAt(nodes, i)), store, cells)
    IN  IF mode = "verify" THEN store ELSE FoldLeft(Actuate, admitted, actuators)

-----------------------------------------------------------------------------
(* Properties *)

Texts(node) == IF node.form \in {"cell", "body"} THEN {node.title} ELSE {}

\* "The round trip is byte-identical for any text produced by render.ts"
\* (netlist.ts:16): a rendered line parses back to its node, unless its text
\* has a hash after an odd number of quotes.
RenderedParses(node) ==
    (\A text \in Texts(node) : \A i \in DOMAIN text : text[i] = Hash => QuotesBefore(text, i) % 2 = 0)
        => ParseLine(RenderNode(node)) = node

\* What a netlist may not do if loading it again is to change nothing.  It sets
\* the parameters of a program after the line that schedules it.
SetsWhatItSchedules(nodes) ==
    \A i \in DOMAIN nodes : nodes[i].form = "set" /\ nodes[i].addr[1] = "param" =>
        \E j \in 1..(i - 1) : nodes[j].form = "schedule" /\ nodes[j].op = nodes[i].addr[2]

\* What it says and what is active have each title once, and each operation has
\* at most one program.  (The gate looks at one active cell of a title, and a
\* program that is put is not found first again.)
TitlesApart(store, nodes) ==
    LET said == {BlockAt(nodes, i).content : i \in {i \in DOMAIN nodes : nodes[i].form = "cell"}}
                \cup {ProgramText(nodes[i].op) : i \in {i \in DOMAIN nodes : nodes[i].form = "schedule"}}
                \cup {c.content : c \in {c \in Range(store) : c.status = "active"}}
    IN  /\ \A x, y \in said : x[1] = y[1] => x = y
        /\ \A op \in ProgramOps : Cardinality(ProgramOf(store, op)) <= 1

\* None of its cells supersedes a cell that it declares as well.  (A cell that
\* is not active is no duplicate, and would be admitted anew.)
KeepsWhatItDeclares(store, nodes) ==
    LET blocks == {BlockAt(nodes, i) : i \in {i \in DOMAIN nodes : nodes[i].form = "cell"}}
    IN  \A b, d \in blocks : \A e \in Range(b.edges) : e.relation = "supersedes" =>
           \A i \in Named(store, e.target) : store[i].content # d.content

\* Loading such a netlist again changes no cell.
LoadsOnce(store, nodes) ==
    LET once == LoadNetlist(store, nodes, "merge")
    IN  SetsWhatItSchedules(nodes) /\ TitlesApart(store, nodes) /\ KeepsWhatItDeclares(store, nodes)
            => Range(LoadNetlist(once, nodes, "merge")) = Range(once)
=============================================================================
