# Verification of the ORCHID traffic identifier

ORCHID reads packets from a capture, files them into sessions, and runs the
signatures of a configuration file over the payload of its TCP and UDP packets.
This directory holds TLA+ models of the program, the TLC configurations that
check them on small instances, and TLAPS proofs of the properties that matter
most.  `PROJECT.json` maps every definition of a model to the lines it stands
for, names the runs, the faulty variant each property is known to catch, the
findings, the hazards and the theorems.

Paths below are relative to the repository; `loader/`, `searcher/`,
`session.c`, `packet_process.c` and `main.c` are in `app_identify/`.

## The system

The program is one thread.  It loads, then loops over packets:

    main -> resource_init -> load_sig -> loadApp (sig.l, sig.y)
                                      -> get_Application_summary
                                      -> install_Application
                                      -> dump_application_array
                                      -> sig_parse_adapter_ac -> acsmCompile2
                                      -> parseApplication -> Regex_Parse
                                              -> basic_rules::push
                                              -> generator::build, reassemble
                          -> create_session_table
         -> packet_handler, for each packet
               -> session_table_find
               -> httpParse2 -> acsmSearch2 -> MatchFound, for each match
                             -> pattern_check
               -> httpParse

What makes it hard to test is not concurrency.  It is that each stage is an
encoding of the one before it (a file into lists, a list into tables, a trie
into a machine, an expression into a tree, a partition and a table, a row into
words, an element into a number that is also a pattern id and an array index), that state outlives the call it belongs to (a static header, a global
array, sessions), and that the sizes and ends of arrays are rarely tested.  A
slip at any stage shows only as a signature that is not, or wrongly, reported
for some payloads of some configurations.

### Components

| component | source | state | operations | modules |
|---|---|---|---|---|
| session table | `session.c` | hash table of flows, list of sessions, next id | `create_session_table`, `session_table_find` | `SessionMap`, `FlowTable` |
| row formats | `loader/acsmx2.c` | one packed row of next states | the conversions, `acsmUpdateMatchStates`, the lookups | `AcFormats`, `AcRows` |
| Aho-Corasick compilation | `loader/acsmx2.c` | patterns, transition lists, fail states, match lists, queue | `acsmAddPattern2`, `_acsmCompile2` | `AcBuild` |
| Aho-Corasick search | `loader/acsmx2.c` | current state, queue of match lists | `acsmSearch2` and its five loops | `AcSearch` |
| signature tables | `loader/sig_loader.c`, `loader/application.h` | counts, applications, signatures, elements, pattern list | `get_Application_summary`, `install_Application`, `dump_application_array` | `SigLayout`, `SigTables` |
| payload scan | `searcher/http_search.c` | current header, collected elements, expected elements | `httpParse2`, `MatchFound`, `pattern_check`, `httpParse` | `HttpScan` |
| packet handler | `packet_process.c`, `pktHeader.h` | application of a session | `packet_handler` | `PacketPath` |
| main and start-up | `main.c`, `loader/sig_loader.c` | the stage of `load_sig` | `load_sig`, the packet loop | `SigConfig`, `PacketPath`, in part |
| configuration parser | `loader/sig.y`, `sig.l`, `key_pair.h` | place in the file, parser state, values, lists of pairs, signatures and applications | `loadApp`: `yylex`, the rules of `yyparse`, the lookups of a key | `SigConfig` |
| signature strings | `loader/http_parse.c` | the elements of a signature, the rules for the expressions | `parse_http_sig_`, `parse_http_sig`, `init_http_sig` | `SigConfig` |
| regular expressions | `regexParse/main.cpp`, `lexertl/` | rules, macros, options; tokens and trees; classes, rows; the tables of `dfa_graph_t` | `push`, `insert_macro`, the tokeniser, `parser::parse`, `generator::build`, `reassemble` | `CharSets`, `RegexTokens`, `RegexRules`, `RegexParser`, `RegexTrees`, `RegexLanguage`, `RegexDfa` |
| unused searcher | `searcher/searcher.c` | - | `dfaSearch`, called from nowhere | not modelled |

### What makes each component correct

- *Session table.*  One session per conversation, found from either direction,
  for ever; each flow linked once, in its own bucket.
- *Row formats.*  What is read from a packed row is what was packed.
- *Compilation.*  The states are the prefixes of the patterns; a state's fail
  state is its longest proper suffix; its match list holds exactly the patterns
  it ends with; the completed machine moves to the longest suffix; the tables,
  sized beforehand, are large enough; the breadth-first loops end.
- *Search.*  The machine is always in the state of the longest suffix read; it
  reports real occurrences, one for each place a pattern ends.
- *Configuration.*  The program goes on with the applications the file spells
  out, whatever the order of its keys and its layout, or stops; the two searches
  look for the same elements.
- *Signature tables.*  No application overwrites another; an element's number
  leads to its entry; the chain of expected elements walks through a signature.
- *Scan.*  A signature is reported exactly when its elements occur in order,
  each under its header; nothing of one payload leaks into the next but the
  header it ended in.
- *Regular expressions.*  The tree of a rule matches the words the expression
  means; every set of characters is the right one; the classes split the sets
  exactly; the machine answers the first rule that matches; the table says what
  the machine does.
- *Handler.*  A session for each conversation and nothing else; only captured
  bytes are scanned.

## The modules

**`SessionMap`** is the promise: a partial map from conversations, unordered
pairs of a tuple and its reverse, to session numbers, that only grows.
**`FlowTable`** is the table.  A session is the *i*-th calloc, so its address is
its number; `Found`, `Create` and `AllocFails` are the exits of
`session_table_find`, and `Lookup` its two bucket scans, both of which compare
the forward tuple.  `Hash` is an arbitrary function into the buckets: what
`hash5tuple` computes is never used by a property.  Sessions are never freed
(destroy is a TODO of the source).

**`AcFormats`** holds the conversions of a row (`ToFull`, `ToSparse`,
`ToBanded`, `ToSparseBands`) and the lookups (`GetNextStateDFA`,
`GetNextStateNFA`), word for word: a row is a function from word indexes, and
reading outside it is an error TLC reports.  **`AcRows`** takes one row through
`_acsmCompile2`: packed, then flagged.

**`AcBuild`** is the compilation.  `AddPattern` is `acsmAddPattern2`;
`BeginCompile` sizes the tables; `AddPatternStates` lays out one pattern;
`NfaStep` and `DfaStep` are one iteration of the two breadth-first loops.  The
variable `word` is the only one without a counterpart in the code: the string a
state stands for.

**`AcSearch`** extends `AcBuild` and uses `AcFormats`: the machine just compiled
is packed and then fed a payload chosen one byte at a time, one action per
search loop.  `hits` is the sequence of calls of `Match`, each with the index the
loop computes: `acsmSearchSparseNFA` computes it before it steps over the byte that
completed the match (`acsmx2.c:2841`), so its hits are one byte early (`Early`).

**`SigLayout`** defines the tables the scanner expects as a function of the
signatures.  **`SigTables`** is `sig_loader.c` writing them: `Count`,
`EndCount`, `Alloc`, then `BeginApp`, `InstallSig`, `EndApp` for each
application, then `Dump`.  A `ushort` wraps at `SENTINEL + 1`; the flags are
or'ed onto what malloc returned, and `F_ele_index` stays what it was (`Junk`).

**`SigConfig`** extends `SigTables` with the rest of `load_sig`, from the file to
the hand-over to `Regex_Parse`.  A file is a sequence of atoms: the characters
that mean something to the lexer or to `strtok`, and words for the rest.  `yylex`
is a function of the file and a place in it, with flex's longest match.  `Shift`,
`KeyValuePair`, `AppSig` and `AppEnd` take one token each: a token in the middle
of a rule of `sig.y`, or the last one of a rule with the rule's action; `EndLoad`
is every other token, since nobody looks at what `yyparse` returns.  Then come the
actions of `SigTables`, on the list just read, and `BeginRegex`, `SplitSig`,
`EndRegex`, which are `parseApplication`.  `pc = "crash"` stands for a null
pointer read or a failed assertion.

**`CharSets`**, **`RegexTokens`**, **`RegexRules`**, **`RegexParser`** and
**`RegexDfa`** are the compiler, in the instance of lexertl's templates the
program uses: 8-bit characters, the C locale, one start state, a deterministic
machine with a lookup table.  `CharSets` is `string_token.hpp`: sets as sorted
ranges.  `RegexTokens` are the functions of the tokeniser that read without
keeping anything: escapes, ranges, POSIX classes, repeats, names.  `RegexRules` is
`basic_rules` with the tokeniser's state: one text at a time, one token or one
item of a bracket expression per step, with options, strings, comments, macros and
the differences of sets.  `RegexParser` is the operator precedence parser: `Shift`,
one action per production of `reduce`, and the errors; a tree is a sequence of nodes,
so that a node is its index, as it is its address in the code, and a copy is a copy.
`RegexDfa` joins the trees, splits one set of characters per step, builds the rows of
one state per step, fixes the clashes of `$` with the newline, and reassembles.

**`RegexLanguage`** says what expressions mean without any of this: the words of an
expression given by its structure, and the text it is written as.  The trees of
`RegexParser` are compared with it, and the machine of `RegexDfa` with the trees, by
the words `RegexTrees` says a tree matches.

**`HttpScan`** reads `SigLayout`'s tables.  A payload is seen through the
matches it makes, which may come in any order; `Match` is one call of the
callback `MatchFound`, `LastMatch` the one for a match that ends with the payload,
`Check` one iteration of `pattern_check`, `RegexMatch` one match of `httpParse`.
The last match comes with a pointer for an id (`acsmx2.c:2782`), of which
`MatchFound` takes the low word apart: `Pointers` may hold any such word, with any
top byte and any low half.  Writing past the array of collected elements ends the
model in `pc = "overflow"`, looking before a null pointer (`LastMatchCrashes`) in
`"crash"`, looking up an element that is not in the table (`CheckStray`) in
`"stray"`, a failed assertion in `"abort"`.

**`PacketPath`** extends `FlowTable` with `packet_handler`: filter, header
arithmetic, lookup, scan.  A program that found no memory for the buckets starts all
the same, since `main.c` drops the answer of `create_session_table`, and crashes in
the first lookup (`NoTable`); one that finds none for a session crashes in
`packet_handler`.  The fields of a frame are independent of its captured
length, as in the code, where only the length is bounded.

How they compose: `SigConfig` feeds the lists it reads to the actions of
`SigTables`, and `ConfigExact` says that these start from the very state
`SigTables` specifies (`LoadedTablesExact` proves the properties of the tables for
every file); `SigTables` shows that the tables are `SigLayout`'s, which
`HttpScan` assumes.  `AcSearch` composes `AcBuild` and `AcFormats`.  `RegexDfa` runs
behind `RegexParser`, that behind `RegexRules`, on the state they left.
`SearchesAgree` ties the rules of the expressions to the elements of the tables.
`PacketPath` composes the handler with the table, not with the scan: both parsers
return 0 whatever they find, so nothing of the scan flows back into the handler, and
`HttpScan` runs over payloads of all sessions one after the other.  What the walk
over the expressions' table reports is `TableExact`; `HttpScan` takes its reports in
any order.

## The runs

| run | instance | distinct states | shows |
|---|---|---|---|
| `FlowTable` | 2 addresses, 2 ports, 1 protocol, 2 buckets, 3 sessions | 12 thousand | the table is filed right and implements `SessionMap` |
| `AcRows` | rows of 6 inputs over 3 states, all 5 formats | 44 thousand | packing then reading is the identity |
| `AcBuild` | up to 3 patterns of 1 to 3 bytes over 2 inputs, DFA and NFA | 91 thousand | the machine is exact and its construction ends |
| `AcSearch` | up to 3 of 5 patterns, payloads of up to 5 bytes, 8 machine and format pairs | 160 thousand | the search follows the payload and loses nothing |
| `SigLoad` | up to 3 applications in 2 of 3 categories, sentinel 7, memory clean or used; files laid out otherwise, with parts left out, or broken off | 83 thousand | what is loaded is what is written; slots, chains, ids and the dump; one text for both searches |
| `HttpScan` | 4 signatures, 2 headers, 4 and 2 matches per payload | 250 thousand | reports are exact, nothing leaks between payloads |
| `PacketPath` | 2 hosts, 3 protocols, 4 captured lengths, 2 header lengths | 7 thousand | sessions are the conversations, scans stay inside |
| `RegexParse` | 4700 lists of rules: expressions of 3 levels, sets, options, macros, short texts legal or not; words of up to 3 | 88 thousand | trees and sets are what the expressions mean, the parser has a production for every handle |
| `RegexDfa` | 1400 lists of 1 to 3 overlapping rules, words of up to 3 | 90 thousand | partition, machine and table are exact |

Why the bounds are enough:

- *FlowTable.*  Two buckets and a hash that is symmetric in the addresses, not
  the ports, give both directions in one bucket, in two, and collisions of
  different conversations; a tuple that is its own reverse exists.  Three
  sessions fill a bucket with flows of several sessions.  Allocation may fail at
  any call, and a failure changes nothing but the answer.
- *AcRows.*  Six inputs with a gap limit of 1 hold an empty row, a full one, a
  gap at either end, a gap of exactly the limit and one above it, and two bands;
  the row limit of 3 decides both ways.  State 0 and another one are packed, since
  row 0 is always stored in full.
- *AcBuild.*  Patterns of three bytes over two inputs have fail chains of length
  two, shared prefixes, patterns inside others, suffixes of others and repeated
  patterns.
- *AcSearch.*  Three byte values, two of them one letter in both cases.  The
  queue has two places, so it fills and is emptied in the middle of a payload.
- *SigLoad.*  The largest configuration has more elements than the sentinel
  allows, so the numbers do wrap; the properties about numbers hold below it
  ("we just assue elemet_num < 65535", `sig_loader.c:172`).  Used memory holds a
  pattern of flags that differs from one element to the next.  Signatures have
  every type, every protocol, texts with no part, empty parts, a part without `=`,
  with `=` first or twice, and texts one atom below and at the length limit (12
  atoms, 128 bytes in the program); names are at and below theirs (4 and 16).
  `Rests` are what follows an application without being one: the file breaks off,
  or goes on wrongly, in the various states of the parser.
- *HttpScan.*  The four kinds of signature that differ for the scanner: one
  element, none of a known class, two in one header, two in different headers.
  The array of collected elements has 4 places and that of expected ones 2 (100
  and 8 in the program), so both fill.  A payload may follow another in whose
  header it begins.  The pointers of the run are one that names no header, one that
  looks like the id of a header, and two with the class of a header in force, with
  the number of an element of another class and with that of none.
- *PacketPath.*  Frames cut before the IP header, right after the UDP header,
  one byte later, and one byte after the TCP header; header lengths of 0 and 5
  words.
- *RegexParse.*  Expressions of three levels over `a`, `b` and `.` put each kind of
  repeat on each of the others, on a sequence and on a choice.  The words are made of
  `a`, `b`, `A`, the newline and the two ends of a line: a letter in both cases, a
  letter no expression names, and the character `.` and `$` treat in a way of their
  own.  Three places are enough to tell the repeats apart, whose bounds are at most
  3.  Sets are compared in all 256 values.  The texts that need not be legal are all
  of up to 4 characters out of `a()|*?"`, and one for each error of the tokeniser.
- *RegexDfa.*  Pairs and triples of rules overlap in characters, in words, in both or
  in neither, with ids that do and do not fit a `ushort`.

In six properties an exclusion or an exception matters.  `NFADecodes` leaves out banded rows: the
nondeterministic lookup of a banded row reads the wrong word
(`acsmx2.c:2205`).  For the same reason `MCAcSearch` leaves out that pair.
`HitsSound` and `OneHitPerEnd` are stated with the byte the nondeterministic search
is early by, which for a pattern at the start of a payload makes the index
-1.  Nothing in the program selects a nondeterministic machine; its own pair is
deterministic and banded.  `DumpShowsAll` is limited to two applications in a
category and two signatures in an application: from the third on the dump
skips entries and leaves its table (`sig_loader.c:281`).  It is limited, too, to
memory in which `F_ele_index`, which nothing sets, holds the number of an element.

`ParserAccepts` leaves out the repeats made lazy by a `?` that does not follow at
once, such as `a*""?` or `(?x:a* ?)`, for which `reduce` has no production.
`DfaExact` allows the machine to stop early, and to do nothing else, in two cases: a
lazy repeat is meant to take as little as it can, and a newline is moved behind `$`,
which a walk over bytes never takes.  It leaves out words on which the machine is
wrong (`Mistaken`, see below), and expressions with so many sets, classes or states
that a number means something else (`Numbered`: 32 bits in the program).
`TableExact` is about fewer than 256 classes
(with 256 the last one is stored as 0), and states how the walk differs from
lexertl's: where no rule can go on the table leads to the start state, so that the
byte that failed is consumed and is never the first of a match
(`generator.hpp:193`).

Deadlock is checked in `FlowTable`, `RegexParse` and `RegexDfa`, where `ParseEnded`
and `Ended` are the only ways to do nothing: a compiler that gets stuck between two
stages would show.  It is switched off where the modelled code stops: the
compilation and the loader end, a payload is read to its bound, the program dies in
`overflow`, `abort` or `crash`.

### Where the code does not do what it says

Three runs end in a violation, one property each:

- `AcSearchAll`: the library "finds all occurrences of all patterns"
  (`acsmx2.c:46`), but each search reports the head of a match list only, so of
  two patterns that end at the same byte one is lost.
- `AcSearchLast`: a match at the last byte of the payload is reported by the
  banded search with the pattern's text pointer instead of its id.
- `HttpScanAssert`: an element name the loader does not know gets class 0, the
  headers' class; with a `sig_id` of 0x100 or more a match near the start of a
  payload fails `assert(start >= 0)` in `httpParse`.

Others need no run of their own, because a model has the step or a property says
exactly how far the code goes:

- the nondeterministic search reports every match one byte early
  (`acsmx2.c:2841`; the deterministic loop of the same shape adds the one,
  `acsmx2.c:2414`): `HitsSound` and `OneHitPerEnd` say so of these searches and of
  no others;
- the pointer a match at the last byte is reported by may be taken for an id: for a
  header, or, should its top byte be the class in force, for an element of any
  number.  `OnlyPointersStray`, a part of `TypeOK`, says that nothing else leads out
  of the element table, and `ReportsExact` counts the element the pointer names;
- the session table may have no buckets, and a session may not have been allocated,
  when they are used (`session.c:89`, `packet_process.c:67`): `NoTable`, `Handle`;
- the fail table is freed with full rows, "don't need" it (`acsmx2.c:2079`), though
  the nondeterministic search still reads it: `NullFail` in `AcSearch`;
- the flags of an element are or'ed onto memory `malloc` did not clear, so that a
  middle element can be taken for a first or a last one: `LayoutExact` says which
  flags an element has, its own and those the memory held;
- the configuration parser's answer is dropped, so that a file with a syntax error is
  loaded up to it, and a file without an application, a name that is missing or a part
  of a text without `=` end in a null pointer: `ConfigExact`;
- the assertion of `reduce` that a handle begins where it should (`parser.hpp:257`)
  fails for the lazy repeats above: `ParserAccepts`.

- where a state has both `$` and the newline, `fix_clashes` moves the newline to the
  state behind `$` (`generator.hpp:346`).  When another word leads to that state too,
  the machine accepts what no rule matches: with the rule `a\n|ab|a$`, the word
  `ab\n`.  `Rejoins` in `DfaExact` says exactly when that can happen;
- there is one transition on the start of a line for all the rules, in the first word
  of the table, and each state with a `^` in it overwrites it (`generator.hpp:310`).  A
  `^` that is repeated comes after itself, so that it is in two states: of the rules
  `^*a` and `^b` the second is lost.  `BolFollows` in `DfaExact`.

The properties of the passing runs hold in spite of these: `HttpScan` ends its
payloads with any pointer, and has the class 0 signature among those loaded, and
`ReportsExact` says what is reported then.

## Fairness

Only `AcBuild` has a liveness property and only it assumes fairness: weak
fairness of `Compile`, the iterations of sequential loops inside one call.
Adding patterns is the caller's choice and is not fair.  The handler and the
session table answer each call in one step.  The loader and the compiler of
expressions are sequential too, but their loops count down what they read, so that
the runs, whose state graphs are finite, add only that they never get stuck.

## Proofs

Proved with TLAPS for every value of the constants that satisfies the
assumptions stated beside them.

**`PacketPathProofs`**, first part.  From `Hash \in [Tuple -> Bucket]`, for any
addresses, buckets and heap size: `TypeOK`, `FiledOnce`, `OnePerConversation`,
`BothDirections`, `SecondScanIdle` always hold, `LookupStable` and
`AnswersEachCall` hold of every step, and `Spec => ImplementsSessionMap`.  The
inductive invariant is

    IInv == TypeOK /\ Shape /\ FiledOnce /\ OnePerConversation

`FiledOnce` alone is not inductive: without `Shape` (the session at address *p*
is the one made for its own forward tuple, and ids are addresses) a new flow
could equal an old one, and without `OnePerConversation` the first flow of a
bucket need not be the only one.  The lemma everything else uses is
`LookupByConversation`: under `IInv` the two scans compute the session whose
forward tuple is *t* or its reverse.

**`PacketPathProofs`**, second part.  `PathUsesTable`: the program's behaviours are
behaviours of `FlowTable`, so all the theorems above hold in it;
`PathImplementsSessionMap` is the one worth a name.  Then
`SessionsAreConversations`, `ScanInsideCapture` and `PathTypeOK`, by the
invariant `PathInv`, which joins them to `IInv`; a program without its buckets drops
frames until it crashes, which disturbs none of the three.

**`AcRowsProofs`.**  `RowsDecode`: a row in any of the five formats is read back
exactly by the deterministic lookup, for every alphabet, every set of states and
every row.  `RowsDecodeNFA`: by the nondeterministic lookup too, unless the row is
banded.  The invariant `RowInv` says a row is the packed one up to its flag.  A full
row and a band are read by position; `BandSpans`, that the band covers every entry
that is not zero, needs the first and the last element of a set of inputs.  A
sparse row and a row in bands are laid out entry after entry and read by a scan.
`PairsLaid` and `BandsLaid` say which words the conversion lays where, whatever is
laid behind them, and `PairsStop` and `NextInBands` that the scan stops at the first
pair, or band, that does not end before the input, or after the last one.

**`HttpScanProofs`.**  `PatternFitsAlways`: the array of collected elements can
overflow only in a payload with more matches than it has places, whatever came
before it.  Its invariant `FitInv` counts: at most one element per match of this
payload, which needs the count reset by `BeginPayload`.  `ExpectationsAlwaysFit`:
`pattern_check` never writes past its array of expected elements.

`ReportsExact`: a payload is reported for a signature exactly when its elements occur
in order, each under its header, before the array is full.  The invariant `ScanInv`
has one clause per phase.  While the search runs, the elements collected are those
`Elements` gathers from the matches, and the static header is the one of the last
header match, or of an earlier payload.  While `pattern_check` runs, `Checked` holds of
the elements looked at so far.  Its two parts are what the property does not say:

- `Known`: the first *m* elements of a signature have occurred in order if and only if
  some entry expects a later element of it, or the signature is reported.  The
  property alone only speaks of whole signatures.  This is where an entry that
  expects an element must move on at the *first* one and why all of them may.
- `Counted`: there is an entry for every first element seen, and the array was not
  full before, so the place where the loop stops is the place `Window` ends.

Both rest on the numbering: elements of all signatures lie end to end
(`SeqsEndToEnd`), so an element number belongs to one place of one signature
(`EveryPlace`, `OnePlace`), and the marker of no element is none of them.

`TypeOK` says what pattern_check relies on without a test: every element collected
lies in the table (`OnlyPointersStray`).  For the elements of the search that is the
numbering again; the exception is the match at the last byte of the payload, whose
pointer may bring an element of any number, which is then the last one collected.
The proof follows it from `LastMatch` to the `Check` or `CheckStray` that meets it,
and `ReportsExact` holds of what is reached without a stray read.  About the pointer
nothing is assumed but that it is a word.  The assumptions on the constants are that
header ids lie in 1..255 (`init_http_sig` hands out 1..4), that there are less than
65535 elements (`sig_loader.c:172`), and that the signatures, too, have numbers of a
`ushort`.

**`SigTablesProofs`.**  For every configuration, every number of categories and
whatever the memory held: `SlotsExact`, `LayoutExact`, `PatternsDecode`,
`ChainsExact` and `DumpShowsAll`.  The invariant `TabInv` says of every phase what is done so far:
`Counting(n)`, that the counters are those of the first *n* applications; `Laid`,
that the signatures before `sig_offset` are written with all their elements, and
nothing else; `Filed(n, m)`, that *n* applications have their slots and *m* of them
all their signatures.  None of the properties speaks of a table half filled.

Two numberings carry it.  The *slot* of an application is the number of those sorted
before it (`SlotOf`): a set of them, which grows from one application to the next in
the order of the slots, so no two have one slot (`SlotsApart`) and, there being as
many slots as applications, none is left out (`SlotsAll`).  `IndexCounts` is the
recursive function the code computes the beginnings with.  The *elements* are
numbered twice, across the signatures of one application when they are counted and
across all signatures when they are written; `FirstsFlattened` says the two agree,
so that what is written ends where what was allocated does.

For `DumpShowsAll` the entries the dump visits are compared with those there are: the
slots of the categories lie end to end, and so do the signatures of the applications,
so the visits are lists without repetition that together make one
(`AppSlotsAll`, `SigSlotsAll`).  `VisitTwo` is where the bound of two comes in, and
`ShownRun` says that the elements shown from an expected one on are the rest of its
signature.

The proof needed an assumption no comment states.  `sig_loader.c:172` takes fewer
than 65535 *elements* for granted, but the number of the *signature* is cut to a
`ushort` in each element as well (`sigindex`), and a signature whose text has no
part has no element: with more than 65536 signatures, most of them empty,
`LayoutExact` and `ChainsExact` fail.  `NumbersFit` therefore bounds both, and the
tables of the run include an application of nine signatures, one more than the
numbers of the model, of which all but one are empty.

The loader has an invariant of its own, `LoadInv`: the place in the text is one of
it, every value held is made of its characters, and the words a key or a pair is made
of are there when they are taken.  `RulesSoFar` says that the rules handed to the
expressions are those of the signatures split so far, and `FromFile` that the tables
are untouched while the file is read and as `TabInv` says once they are built.  The
loop of the lexer that skips white space and comments is unfolded
by induction downwards from the end of the text.  At the end of the file the tables
stand where `SigTables` specifies them to start, with what was read as its
applications, so the theorems about the tables hold of what the program loads:
`LoadedTablesExact`, for every file, well formed or not, whose categories are below
`MAX_CATEGORY_ID`.  `SearchesLookForTheSame` states `SearchesAgree` for every file: a
text is split twice, once for the element table and once for the rules of the
expressions, by different code, and the parts are the same.

**`AcProofs`**, first part: the compilation.  For every alphabet, every pool of
non-empty patterns, either kind of machine: `StatesFit`, `TrieExact`,
`FailLongest`, `MatchListExact` and `MachineExact`.  The first part is the layout:
the tables sized from the lengths alone are large enough, and each pattern leaves
the states the prefixes so far.  The second is the two breadth-first loops.
Their invariant keeps, beside the variables, a set *V* of the states visited:

    NfaInv(V) == Frontier(queue, V, word, Top) /\ FailsInv(V) /\ ListsInv(V) /\ RowsInv

`Frontier` is what the queue is for, and what none of the five properties says:
the queue holds the children of *V* that are not in *V*, each one once, its strings
grow by at most one byte from the first to the last, and no state outside *V* is
shorter than the first.  So everything a step reads is finished: the fail state of
the state it visits, the fail states of that one, and, in the second loop, the
completed row of its fail state, all shorter.  `NextValidLongest` says that the walk
along the fail states ends in state 0 at the latest and stops at the longest suffix;
`FailLongest` alone does not give it, since it speaks of finished tables only.
`MatchListExact` needs lists without repetitions (`Lists`): a list is copied once,
because a state is visited once.

**`AcProofs`**, second part: the search.  For every alphabet, every pool of patterns and every payload:
`StateTracksText`, `HitsSound`, `OneHitPerEnd` and `QueueLosesNothing`, the second and
third with the byte the nondeterministic searches are early by.  It joins the
compilation to the rows: the row of the current state reads back as the row the
compilation left (an instance of `AcRowsProofs` at that row), that row leads to the
longest suffix (`IInv`), and the match list of a state is not
empty exactly if a pattern ends there.  The invariant `SearchInv` adds to the
compilation's `IInv` what the search has done so far: `Reported` for the searches that
report at once, `Collected` for the one that queues.  Both take the number of bytes
tested: a search that tests a state before it takes the next byte is one behind until
`EndOfText`, which is why that last test is there.  `Collected` counts a state as
found if it was reported *or* waits in the queue, and keeps a place of the queue
free between two bytes, without which `_add_queue` could drop a state.

The theorems have one hypothesis, `<<"NFA", Rows!ACF_BANDED>> \notin Machines`: the
nondeterministic lookup of a banded row is wrong (`acsmx2.c:2205`), and nothing in
the program selects it.  The nondeterministic machine with its fail table released
is covered: it crashes at the first fail state it needs, and what it did before
holds.  Of the constants `SearchAssumption` asks that the mark of no state
(`0xffffffff`) exceeds every input (256 of them) and that the queue has a place.

**`RegexSetsProofs`.**  For every list of rules and macros, and every greatest
character of at least 255: `CharsetsDistinct`, of the parser alone and of the whole
compiler, `PartitionExact`, and `ParserAccepts`, again of the parser and of the whole
compiler.  It has four layers.

- *Sets.*  A set is a sorted sequence of ranges with gaps between them (`CharSet`).
  `InsertExact`, `NegateExact`, `IntersectExact` and `RemoveExact` say that each
  operation makes such a sequence with the right characters, and `EqualSets` why the
  normal form is worth the trouble: two of them with the same characters are the same
  sequence, so that the map from sequences to ids is one from sets to ids.
  `intersect` is the hard one, since it changes both sets while it walks over them.
  Its invariant `MeetInv` keeps that a cursor has passed everything the other set
  could still want (`Passed`): a range that is cut in the middle moves the cursor to
  its upper half, and what is left behind below is not looked at again.  `Turns` counts
  down what is left to look at, which shows that the bound of the fold is enough.
- *Tokens.*  `CompileInv` keeps every token with characters in normal form and not
  empty (`TokenOk`) in each place a token waits: the rule being read, the macros, the
  rules, the stack of the parser.  This is where the checks of the tokeniser are
  needed: an empty set is refused at the end of a bracket expression and behind a
  difference, and a negation is not empty because what it negates has no character 0
  (the classes) or because it is checked (the bracket expressions).  The parser's
  productions never make a token with characters, and `lookup` adds a set only if the
  map does not hold it, so `MapOk` stays.
- *Classes.*  `SplitExact`: whatever list of parts that do not overlap (`PartsOk`) a
  new part is split against, the result does not overlap and every character has
  exactly the ids it had in the list and in the new part.  Its invariant `SplitInv`
  says when the loop may stop: what is left of the new part is apart from the elements
  seen so far, *or* it is an overlap that lies wholly inside them (`last`) and the
  elements to come cannot meet it, because they do not meet those seen.  `SplitSoFar`
  carries this through the phase: the classes and the sets still to be split have,
  together, every id for exactly the characters of its set.  The order of the map does
  not matter, and the theorem is for every order.
- *The stack of the parser.*  The parser reduces by precedence and then looks the
  handle up among the productions; a handle that is none is an error.
  `ParserAccepts` says that this never happens to a rule the tokeniser let pass, but
  for a lazy repeat whose two tokens are split.  `ReadInv` says what the tokeniser
  lets pass: any two tokens side by side may `Meet` (`Spelled`), and the parentheses
  are open to the depth of `paren_count` (`Nested`), in the rule being read as in the
  macros and rules kept (`Whole`).  `Piled` says what that makes of the stack: each
  token `Leans` on the one below it, the next token is in `Allowed` of the top, and
  the stack is as deep in parentheses as the tokens read (`Level`).  A handle between
  `<` and `>` of such a stack is `Ripe`, and every ripe handle is a production
  (`Produced`); the one that would not be, an expression on an open parenthesis when
  the tokens end, is excluded by `Level`.  The exception is that a second repeat may
  stand on a greedy one at the top, and only in a rule with a split lazy repeat
  (`SplitLazy`).

The constants need two assumptions: the greatest character is at least 255, since the
tables of classes go up to it, and the texts of the jobs are made of the characters
that have a code (`JobsAssumption`).  For the proofs `copy` is written as a fold over
the nodes in the order its stack meets them, and the words of a tree stand in
`RegexTrees`, apart from the RECURSIVE operators of `RegexLanguage`.

**`RegexTableProofs`.**  For every list of rules and macros: `TableExact`.  The table
is packed words with a row less than the machine, the end mark, the ids and the
transitions cut to 16 bits or to a byte; a walk over it must report, behind every byte,
what the machine does when it is restarted behind each byte that leads it nowhere.  The
packing loses nothing only if what is packed is in range, and that is most of the
proof, since nothing later in the code checks it: a row must lead to states that exist,
the columns must be classes, and the first state must not be an end.  The invariant
`TableInv` has four layers.

- *Trees.*  `Built` says that the nodes behind some node are those of one rule: each
  stands behind those it is made of, its three lists hold positions of the same rule,
  and something comes first in it if it is not nullable.  Each constructor keeps it
  (`SequenceBuilt`, `SelectionBuilt`, `IterationBuilt`, `CopyBuilt`), and so each
  production (`SequenceOk` to `DoRepeatOk`), and no node loses what it has (`Grows`).
- *The stack of trees.*  The parser pops trees without a look at how many there are.
  `DepthInv` keeps one tree for each token of the stack that stands for one, which
  needs `Piled` of `RegexSetsProofs`: what the tokens may be beside each other.  At the
  end of a rule exactly one tree is left (`RuleTree`), and `JoinTrees` makes one tree of
  them all (`Wooded`), whose leaves have tokens in `LeafTokens`.
- *The machine.*  `EquivList` splits what a state leads to into elements on `Columns`
  only, by the same `SplitExact` argument for types; `Machines` are those whose rows
  lead to states that are there, and each transition, each new row and the newlines
  moved behind `$` keep them so.  No end is among the first positions, since the
  parser refuses a rule that may match nothing, so the first state is not an end.
- *The walks.*  `WalksAgree` follows both walks side by side: `Abreast` says that the
  table's is in the row of the machine's state and has reported the same.

`TableExact` itself supposes that the sets, classes and states are fewer than the
numbers that mean something else (`Numbered`) and fewer than 256 classes, of which the
program does not check the last.  What the machine means, `DfaExact`, is not proved.

**`DataLemmas`.**  Induction over data.  The library's theorems take an operator as
a parameter and cannot be cited here; `RangeInduction` is the same fact about a *set*
of naturals, and rests on the least element of the set of counterexamples
(`LeastElement`, from the well-founded order).  `PrimitiveRecursion` says that a
function given by recursion over an interval satisfies its equations, which is how
`CountStates`, `Extended`, `Path`, `QueueSuccessors`, `FailChain`, `FirstEles`,
`Elements`, `Index` and `Walk` are unfolded.  `PartsInOrder`, `PartsCover` and
`PartsApart` say that parts laid end to end cover their total and do not meet;
`Flattened` that `FlattenSeq` lays the sequences of a sequence end to end, and
`FirstsFlattened` how sequences of sequences of sequences are numbered;
`PartsUnion` and `ListsFlattened` that lists without repetitions, whose members fill
adjacent parts, make one such list together.  `SetRecursion` and `FoldRun` say that a
fold of a sequence runs from its first element to its last: `FoldLeft` is defined over
sets of indices, of which it takes the greatest.
The rest is about suffixes (`Ends`) and lists without repetitions.

Only model-checked:

- `CompileEnds`, because liveness is out of the prover's reach;
- `ConfigExact`, which compares the applications read with those each text of the
  run was written for: that link is a table of the run, not an assumption;
- of the regular expressions, what they mean: `TreeExact` and `SetsExact` compare
  with `RegexLanguage`, which declares RECURSIVE operators, and `DfaExact` compares,
  for all words, the machine with the words of a tree, by induction over both.

## Not modelled

- libpcap, file names, printing (but for which signatures are reported).
- `AC_MALLOC` failing inside the compilation, the memory statistics, the rule
  option trees, the one- and two-byte state numbers of `acsmCompressStates`:
  nothing in the program turns the last one on.
- A search continued over several payloads, or stopped by its callback: the
  program does neither.
- Categories of 16 and more, and what lies behind the element table, which a stray
  element reads: both depend on the layout of the build.
- A macro that uses itself.  `insert_macro` enters a name before it reads the macro's
  text (`rules.hpp:239`), so such a macro would find its own unfinished tokens, where
  `TakeMacro` finds no macro of the name; the theorems about the parser do not speak
  of it.  The program inserts no macro at all.
- What lies behind a frame cut short; the header fields read there are any.
- The carriage return in a configuration, which `sig.l` takes into a symbol but
  not into a value, and a `sig_id` of 2^24 or more, whose upper bits `parse_http_sig`
  mixes with the class.
- The parts of lexertl the program's instance never runs: several start states,
  wide characters, the lookup functions and iterators, the serialisers and printers
  (`generate_cpp.hpp`, `debug.hpp`, `dot.hpp`), and `minimise`, which `main.cpp`
  leaves commented out.
- `searcher.c`, which is called from nowhere, and the macros of `queue.h`, which
  stand in the models as sequences.

## Plan

Built: the session table and the handler over it; the machine from its rows to
its search; the loader from the file to the tables and the rules; the tables of the
expressions from the text to the walk; the scan over both.

What is left of the system:

1. The composition of `RegexDfa` with `HttpScan`: the reports of the walk over a
   payload as the input of `httpParse`, instead of any order.
2. The intrusive TAILQ of `queue.h`, shown to implement the sequences
   `FlowTable` uses.
3. A search continued over several payloads, should the program come to use one.

The runs on the session table and on the handler overlap; once `FlowTable` can be
checked inside `PacketPath` on the larger instance, the first can go.

Proofs worth adding: that the states of `RegexDfa` are the sets of nodes a word leads
to and stay apart, which is what `DfaExact` rests on beside the trees.
