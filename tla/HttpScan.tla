------------------------------ MODULE HttpScan ------------------------------
(***************************************************************************)
(* The scan of payloads by app_identify/searcher/http_search.c: httpParse2 *)
(* collects the elements the Aho-Corasick search finds under the header    *)
(* line of their class and pattern_check looks for signatures in them,     *)
(* then httpParse runs over the same payload with the regular expressions. *)
(*                                                                         *)
(* The searches are seen through the matches they make, which any payload  *)
(* may bring in any order.  The header of the last match lives in a static *)
(* variable: payloads are not told apart.                                  *)
(***************************************************************************)
EXTENDS SigLayout

CONSTANTS
    Sigs,            \* the signatures loaded, each the classes of its elements
    HeaderIds,       \* the ids of the header patterns: 1..4 (init_http_sig)
    Pointers,        \* what the last match may have for an id: see Pointer
    RegexIds,        \* the patterns of httpParse: see RegexId
    PATTERN_SIZE,    \* the length of pattern: 100 in the program
    EXP_ARRAY_SIZE,  \* EXP_ARRYR_SIZE: 8 in the program
    MaxMatches,      \* bound of the model: matches of httpParse2 per payload
    MaxRegexMatches, \* bound of the model: those of httpParse
    MaxOffset        \* bound of the model: offsets httpParse matches at

(* The low word of the address of a pattern's text, as MatchFound takes it *)
(* for an id: any top byte and any low half.                               *)
Pointer == [class : 0 .. 255, low : 0 .. SENTINEL]

(* An id of httpParse: the class, the low half, what HTTP_ELEMENT_LENGTH   *)
(* makes of the bytes between, and the length of the text it matches.      *)
RegexId == [class : Class, low : 0 .. SENTINEL, len : Nat, text : Nat \ {0}]

ASSUME ScanAssumption ==
    /\ Sigs \in Seq(Seq(Class))
    /\ NumEles(Sigs) < SENTINEL /\ Len(Sigs) <= SENTINEL + 1
    /\ HeaderIds \subseteq 1 .. 255
    /\ Pointers \subseteq Pointer
    /\ RegexIds \subseteq RegexId
    /\ PATTERN_SIZE \in Nat /\ EXP_ARRAY_SIZE \in Nat \ {0}
    /\ MaxMatches \in Nat /\ MaxRegexMatches \in Nat /\ MaxOffset \in Nat

VARIABLES
    pc,            \* "idle", "search", "check", "regex", or how it ended:
                   \* "overflow", "stray", "crash", "abort"
    elementlast,   \* the header of the last match at the start of a line
    pattern,       \* the elements collected, pattern_count of them
    i,             \* the element pattern_check is at
    exp_array,     \* the elements expected next
    printed,       \* the signatures reported for this payload
    element_last,  \* the header httpParse is in
    before,        \* elementlast when the payload came
    seen,          \* the matches of the search of this payload
    regexSeen      \* how many matches httpParse has made in it

vars == <<pc, elementlast, pattern, i, exp_array, printed, element_last,
          before, seen, regexSeen>>

eles == EleTable(Sigs)

(* The ids the search passes for headers and elements.                     *)
HeaderId(h) == [class |-> 0, low |-> h]
ElementId(o) == [class |-> ClassOf(Sigs, o), low |-> o]
MatchIds == {HeaderId(h) : h \in HeaderIds} \cup
            {ElementId(o) : o \in DOMAIN eles}

IS_HTTP_ELEMENT(id) == id.class = 0

HTTP_ELEMENT_ID(id) == IF id.class = 0 THEN id.low % 256 ELSE id.class

-----------------------------------------------------------------------------

Init == /\ pc = "idle"
        /\ elementlast = 0
        /\ pattern = <<>>
        /\ i = 1
        /\ exp_array = <<>>
        /\ printed = {}
        /\ element_last = 0
        /\ before = 0
        /\ seen = <<>>
        /\ regexSeen = 0

(* Faulty form of BeginPayload: pattern_count keeps its value. *)
BeginPayload_NoReset ==
    /\ pc = "idle"
    /\ pc' = "search"
    /\ before' = elementlast
    /\ UNCHANGED <<elementlast, pattern, i, exp_array, printed, element_last,
                   seen, regexSeen>>

(* httpParse2 begins. *)
BeginPayload ==
    /\ pc = "idle"
    /\ pc' = "search"
    /\ pattern' = <<>>
    /\ before' = elementlast
    /\ UNCHANGED <<elementlast, i, exp_array, printed, element_last,
                   seen, regexSeen>>

(* pattern[pattern_count++] = o: past the end of the array anything may    *)
(* happen.                                                                 *)
Collect(o, next) ==
    /\ pattern' = Append(pattern, o)
    /\ pc' = IF Len(pattern) < PATTERN_SIZE THEN next ELSE "overflow"

(* Faulty form of InHeader: the header is not looked at. *)
InHeader_Any(id, header) == TRUE

(* An element counts under the header line of its class only. *)
InHeader(id, header) == HTTP_ELEMENT_ID(id) = header

(* MatchFound, after which the scan is at "next"; lineStart: the match is  *)
(* at offset 0 or after a newline.                                         *)
MatchFound(id, lineStart, next) ==
    /\ pc = "search"
    /\ Len(seen) < MaxMatches
    /\ IF IS_HTTP_ELEMENT(id)
       THEN /\ elementlast' =
                  IF lineStart THEN HTTP_ELEMENT_ID(id) ELSE elementlast
            /\ pc' = next
            /\ UNCHANGED pattern
       ELSE /\ IF InHeader(id, elementlast) THEN Collect(id.low, next)
               ELSE pc' = next /\ UNCHANGED pattern
            /\ UNCHANGED elementlast
    /\ seen' = Append(seen, [id |-> id, lineStart |-> lineStart])
    /\ UNCHANGED <<i, exp_array, printed, element_last, before, regexSeen>>

(* A match the search goes on after. *)
Match(id, lineStart) == MatchFound(id, lineStart, "search")

(* A match that ends with the payload: the id is a pointer to the text of  *)
(* the pattern, of which only the low word is looked at, and there is no   *)
(* byte to look at before it.  A pointer that looks like a header's id is  *)
(* one when the match is the whole payload.                                *)
LastMatch(id) == MatchFound(id, IS_HTTP_ELEMENT(id), "check")

(* When it is not, the byte before a null pointer is read. *)
LastMatchCrashes(id) ==
    /\ pc = "search"
    /\ Len(seen) < MaxMatches
    /\ IS_HTTP_ELEMENT(id)
    /\ pc' = "crash"
    /\ UNCHANGED <<elementlast, pattern, i, exp_array, printed, element_last,
                   before, seen, regexSeen>>

(* The payload is searched to its end, where no pattern matches. *)
EndSearch == /\ pc = "search"
             /\ pc' = "check"
             /\ UNCHANGED <<elementlast, pattern, i, exp_array, printed,
                            element_last, before, seen, regexSeen>>

(* Faulty form of Advance: the entries are replaced whether they expected  *)
(* this element or not.                                                    *)
Advance_All(o) ==
    [j \in DOMAIN exp_array |-> eles[o].exp_ele_index]

(* Every entry that expects this element expects its successor instead. *)
Advance(o) ==
    [j \in DOMAIN exp_array |->
        IF exp_array[j] = o THEN eles[o].exp_ele_index ELSE exp_array[j]]

(* Faulty form of Full: the array may get one entry too many. *)
Full_Late == Len(exp_array) > EXP_ARRAY_SIZE

(* The loop of pattern_check is left when the array is full. *)
Full == Len(exp_array) = EXP_ARRAY_SIZE

(* pattern_check, one collected element. *)
Check ==
    /\ pc = "check"
    /\ i <= Len(pattern) /\ ~ Full
    /\ LET o == Ushort(pattern[i])
           e == eles[o]
           expected == \E j \in DOMAIN exp_array : exp_array[j] = o
       IN  /\ o \in DOMAIN eles
           /\ exp_array' = IF START \in e.flag
                           THEN Append(exp_array, e.exp_ele_index)
                           ELSE Advance(o)
           /\ printed' = IF \/ e.flag = {START, END}
                            \/ START \notin e.flag /\ END \in e.flag /\ expected
                         THEN printed \cup {e.sigindex} ELSE printed
    /\ i' = i + 1
    /\ UNCHANGED <<pc, elementlast, pattern, element_last, before, seen,
                   regexSeen>>

(* An element that is not in the table: what lies behind the table is read *)
(* as its entry, and anything may happen.                                  *)
CheckStray ==
    /\ pc = "check"
    /\ i <= Len(pattern) /\ ~ Full
    /\ Ushort(pattern[i]) \notin DOMAIN eles
    /\ pc' = "stray"
    /\ UNCHANGED <<elementlast, pattern, i, exp_array, printed, element_last,
                   before, seen, regexSeen>>

(* httpParse begins over the same payload, in no header. *)
EndCheck ==
    /\ pc = "check"
    /\ i > Len(pattern) \/ Full
    /\ pc' = "regex"
    /\ i' = 1
    /\ exp_array' = <<>>
    /\ element_last' = 0
    /\ UNCHANGED <<elementlast, pattern, printed, before, seen, regexSeen>>

(* httpParse, one match that ends at offset "end": what it collects goes   *)
(* on top of what the first search left, and nothing reads it.             *)
RegexMatch(id, end, lineStart) ==
    LET start == end - id.len
    IN  /\ pc = "regex"
        /\ regexSeen < MaxRegexMatches
        /\ end >= id.text
        /\ IF IS_HTTP_ELEMENT(id)
           THEN /\ pc' = IF start < 0 THEN "abort" ELSE pc
                /\ element_last' =
                      IF start >= 0 /\ (start = 0 \/ lineStart)
                      THEN HTTP_ELEMENT_ID(id) ELSE element_last
                /\ UNCHANGED pattern
           ELSE /\ IF InHeader(id, element_last) THEN Collect(id.low, pc)
                   ELSE UNCHANGED <<pc, pattern>>
                /\ UNCHANGED element_last
        /\ regexSeen' = regexSeen + 1
        /\ UNCHANGED <<elementlast, i, exp_array, printed, before, seen>>

(* Both parsers have returned 0; their locals are gone. *)
EndPayload == /\ pc = "regex"
              /\ pc' = "idle"
              /\ element_last' = 0
              /\ before' = 0
              /\ seen' = <<>>
              /\ regexSeen' = 0
              /\ printed' = {}
              /\ UNCHANGED <<elementlast, pattern, i, exp_array>>

Next == \/ BeginPayload
        \/ \E id \in MatchIds, b \in BOOLEAN :
              (b => IS_HTTP_ELEMENT(id)) /\ Match(id, b)
        \/ \E id \in Pointers : LastMatch(id) \/ LastMatchCrashes(id)
        \/ EndSearch
        \/ Check
        \/ CheckStray
        \/ EndCheck
        \/ \E id \in RegexIds, end \in 1 .. MaxOffset, b \in BOOLEAN :
              (b => IS_HTTP_ELEMENT(id)) /\ RegexMatch(id, end, b)
        \/ EndPayload

Spec == Init /\ [][Next]_vars

-----------------------------------------------------------------------------

(* pattern_check writes exp_array without a test of the index.             *)
ExpectationsFit == Len(exp_array) <= EXP_ARRAY_SIZE

(* Every element pattern_check is given lies in the table, but for the     *)
(* last one when the match at the last byte brought it: that is the low    *)
(* half of a pointer.                                                      *)
OnlyPointersStray ==
    pc \in {"search", "check", "stray"} =>
        \A n \in DOMAIN pattern :
            pattern[n] \notin DOMAIN eles =>
                /\ pc # "search" /\ n = Len(pattern)
                /\ Last(seen).id \in Pointers
                /\ Last(seen).id.low = pattern[n]

TypeOK ==
    /\ pc \in {"idle", "search", "check", "regex",
               "overflow", "stray", "crash", "abort"}
    /\ elementlast \in 0 .. 255 /\ element_last \in 0 .. 255
    /\ pattern \in Seq(0 .. SENTINEL)
    /\ OnlyPointersStray
    /\ ExpectationsFit
    /\ printed \subseteq 0 .. Len(Sigs) - 1

(* The header the n-th match is in: that of the last header match at the   *)
(* start of a line, the one left by earlier payloads if there is none.     *)
HeaderAt(n) ==
    LET heads == {k \in 1 .. n - 1 : IS_HTTP_ELEMENT(seen[k].id)
                                     /\ seen[k].lineStart}
    IN  IF heads = {} THEN before
        ELSE HTTP_ELEMENT_ID(seen[CHOOSE k \in heads :
                                     \A l \in heads : l <= k].id)

(* The elements of this payload found under the header of their class, as  *)
(* MatchFound is told them: a pointer under the header its top byte names  *)
(* is the element its low half names.                                      *)
Elements ==
    LET found[n \in 0 .. Len(seen)] ==
            IF n = 0 THEN <<>>
            ELSE IF /\ ~ IS_HTTP_ELEMENT(seen[n].id)
                    /\ seen[n].id.class = HeaderAt(n)
                 THEN Append(found[n - 1], seen[n].id.low)
                 ELSE found[n - 1]
    IN  found[Len(seen)]

(* Those pattern_check gets to: up to the element that fills its array.    *)
Window ==
    LET starts(k) == {n \in 1 .. k : /\ Elements[n] \in DOMAIN eles
                                     /\ START \in eles[Elements[n]].flag}
        full == {k \in DOMAIN Elements : Cardinality(starts(k)) = EXP_ARRAY_SIZE}
    IN  IF full = {} THEN Elements
        ELSE SubSeq(Elements, 1, CHOOSE k \in full : \A l \in full : k <= l)

(* The elements of a signature, in order. *)
Chain(k) == [n \in 1 .. Len(Sigs[k + 1]) |-> FirstEle(Sigs, k) + n - 1]

(* c occurs in w, with anything between its elements. *)
OccursIn(c, w) ==
    \E f \in [DOMAIN c -> DOMAIN w] :
        /\ \A m, n \in DOMAIN c : m < n => f[m] < f[n]
        /\ \A n \in DOMAIN c : c[n] = w[f[n]]

(* A payload is reported for a signature exactly when the elements of the  *)
(* signature occur in it in the order of the file, with anything between   *)
(* them, each under the header of its class, before the array of expected  *)
(* elements is full.  Should the match at the last byte be collected, the  *)
(* last element is the one its pointer names, which need not be the one    *)
(* that was found.                                                         *)
ReportsExact ==
    pc = "regex" =>
        printed = {k \in 0 .. Len(Sigs) - 1 :
                      /\ Sigs[k + 1] # <<>>
                      /\ OccursIn(Chain(k), Window)}

(* The array of collected elements holds those of one payload only: it     *)
(* cannot overflow on a payload with fewer matches, in both searches       *)
(* together, than it has places.                                           *)
PatternFits == pc = "overflow" => Len(seen) + regexSeen > PATTERN_SIZE

(* assert(start >= 0) in httpParse (http_search.c:104): no match of a      *)
(* header begins before the payload.                                       *)
StartNotNegative == pc # "abort"
=============================================================================
