----------------------------- MODULE SigTables ------------------------------
(***************************************************************************)
(* The signature tables of app_identify/loader/sig_loader.c: the parsed    *)
(* applications are counted, tables of that size are allocated, and each   *)
(* application, signature and element is written into its slot.  malloc    *)
(* returns memory that was used before: the flags of an element are or'ed  *)
(* onto what it holds.                                                     *)
(***************************************************************************)
EXTENDS SigLayout

CONSTANTS
    Configs,          \* the lists of applications that may be loaded
    MAX_CATEGORY_ID,  \* 16 in the program
    Junk              \* what malloc'ed memory may hold: flags of elements
                      \* and F_ele_index of signatures, which repeat

Category == 0 .. MAX_CATEGORY_ID - 1

(* application_s: the classes of the elements stand for sig_s.             *)
Application == [id : Nat, category : Category, sigs : Seq(Seq(Class))]

ASSUME ConfigAssumption ==
    /\ MAX_CATEGORY_ID \in Nat \ {0}
    /\ Configs \subseteq Seq(Application)
    /\ Junk \subseteq [flags : Seq(SUBSET Flags) \ {<<>>},
                       index : Seq(Int) \ {<<>>}]

VARIABLES
    pc,           \* "count", "alloc", "app", "sig", "dump", "done",
                  \* "exit" or "wild"
    config,       \* app_root
    root,         \* the applications still to install
    app_nums, sig_nums, ele_nums, cate_num, cate_index,     \* app_summary
    mem,          \* what the memory held when allocated: the flags of eles
                  \* and the F_ele_index of sigs, which no code sets
    apps, sigs, eles,  \* the slots written
    cate_offset, sig_offset, ele_offset,
    cur,          \* the slot of the application being installed
    app_list,     \* the ids of the patterns to compile
    dumped        \* the slots dump_application_array visits

summary == <<app_nums, sig_nums, ele_nums, cate_num, cate_index>>
tables == <<mem, apps, sigs, eles, cate_offset, sig_offset, ele_offset, cur,
            app_list>>
vars == <<pc, config, root, summary, tables, dumped>>

Empty == [x \in {} |-> 0]

(* f with x mapped to y as well. *)
Put(f, x, y) == [z \in DOMAIN f \cup {x} |-> IF z = x THEN y ELSE f[z]]

(* The patterns of init_http_sig, the headers' ids: class 0. *)
Headers == <<4, 4, 2, 3, 1>>

(* app_summary and the tables before anything is counted. *)
TablesInit ==
    /\ app_nums = 0 /\ sig_nums = 0 /\ ele_nums = 0
    /\ cate_num = [c \in Category |-> 0]
    /\ cate_index = [c \in Category |-> 0]
    /\ mem = [flags |-> Empty, index |-> Empty]
    /\ apps = Empty /\ sigs = Empty /\ eles = Empty
    /\ cate_offset = [c \in Category |-> 0]
    /\ sig_offset = 0 /\ ele_offset = 0 /\ cur = 0
    /\ app_list = <<>>
    /\ dumped = [apps |-> <<>>, sigs |-> <<>>, eles |-> <<>>]

Init == /\ pc = "count"
        /\ config \in Configs
        /\ root = config
        /\ TablesInit

(* get_Application_summary, the loop over the applications. *)
Count ==
    /\ pc = "count"
    /\ root # <<>>
    /\ LET app == Head(root)
       IN  /\ app_nums' = app_nums + 1
           /\ cate_num' = [cate_num EXCEPT ![app.category] = @ + 1]
           /\ sig_nums' = sig_nums + Len(app.sigs)
           /\ ele_nums' = ele_nums + NumEles(app.sigs)
    /\ root' = Tail(root)
    /\ UNCHANGED <<pc, config, cate_index, tables, dumped>>

(* Where the slots of a category begin: after those of the ones before it. *)
Index(num) ==
    LET before[c \in Category] ==
            IF c = 0 THEN 0 ELSE before[c - 1] + num[c - 1]
    IN  before

EndCount ==
    /\ pc = "count"
    /\ root = <<>>
    /\ cate_index' = Index(cate_num)
    /\ pc' = "alloc"
    /\ UNCHANGED <<config, root, app_nums, sig_nums, ele_nums, cate_num,
                   tables, dumped>>

(* The memory of n entries. *)
Repeated(held, n) == [k \in 0 .. n - 1 |-> held[(k % Len(held)) + 1]]

(* install_Application: the three tables are allocated, not cleared, and   *)
(* the pattern list begins with the headers.                               *)
Alloc ==
    /\ pc = "alloc"
    /\ \E held \in Junk :
          mem' = [flags |-> Repeated(held.flags, ele_nums),
                  index |-> Repeated(held.index, sig_nums)]
    /\ app_list' = [i \in DOMAIN Headers |-> [class |-> 0, low |-> Headers[i]]]
    /\ root' = config
    /\ pc' = "app"
    /\ UNCHANGED <<config, summary, apps, sigs, eles, cate_offset, sig_offset,
                   ele_offset, cur, dumped>>

(* "install application failed" *)
AllocFails == /\ pc = "alloc"
              /\ pc' = "exit"
              /\ UNCHANGED <<config, root, summary, tables, dumped>>

(* Faulty form of Slot: applications are stored as they come. *)
Slot_InOrder(category) ==
    FoldFunctionOnSet(LAMBDA x, n : x + n, 0, cate_offset, Category)

(* The slot of the next application of a category. *)
Slot(category) == cate_index[category] + cate_offset[category]

BeginApp ==
    /\ pc = "app"
    /\ root # <<>>
    /\ LET app == Head(root)
       IN  /\ cur' = Slot(app.category)
           /\ apps' = Put(apps, cur', [appid |-> app.id,
                                       sig_index |-> sig_offset,
                                       sig_num |-> 0])
    /\ pc' = "sig"
    /\ UNCHANGED <<config, root, summary, mem, sigs, eles, cate_offset,
                   sig_offset, ele_offset, app_list, dumped>>

(* How many signatures of the application at hand are installed. *)
Installed == sig_offset - apps[cur].sig_index

(* Faulty form of EleEntry: the last element expects its successor too.    *)
EleEntry_NoEnd(o, n) ==
    LET i == o - ele_offset
    IN  [sigindex |-> Ushort(sig_offset),
         flag |-> mem.flags[o] \cup FlagOf(i, n),
         exp_ele_index |-> Ushort(o + 1)]

(* Faulty form of EleEntry: elements are flagged by their number in the    *)
(* table, not in their signature.                                          *)
EleEntry_Global(o, n) ==
    LET i == o - ele_offset
    IN  [sigindex |-> Ushort(sig_offset),
         flag |-> mem.flags[o] \cup FlagOf(o, n),
         exp_ele_index |-> IF i = n - 1 THEN SENTINEL ELSE Ushort(o + 1)]

(* The entry of element o, one of n elements of the signature at hand: the *)
(* flag is or'ed in, the numbers are cut to a ushort.                      *)
EleEntry(o, n) ==
    LET i == o - ele_offset
    IN  [sigindex |-> Ushort(sig_offset),
         flag |-> mem.flags[o] \cup FlagOf(i, n),
         exp_ele_index |-> IF i = n - 1 THEN SENTINEL ELSE Ushort(o + 1)]

(* Faulty form of PatternId: the id is the number of the signature.        *)
PatternId_Sig(class, o) == [class |-> class, low |-> sig_offset]

(* element->id and the id of its pattern: the class in the top byte, the   *)
(* number of the element below it.                                         *)
PatternId(class, o) == [class |-> class, low |-> o]

(* One signature with all its elements. *)
InstallSig ==
    /\ pc = "sig"
    /\ Installed < Len(Head(root).sigs)
    /\ LET app == Head(root)
           classes == app.sigs[Installed + 1]
           n == Len(classes)
           new == ele_offset .. ele_offset + n - 1
       IN  /\ sigs' = Put(sigs, sig_offset, <<app.category, app.id>>)
           /\ eles' = [o \in DOMAIN eles \cup new |->
                          IF o \in new THEN EleEntry(o, n) ELSE eles[o]]
           /\ app_list' = app_list \o
                 [i \in 1 .. n |-> PatternId(classes[i], ele_offset + i - 1)]
           /\ ele_offset' = ele_offset + n
    /\ sig_offset' = sig_offset + 1
    /\ UNCHANGED <<pc, config, root, summary, mem, apps, cate_offset, cur,
                   dumped>>

EndApp ==
    /\ pc = "sig"
    /\ Installed = Len(Head(root).sigs)
    /\ apps' = [apps EXCEPT ![cur].sig_num = Installed]
    /\ cate_offset' = [cate_offset EXCEPT ![Head(root).category] = @ + 1]
    /\ root' = Tail(root)
    /\ pc' = "app"
    /\ UNCHANGED <<config, summary, mem, sigs, eles, sig_offset, ele_offset,
                   cur, app_list, dumped>>

EndInstall == /\ pc = "app"
              /\ root = <<>>
              /\ pc' = "dump"
              /\ UNCHANGED <<config, root, summary, tables, dumped>>

(* Faulty form of Visit: the pointer moves two entries at a time. *)
Visit_Twice(first, n) == [j \in 1 .. n |-> first + 2 * (j - 1)]

(* The entries a loop of dump_application_array visits: the pointer is     *)
(* moved on by the loop counter, 0, 1, 2 ..., each time.                   *)
Visit(first, n) == [j \in 1 .. n |-> first + (j * (j - 1)) \div 2]

(* The elements shown with a signature: from its F_ele_index to the first  *)
(* one that expects no other.                                              *)
Shown(first) ==
    <<first, CHOOSE o \in DOMAIN eles :
                /\ first <= o /\ eles[o].exp_ele_index = SENTINEL
                /\ \A p \in first .. o - 1 :
                      eles[p].exp_ele_index # SENTINEL>>

(* dump_application_array: with a slot outside its table it reads, and     *)
(* follows, whatever is there.                                             *)
Dump ==
    LET appSlots == FlattenSeq([c \in 1 .. MAX_CATEGORY_ID |->
                                   Visit(cate_index[c - 1], cate_num[c - 1])])
        inside == ToSet(appSlots) \subseteq DOMAIN apps
        sigSlots == FlattenSeq([j \in DOMAIN appSlots |->
                        Visit(apps[appSlots[j]].sig_index,
                              apps[appSlots[j]].sig_num)])
        firsts == [k \in DOMAIN sigSlots |-> mem.index[sigSlots[k]]]
    IN  /\ pc = "dump"
        /\ IF /\ inside /\ ToSet(sigSlots) \subseteq DOMAIN sigs
              /\ ToSet(firsts) \subseteq DOMAIN eles
           THEN /\ dumped' = [apps |-> appSlots, sigs |-> sigSlots,
                              eles |-> [k \in DOMAIN firsts |->
                                           Shown(firsts[k])]]
                /\ pc' = "done"
           ELSE /\ UNCHANGED dumped
                /\ pc' = "wild"
        /\ UNCHANGED <<config, root, summary, tables>>

Next == \/ Count \/ EndCount
        \/ Alloc \/ AllocFails
        \/ BeginApp \/ InstallSig \/ EndApp \/ EndInstall
        \/ Dump

Spec == Init /\ [][Next]_vars

-----------------------------------------------------------------------------

Loaded == pc \in {"dump", "done", "wild"}

AppSigs == [a \in DOMAIN config |-> config[a].sigs]

AllSigs == FlattenSeq(AppSigs)

(* The signatures of application a come after those of the ones before it: *)
(* they are numbered as the elements of signatures are.                    *)
SigsBefore(a) == FirstEle(AppSigs, a - 1)

(* "we just assue elemet_num < 65535" (sig_loader.c:172): the numbers of   *)
(* the elements are told from the end mark.  Nothing is said of the number *)
(* of signatures, but sigindex is a ushort too.                            *)
NumbersFit == ele_nums < SENTINEL /\ sig_nums <= SENTINEL + 1

(* The applications are sorted by category without one overwriting         *)
(* another: every slot is written, those of a category are contiguous, and *)
(* within it the order of the file is kept.                                *)
SlotsExact ==
    Loaded =>
        /\ DOMAIN apps = 0 .. app_nums - 1
        /\ \A a \in DOMAIN config :
              LET before == {b \in DOMAIN config :
                                config[b].category < config[a].category}
                  rank == {b \in 1 .. a - 1 :
                                config[b].category = config[a].category}
                  slot == Cardinality(before) + Cardinality(rank)
              IN  apps[slot] = [appid |-> config[a].id,
                                sig_index |-> SigsBefore(a),
                                sig_num |-> Len(config[a].sigs)]

(* The elements met from o on by going to the element expected next, n at  *)
(* most.                                                                   *)
Walk(o, n) ==
    LET at[i \in 0 .. n] ==
            IF i = 0 THEN o
            ELSE IF at[i - 1] \notin DOMAIN eles THEN at[i - 1]
            ELSE eles[at[i - 1]].exp_ele_index
    IN  at

(* While the numbers fit, the expected elements lead from the first        *)
(* element of a signature through all its elements, no others, in order,   *)
(* to the end mark.                                                        *)
ChainsExact ==
    Loaded /\ NumbersFit =>
        \A k \in DOMAIN sigs :
            LET mine == {o \in DOMAIN eles : eles[o].sigindex = k}
                n == Cardinality(mine)
                first == CHOOSE o \in mine : \A p \in mine : o <= p
                at == Walk(first, n)
            IN  /\ n = Len(AllSigs[k + 1])
                /\ n > 0 => /\ {at[i] : i \in 0 .. n - 1} = mine
                            /\ \A i \in 1 .. n - 1 : at[i - 1] < at[i]
                            /\ at[n] = SENTINEL

(* The tables are the ones the scanner is written for, but for the flags   *)
(* the memory held: on clean memory they are exactly those.                *)
LayoutExact ==
    Loaded /\ NumbersFit =>
        eles = [o \in DOMAIN mem.flags |->
                   [EleTable(AllSigs)[o] EXCEPT !.flag = @ \cup mem.flags[o]]]

(* The pattern of an element carries its class, and the low half of its id *)
(* leads back to its own entry.                                            *)
PatternsDecode ==
    Loaded /\ NumbersFit =>
        /\ Len(app_list) = Len(Headers) + ele_nums
        /\ \A o \in DOMAIN eles :
              LET p == app_list[Len(Headers) + o + 1]
              IN  /\ Ushort(p.low) = o
                  /\ p.class = ClassOf(AllSigs, o)

(* With at most two applications in a category and two signatures in an    *)
(* application, the dump shows every application and every signature once. *)
(* The elements it shows with a signature begin wherever F_ele_index, which*)
(* was never set, happens to point.  If that is an element it leaves no    *)
(* table: what it shows are elements of one signature, up to its last.     *)
DumpShowsAll ==
    /\ \A c \in Category : cate_num[c] <= 2
    /\ \A a \in DOMAIN config : Len(config[a].sigs) <= 2
    /\ \A k \in DOMAIN sigs : mem.index[k] \in DOMAIN eles
    => /\ pc # "wild"
       /\ pc = "done" =>
             /\ IsInjective(dumped.apps) /\ ToSet(dumped.apps) = DOMAIN apps
             /\ IsInjective(dumped.sigs) /\ ToSet(dumped.sigs) = DOMAIN sigs
             /\ NumbersFit =>
                   \A r \in ToSet(dumped.eles) :
                      LET mine == eles[r[1]].sigindex
                      IN  /\ \A o \in r[1] .. r[2] : eles[o].sigindex = mine
                          /\ \A o \in DOMAIN eles :
                                eles[o].sigindex = mine => o <= r[2]
=============================================================================
