------------------------------- MODULE XkbInfo -------------------------------
(***************************************************************************)
(* GnomeXkbInfo (gnome-xkb-info.c): the keyboard layouts of the rules      *)
(* files, read when they are first asked for and again after the setting   *)
(* show-all-sources changed.  The indexes by language and by country point *)
(* into the table of layouts, and a variant to its main layout.            *)
(*                                                                         *)
(* Pointers are places in a heap that only grows.  A rules file is the     *)
(* sequence of the elements a parser meets; the one with libxkbregistry    *)
(* and the one of XML are both here.  The indexes are made of the names    *)
(* of languages and countries, in the locale of the program, which does    *)
(* not change.                                                             *)
(***************************************************************************)
EXTENDS Naturals, Sequences, SequencesExt, FiniteSets

CONSTANTS RulesFiles,     \* [base, extras : sequences of elements]
          Names, Codes,   \* of layouts; of languages and of countries
          CodeNames,      \* what gnome_get_language_from_code and
                          \* gnome_get_country_from_code answer, or None
          None,
          MaxParses       \* bound

Kinds == {"language", "country"}

\* What the indexes are made of: codes of one name are one, and a code without
\* a name is in none.
NamesOf(codes, kind) == {CodeNames[<<kind, code>>] : code \in codes} \ {None}
Texts == {CodeNames[k] : k \in Kinds \X Codes} \ {None}

VARIABLES
  xkbregistry,      \* HAVE_XKBREGISTRY
  rules,            \* the files there are
  show_all_sources,
  heap,             \* the layouts allocated since the start, and if they live
  layouts_table,    \* layout ids to layouts, or None
  indexes,          \* layouts_by_language and _by_country
  options,          \* option_groups_table
  current,          \* the current_parser pointers that are not NULL
  parses,
  state             \* "alive" or "undefined"

vars == <<xkbregistry, rules, show_all_sources, heap, layouts_table, indexes,
          options, current, parses, state>>

\* What both parsers work on.
Parser == [heap |-> heap, table |-> <<>>, indexes |-> [k \in Kinds \X Texts |-> {}],
           options |-> <<>>, layout |-> current.layout, group |-> current.group,
           failed |-> FALSE, undefined |-> FALSE]

Layouts == 1..Len(heap)
Ids == Names \cup (Names \X Names)

\* What is taken for granted of a rules file: XML is nested, a variant is one
\* of a layout, and a group is in none.
IsRulesFile(elements) ==
  LET Is(i, element) == elements[i].element = element
  IN /\ elements \in Seq(Range(elements))
     /\ \A i \in DOMAIN elements :
          /\ Is(i, "layout") \/ Is(i, "variant") =>
               elements[i].name \in Names /\ elements[i].codes \in [Kinds -> SUBSET Codes]
          /\ Is(i, "variant") => \E j \in 1..i : Is(j, "layout")
          /\ Is(i, "/layout") =>
               \E j \in 1..i : Is(j, "layout") /\ \A k \in j..(i - 1) : ~Is(k, "/layout")
          /\ Is(i, "group") \/ Is(i, "option") \/ Is(i, "/group") =>
               \A j \in 1..i : Is(j, "layout") => \E k \in j..i : Is(k, "/layout")

\* The id of a variant, NAME+VARIANT, is not the name of a layout.
AreRulesFiles ==
  /\ None \notin Ids \cup Nat \cup {"open", "freed"} /\ Names \cap (Names \X Names) = {}
  /\ DOMAIN CodeNames = Kinds \X Codes
  /\ \A files \in RulesFiles : IsRulesFile(files.base) /\ IsRulesFile(files.extras)

TypeOK ==
  /\ xkbregistry \in BOOLEAN /\ show_all_sources \in BOOLEAN
  /\ rules \in RulesFiles
  /\ \A l \in Layouts :
       /\ heap[l].id \in Ids \cup {None} /\ heap[l].live \in BOOLEAN
       /\ heap[l].main_layout \in Layouts \cup {None}
       /\ heap[l].codes \in [Kinds -> SUBSET Codes]
  /\ layouts_table # None =>
       /\ DOMAIN layouts_table \subseteq Ids
       /\ \A id \in DOMAIN layouts_table : layouts_table[id] \in Layouts
  /\ indexes # None => indexes \in [Kinds \X Texts -> SUBSET Layouts]
  /\ current.layout \in Layouts \cup {None} /\ current.group \in {None, "open", "freed"}
  /\ parses \in 0..MaxParses /\ state \in {"alive", "undefined"}

Init ==
  /\ xkbregistry \in BOOLEAN /\ show_all_sources \in BOOLEAN /\ rules \in RulesFiles
  /\ heap = <<>> /\ layouts_table = None /\ indexes = None /\ options = None
  /\ current = [layout |-> None, group |-> None]
  /\ parses = 0 /\ state = "alive"
-----------------------------------------------------------------------------
(* Layouts                                                                 *)

New(id, xkb_name, main, codes) ==
  [id |-> id, xkb_name |-> xkb_name, main_layout |-> main, codes |-> codes, live |-> TRUE]

Free(p, l) == [p EXCEPT !.heap[l].live = FALSE]

\* The codes a layout is found by: a variant has those of its main layout if
\* it gives none of its own.
CodesOf(layouts, l, kind) ==
  IF layouts[l].main_layout # None /\ layouts[l].codes[kind] = {}
  THEN layouts[layouts[l].main_layout].codes[kind]
  ELSE layouts[l].codes[kind]

\* g_hash_table_replace in the table and add_layout_to_locale_tables.  The set
\* of a name is one of ids; no other layout of this id is in it, for none was
\* in the table.
AddLayout(p, l) ==
  [p EXCEPT !.table = [id \in DOMAIN @ \cup {p.heap[l].id} |->
                         IF id = p.heap[l].id THEN l ELSE @[id]],
            !.indexes = [k \in DOMAIN @ |->
                           IF k[2] \in NamesOf(CodesOf(p.heap, l, k[1]), k[1])
                           THEN @[k] \cup {l} ELSE @[k]]]

\* A layout that was given before is freed; the first one stays.
AddOrFree(p, l) ==
  IF p.heap[l].id \in DOMAIN p.table THEN Free(p, l) ELSE AddLayout(p, l)
-----------------------------------------------------------------------------
(* libxkbregistry: layouts and variants come in any order                  *)

\* One turn of the loop of add_layouts; entry.variant is None in a layout.
AddEntry(p, entry) ==
  LET main == IF entry.variant = None THEN None ELSE p.table[entry.name]
      xkb_name == IF entry.variant = None THEN entry.name ELSE entry.variant
      id == IF entry.variant = None THEN entry.name ELSE <<entry.name, entry.variant>>
  IN IF entry.variant # None /\ entry.name \notin DOMAIN p.table
     THEN p
     ELSE AddOrFree([p EXCEPT !.heap =
                       Append(@, New(id, xkb_name, main, entry.codes))],
                    Len(p.heap) + 1)

\* What libxkbregistry says of element i: the layout that it is or is in, and
\* the variant that it is.
EntryOf(elements, i) ==
  LET main == CHOOSE j \in 1..i : /\ elements[j].element = "layout"
                                  /\ \A k \in (j + 1)..i : elements[k].element # "layout"
  IN [name |-> elements[main].name,
      variant |-> IF elements[i].element = "variant" THEN elements[i].name ELSE None,
      codes |-> elements[i].codes]

\* Either all layouts or all variants, in the order libxkbregistry has them:
\* here from the last to the first.
AddLayouts(p, elements, which) ==
  FoldLeft(LAMBDA q, i : IF elements[i].element = which
                         THEN AddEntry(q, EntryOf(elements, i)) ELSE q,
           p, Reverse([i \in DOMAIN elements |-> i]))

\* The options of a group are those its end comes with.
OptionsOf(elements) ==
  LET ends == {e \in ToSet(elements) : e.element = "/group"}
  IN [name \in {e.name : e \in ends} |-> UNION {e.options : e \in {f \in ends : f.name = name}}]

IsBroken(elements) ==
  \E i \in DOMAIN elements : elements[i].element \in {"error", "missing"}

\* parse_rules_file with libxkbregistry, which parses all it loads or fails.
ParseWithRegistry(p, files) ==
  LET elements == files.base \o (IF show_all_sources THEN files.extras ELSE <<>>)
  IN IF IsBroken(elements)
     THEN [p EXCEPT !.failed = TRUE]
     ELSE [AddLayouts(AddLayouts(p, elements, "layout"), elements, "variant")
             EXCEPT !.options = OptionsOf(elements)]
-----------------------------------------------------------------------------
(* The XML parser                                                          *)

\* parse_error frees what is under way, and leaves the pointers to it.
ParseError(p) ==
  [p EXCEPT !.failed = TRUE,
            !.undefined = @ \/ (p.layout # None /\ ~p.heap[p.layout].live)
                            \/ p.group = "freed",
            !.heap = [l \in DOMAIN @ |->
                        IF l = p.layout THEN [@[l] EXCEPT !.live = FALSE] ELSE @[l]],
            !.group = IF @ = None THEN None ELSE "freed"]

StartLayout(p, e) ==
  IF p.layout # None THEN ParseError(p)
  ELSE [p EXCEPT !.heap = Append(@, New(None, e.name, None, e.codes)),
                 !.layout = Len(p.heap) + 1]

EndLayout(p) ==
  LET named == [p EXCEPT !.heap[p.layout].id = p.heap[p.layout].xkb_name]
  IN [AddOrFree(named, p.layout) EXCEPT !.layout = None]

\* The start and the end of a variant.  Its main layout is the one in the
\* table if there is one of that name, for the one it is in is then freed.
Variant_OfTheOneItIsIn(p, e) ==
  IF p.layout = None THEN ParseError(p)
  ELSE LET name == p.heap[p.layout].xkb_name
       IN AddOrFree([p EXCEPT !.heap = Append(@, New(<<name, e.name>>, e.name, p.layout, e.codes))],
                    Len(p.heap) + 1)
Variant(p, e) ==
  IF p.layout = None THEN ParseError(p)
  ELSE LET name == p.heap[p.layout].xkb_name
           main == IF name \in DOMAIN p.table THEN p.table[name] ELSE p.layout
       IN AddOrFree([p EXCEPT !.heap = Append(@, New(<<name, e.name>>, e.name, main, e.codes))],
                    Len(p.heap) + 1)

\* The name of a group goes to the layout a file before this one left open, if
\* there is one, which may have been freed.
StartGroup(p) ==
  IF p.group # None THEN ParseError(p)
  ELSE [p EXCEPT !.group = "open",
                 !.undefined = @ \/ (p.layout # None /\ ~p.heap[p.layout].live)]

\* The start and the end of an option, and the end of a group: they have no
\* name when it went to a layout.  A group that is given again takes the place
\* of the first.
Option(p) ==
  IF p.group = None \/ p.layout # None THEN ParseError(p)
  ELSE [p EXCEPT !.undefined = @ \/ p.group = "freed"]
EndGroup(p, e) ==
  IF p.layout # None THEN ParseError(p)
  ELSE [p EXCEPT !.group = None,
                 !.options = [name \in DOMAIN @ \cup {e.name} |->
                                IF name = e.name THEN e.options ELSE @[name]]]

\* parse_start_element and parse_end_element; nothing is parsed after an error.
\* Of a file that cannot be read nothing is.
ParseElement(p, e) ==
  IF p.failed THEN p
  ELSE CASE e.element = "layout" -> StartLayout(p, e)
         [] e.element = "/layout" -> EndLayout(p)
         [] e.element = "variant" -> Variant(p, e)
         [] e.element = "group" -> StartGroup(p)
         [] e.element = "/group" -> EndGroup(p, e)
         [] e.element = "option" -> Option(p)
         [] e.element = "missing" -> [p EXCEPT !.failed = TRUE]
         [] OTHER -> ParseError(p)

\* parse_rules_file without libxkbregistry.
ParseXML(p, files) ==
  LET base == FoldLeft(ParseElement, p, files.base)
  IN IF base.failed \/ ~show_all_sources THEN base
     ELSE FoldLeft(ParseElement, base, files.extras)
-----------------------------------------------------------------------------
\* Every layout of a table is freed with it.
FreeAll(layouts, table) ==
  [l \in DOMAIN layouts |->
     IF \E id \in DOMAIN table : table[id] = l
     THEN [layouts[l] EXCEPT !.live = FALSE] ELSE layouts[l]]

\* parse_rules: new tables, which are cleared again when the files cannot be
\* parsed.
ParseRules ==
  LET p == IF xkbregistry THEN ParseWithRegistry(Parser, rules) ELSE ParseXML(Parser, rules)
  IN /\ layouts_table' = IF p.failed THEN None ELSE p.table
     /\ indexes' = IF p.failed THEN None ELSE p.indexes
     /\ options' = IF p.failed THEN None ELSE p.options
     /\ heap' = IF p.failed THEN FreeAll(p.heap, p.table) ELSE p.heap
     /\ current' = [layout |-> p.layout, group |-> p.group]
     /\ state' = IF p.undefined THEN "undefined" ELSE state
     /\ parses' = parses + 1

\* Any function that asks for something: ensure_rules_are_parsed.
EnsureRulesAreParsed ==
  /\ state = "alive" /\ parses < MaxParses
  /\ layouts_table = None
  /\ ParseRules
  /\ UNCHANGED <<xkbregistry, rules, show_all_sources>>

\* show_all_sources_changed: the indexes and the options stay.
ShowAllSourcesChanged_KeepsTable ==
  /\ state = "alive"
  /\ show_all_sources' = ~show_all_sources
  /\ IF layouts_table = None THEN UNCHANGED heap ELSE heap' = FreeAll(heap, layouts_table)
  /\ UNCHANGED <<xkbregistry, rules, layouts_table, indexes, options, current, parses, state>>
ShowAllSourcesChanged ==
  /\ state = "alive"
  /\ show_all_sources' = ~show_all_sources
  /\ layouts_table' = None
  /\ IF layouts_table = None THEN UNCHANGED heap ELSE heap' = FreeAll(heap, layouts_table)
  /\ UNCHANGED <<xkbregistry, rules, indexes, options, current, parses, state>>

\* Another version of the rules files is installed.
RulesInstalled ==
  /\ rules' \in RulesFiles
  /\ UNCHANGED <<xkbregistry, show_all_sources, heap, layouts_table, indexes,
                 options, current, parses, state>>

Next == EnsureRulesAreParsed \/ ShowAllSourcesChanged \/ RulesInstalled

Spec == Init /\ [][Next]_vars
-----------------------------------------------------------------------------
\* gnome_xkb_info_get_layouts_for_language and _for_country.
LayoutsFor(kind, code) ==
  IF CodeNames[<<kind, code>>] = None THEN {}
  ELSE {heap[l].id : l \in indexes[<<kind, CodeNames[<<kind, code>>]>>]}

\* Once the layouts can be asked for, whatever is reached from the table or
\* from the indexes is alive, also after another parse, and the main layout of
\* a variant is the one the table has, or that which a file that ends within
\* it has left under way.
NoDanglingLayouts ==
  layouts_table # None /\ state = "alive" =>
    /\ \A id \in DOMAIN layouts_table :
         LET l == heap[layouts_table[id]]
         IN /\ l.live /\ l.id = id
            /\ l.main_layout # None =>
                 /\ heap[l.main_layout].live
                 /\ l.main_layout # current.layout =>
                      /\ heap[l.main_layout].id \in DOMAIN layouts_table
                      /\ layouts_table[heap[l.main_layout].id] = l.main_layout
    /\ \A k \in DOMAIN indexes : \A l \in indexes[k] : heap[l].live

\* Who asks for a language or country that has a name is answered the layouts
\* of it: those with a code of that name, of their own or, in a variant without
\* any, of their main layout.
FoundByItsCodes ==
  layouts_table # None /\ state = "alive" =>
    \A kind \in Kinds, code \in Codes :
      LET Meant(codes) == \E c \in codes : CodeNames[<<kind, c>>] = CodeNames[<<kind, code>>]
          Fits(l) == \/ Meant(l.codes[kind])
                     \/ /\ l.codes[kind] = {} /\ l.main_layout # None
                        /\ Meant(heap[l.main_layout].codes[kind])
      IN CodeNames[<<kind, code>>] # None =>
           LayoutsFor(kind, code) = {id \in DOMAIN layouts_table : Fits(heap[layouts_table[id]])}

\* The two together: the tables can be walked, and are complete.  Only the
\* parser of XML uses a layout that is freed, and not the first time.
LayoutTablesAreSound ==
  /\ NoDanglingLayouts /\ FoundByItsCodes
  /\ state = "undefined" => ~xkbregistry /\ parses > 1
=============================================================================
