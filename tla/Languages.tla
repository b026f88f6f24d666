------------------------------ MODULE Languages ------------------------------
(***************************************************************************)
(* The locales of the system and their names (gnome-languages.c).  The     *)
(* list is made of what `locale -a' prints and of the directories of the   *)
(* C library, in whatever order these come; it is made when a call first   *)
(* needs it, as are the tables of the ISO codes.                           *)
(*                                                                         *)
(* The name of a locale is a record; matches tells whether the regular     *)
(* expression of gnome_parse_locale takes it: it does not when the codeset *)
(* comes behind the modifier, or in POSIX.                                 *)
(***************************************************************************)
EXTENDS Naturals, Sequences, SequencesExt, FiniteSets

CONSTANTS Libcs,          \* [lax : the C library takes any name, installed : locales]
          Listings,       \* sequences of names that may be listed
          Translations,   \* the translations installed for this library
          LanguageEntries,        \* [iso_639, iso_639_3 : entries] of the ISO code files
          TerritoryEntries,       \* of iso_3166
          Messages,       \* [<<domain, locale, items>> -> items] of the catalogs
          Capitals,       \* items that begin with a small letter, and how with a capital
          Modifiers,      \* [modifier -> label], the modifiers that have one
          InputSources,   \* default_input_sources, by <<language, territory>>
          Locales, Codes, \* names; codes of languages and territories, asked about
          InLanguages,    \* locales that answers are translated to; None for LcMessages
          LcMessages,     \* the locale of the program
          None

VARIABLES
  libc,                   \* the C library and its locales
  available_locales_map,  \* ids to names, or None
  listed,                 \* what was listed when it was made
  languages_map, territories_map,     \* codes to names, or None
  answer                  \* of the last call

vars == <<libc, available_locales_map, listed, languages_map, territories_map, answer>>

\* The charset that is asked for, and what else the C library takes for it.
Utf8 == "UTF-8"
Spellings == {Utf8, "utf8", "utf-8"}

TypeOK ==
  /\ libc \in Libcs
  /\ available_locales_map # None =>
       \A id \in DOMAIN available_locales_map :
         LET name == available_locales_map[id]
         IN /\ name.matches /\ name.codeset # None
            /\ id = [name EXCEPT !.codeset = None]
  /\ \A map \in {languages_map, territories_map} :
       map # None => \A code \in DOMAIN map : Len(code) \in {2, 3}

Init ==
  /\ libc \in Libcs
  /\ available_locales_map = None /\ listed = {} /\ languages_map = None /\ territories_map = None
  /\ answer = None
-----------------------------------------------------------------------------
(* The C library: newlocale and nl_langinfo                                *)

\* The charset of the locale of a name, None if there is no such locale.  A
\* modifier that is not known, as one with a codeset behind it, is left out.
Charset(name) ==
  LET fits == {l \in libc.installed :
                 /\ l.language = name.language /\ l.territory = name.territory
                 /\ l.modifier = IF name.matches THEN name.modifier ELSE None
                 /\ \/ name.codeset = None /\ l.default
                    \/ name.codeset = l.charset
                    \/ name.codeset \in Spellings /\ l.charset = Utf8}
  IN IF libc.lax THEN Utf8
     ELSE IF fits = {} THEN None ELSE (CHOOSE l \in fits : TRUE).charset

language_name_is_valid(name) == Charset(name) # None
-----------------------------------------------------------------------------
(* Names                                                                   *)

normalize_codeset(codeset) == IF codeset \in {Utf8, "utf8"} THEN Utf8 ELSE codeset

\* gnome_parse_locale: the parts of a name, with the usual form of the codeset
\* unless the C library does not know the locale by it; None when it fails.
gnome_parse_locale(name) ==
  LET normalized == [name EXCEPT !.codeset = normalize_codeset(@)]
  IN IF ~name.matches THEN None
     ELSE IF name.codeset # None /\ language_name_is_valid(normalized)
          THEN normalized ELSE name

\* gnome_normalize_locale puts the parts together again.
gnome_normalize_locale(name) == gnome_parse_locale(name)

\* <name>.UTF-8, whatever the name ends with.
AppendUtf8(name) ==
  [name EXCEPT !.codeset = Utf8, !.matches = @ /\ name.modifier = None]

HasTranslations(name) ==
  \/ name \in Translations
  \/ [name EXCEPT !.codeset = None] \in Translations
  \/ [name EXCEPT !.codeset = None, !.territory = None, !.modifier = None] \in Translations

\* What is taken for granted of what is listed: that a name has its parts, and
\* that names which differ in the codeset alone, and are all in UTF-8, differ
\* in its length, for add_locale knows no other order.
ListedNames == UNION {ToSet(names) : names \in Listings}
IsName(name) ==
  /\ name = [language |-> name.language, territory |-> name.territory,
             codeset |-> name.codeset, modifier |-> name.modifier, matches |-> name.matches]
  /\ name.matches \in BOOLEAN
CodesetsOf(name) ==
  IF name.codeset = None THEN {Utf8} ELSE {name.codeset, normalize_codeset(name.codeset)}
MayBeUtf8(library, name) == library.lax \/ name.codeset \in Spellings \cup {None}
AreListings ==
  /\ None \notin {Utf8, "utf8"}
  /\ \A library \in Libcs : \A l \in library.installed : l.charset # "utf8"
  /\ \A names \in Listings : names \in Seq(ToSet(names))
  /\ \A name \in ListedNames : IsName(name) /\ \A c \in CodesetsOf(name) : Len(c) \in Nat
  /\ \A library \in Libcs : \A a, b \in {name \in ListedNames : MayBeUtf8(library, name)} :
       [a EXCEPT !.codeset = None] = [b EXCEPT !.codeset = None] =>
         \A c \in CodesetsOf(a), d \in CodesetsOf(b) : Len(c) = Len(d) => c = d
-----------------------------------------------------------------------------
(* The available locales                                                   *)

\* The name a listed locale is used by, None when it is not in UTF-8.
Utf8Name(language_name) ==
  LET name == IF language_name.codeset = None THEN AppendUtf8(language_name)
              ELSE language_name
  IN IF \/ normalize_codeset(Charset(language_name)) = Utf8
        \/ language_name.codeset = None /\ normalize_codeset(Charset(name)) = Utf8
     THEN name ELSE None

\* The locale that is made of it, None when it is not taken.
LocaleOf(language_name) ==
  LET name == Utf8Name(language_name)
  IN IF \/ name = None
        \/ ~language_name_is_valid(name)
        \/ gnome_parse_locale(name) = None
        \/ ~HasTranslations(gnome_parse_locale(name))
     THEN None ELSE gnome_parse_locale(name)

\* add_locale; utf8_only is always TRUE.  The longer name of a locale stays.
Put(map, id, locale) == [i \in DOMAIN map \cup {id} |-> IF i = id THEN locale ELSE map[i]]
AddLocale_LastWins(map, language_name) ==
  LET locale == LocaleOf(language_name)
  IN IF locale = None THEN map ELSE Put(map, [locale EXCEPT !.codeset = None], locale)
AddLocale(map, language_name) ==
  LET locale == LocaleOf(language_name)
      id == [locale EXCEPT !.codeset = None]
  IN IF \/ locale = None
        \/ id \in DOMAIN map /\ Len(map[id].codeset) > Len(locale.codeset)
     THEN map ELSE Put(map, id, locale)

\* collect_locales, from `locale -a' (nothing when it fails), then from the
\* directory.
Collected(lines, dirents) == FoldLeft(AddLocale, <<>>, lines \o dirents)

Collect ==
  IF available_locales_map # None THEN UNCHANGED <<available_locales_map, listed>>
  ELSE \E lines \in Listings \cup {<<>>}, dirents \in Listings \cup {<<>>} :
         /\ available_locales_map' = Collected(lines, dirents)
         /\ listed' = ToSet(lines \o dirents)

\* count_languages_and_territories and the functions that ask for a count.
is_unique_language_ByTerritory(map, code) ==
  Cardinality({id.territory : id \in {i \in DOMAIN map : i.language = code}}) = 1
is_unique_language(map, code) ==
  Cardinality({id \in DOMAIN map : id.language = code}) = 1
is_unique_territory(map, code) ==
  Cardinality({id \in DOMAIN map : id.territory = code}) = 1
-----------------------------------------------------------------------------
(* The ISO codes                                                           *)

\* The start tags of one kind of element.  A code that has not the length of
\* its attribute (entry.misfit) spoils the entry; a later entry of a code wins.
ParseTag(map, entry) ==
  LET name == IF entry.common_name # None THEN entry.common_name ELSE entry.name
  IN IF entry.misfit \/ name = None THEN map
     ELSE [code \in DOMAIN map \cup entry.codes |->
             IF code \in entry.codes THEN name ELSE map[code]]

\* A file is read into a table; it may be missing, or broken at any place.
Read(map, entries) ==
  {FoldLeft(ParseTag, map, SubSeq(entries, 1, n)) : n \in 0..Len(entries)}

\* Both files of the languages are read, whatever becomes of the first.
ReadLanguages ==
  UNION {Read(map, LanguageEntries.iso_639_3) : map \in Read(<<>>, LanguageEntries.iso_639)}
ReadTerritories == Read(<<>>, TerritoryEntries)

languages_init ==
  IF languages_map # None THEN UNCHANGED languages_map
  ELSE languages_map' \in ReadLanguages

territories_init ==
  IF territories_map # None THEN UNCHANGED territories_map
  ELSE territories_map' \in ReadTerritories

Package == "gnome-desktop-3.0"

is_fallback_language(code) == code \in {"C", "POSIX"}

get_language(map, code) ==
  IF is_fallback_language(code) THEN <<"Unspecified">>
  ELSE IF Len(code) \in {2, 3} /\ code \in DOMAIN map THEN map[code] ELSE None

get_territory(map, code) ==
  IF Len(code) \in {2, 3} /\ code \in DOMAIN map THEN map[code] ELSE None

Locale(translation) == IF translation = None THEN LcMessages ELSE translation

\* What no catalog has stays as it is.
dgettext(domain, locale, items) ==
  IF <<domain, locale, items>> \in DOMAIN Messages
  THEN Messages[<<domain, locale, items>>] ELSE items

\* The first of the items, once all are translated, with a capital.
Translated(domain, items, translation) ==
  LET item == Head(dgettext(domain, Locale(translation), items))
  IN IF items = None \/ ~language_name_is_valid(Locale(translation)) THEN None
     ELSE IF item \in DOMAIN Capitals THEN Capitals[item] ELSE item

\* "Unspecified" is in the language of the program.
get_translated_language(map, code, translation) ==
  IF ~is_fallback_language(code)
  THEN Translated(IF Len(code) = 2 THEN "iso_639" ELSE "iso_639_3",
                  get_language(map, code), translation)
  ELSE IF ~language_name_is_valid(Locale(translation)) THEN None
  ELSE Head(dgettext(Package, LcMessages, get_language(map, code)))

get_translated_territory(map, code, translation) ==
  Translated("iso_3166", get_territory(map, code), translation)

\* A modifier that has no label stands for itself.
gnome_get_translated_modifier(modifier, translation) ==
  IF modifier = None \/ ~language_name_is_valid(Locale(translation)) THEN None
  ELSE IF modifier \in DOMAIN Modifiers
       THEN Head(dgettext(Package, Locale(translation), <<Modifiers[modifier]>>))
       ELSE modifier

\* What is taken for granted of the files of the ISO codes: a code has two or
\* three letters.
AreEntries(entries) ==
  /\ entries \in Seq(ToSet(entries))
  /\ \A entry \in ToSet(entries) :
       ~entry.misfit => \A code \in entry.codes : Len(code) \in {2, 3}
-----------------------------------------------------------------------------
(* The names of locales                                                    *)

\* What a name says of the codeset: nothing if `locale' is in UTF-8.
CodesetShown(codeset, locale) ==
  LET charset == Charset(Locale(locale))
  IN IF normalize_codeset(charset) \in {Utf8, None} THEN None
     ELSE IF codeset = None THEN charset ELSE codeset

LanguageOnly(language) ==
  [language |-> language, modifier |-> None, territory |-> None, codeset |-> None]

\* gnome_get_language_from_locale, once the tables are there.
LanguageName(locale, translation, languages, territories, map) ==
  LET parts == gnome_parse_locale(locale)
      language == IF parts = None THEN None
                  ELSE get_translated_language(languages, parts.language, translation)
  IN IF language = None THEN None
     ELSE IF is_unique_language(map, parts.language) THEN LanguageOnly(language)
     ELSE [language |-> language,
           modifier |-> gnome_get_translated_modifier(parts.modifier, translation),
           territory |-> IF parts.territory = None THEN None
                         ELSE get_translated_territory(territories, parts.territory, translation),
           codeset |-> CodesetShown(parts.codeset, locale)]

TerritoryOnly(territory) ==
  [territory |-> territory, language |-> None, modifier |-> None, codeset |-> None]

\* gnome_get_country_from_locale: the codeset is shown for the language the
\* name is translated to.
CountryName(locale, translation, languages, territories, map) ==
  LET parts == gnome_parse_locale(locale)
      territory == IF parts = None \/ parts.territory = None THEN None
                   ELSE get_translated_territory(territories, parts.territory, translation)
  IN IF territory = None THEN None
     ELSE IF is_unique_territory(map, parts.territory) THEN TerritoryOnly(territory)
     ELSE [territory |-> territory,
           language |-> get_translated_language(languages, parts.language, translation),
           modifier |-> gnome_get_translated_modifier(parts.modifier, translation),
           codeset |-> CodesetShown(parts.codeset, translation)]
-----------------------------------------------------------------------------
(* The calls                                                               *)

\* The list is made once a language is found that might be ambiguous.
GetLanguageFromLocale(locale, translation) ==
  /\ languages_init /\ territories_init
  /\ IF LanguageName(locale, translation, languages_map', territories_map', <<>>) = None
     THEN answer' = None /\ UNCHANGED <<available_locales_map, listed>>
     ELSE /\ Collect
          /\ answer' = LanguageName(locale, translation, languages_map', territories_map',
                                    available_locales_map')
  /\ UNCHANGED libc

GetCountryFromLocale(locale, translation) ==
  /\ languages_init /\ territories_init
  /\ IF CountryName(locale, translation, languages_map', territories_map', <<>>) = None
     THEN answer' = None /\ UNCHANGED <<available_locales_map, listed>>
     ELSE /\ Collect
          /\ answer' = CountryName(locale, translation, languages_map', territories_map',
                                   available_locales_map')
  /\ UNCHANGED libc

GetAllLocales ==
  /\ Collect
  /\ answer' = [locales |-> {available_locales_map'[id] : id \in DOMAIN available_locales_map'}]
  /\ UNCHANGED <<libc, languages_map, territories_map>>

GetLanguageFromCode(code, translation) ==
  /\ languages_init
  /\ answer' = [name |-> get_translated_language(languages_map', code, translation)]
  /\ UNCHANGED <<libc, available_locales_map, listed, territories_map>>

GetCountryFromCode(code, translation) ==
  /\ territories_init
  /\ answer' = [name |-> get_translated_territory(territories_map', code, translation)]
  /\ UNCHANGED <<libc, available_locales_map, listed, languages_map>>

\* gnome_get_input_source_from_locale has a table of its own; the key of a
\* locale without a territory is in no entry.
GetInputSourceFromLocale(locale) ==
  /\ LET parts == gnome_parse_locale(locale)
         key == <<parts.language, parts.territory>>
     IN answer' = IF parts # None /\ key \in DOMAIN InputSources
                  THEN [source |-> InputSources[key]] ELSE None
  /\ UNCHANGED <<libc, available_locales_map, listed, languages_map, territories_map>>

Next ==
  \/ GetAllLocales
  \/ \E locale \in Locales :
       \/ GetInputSourceFromLocale(locale)
       \/ \E translation \in InLanguages :
            \/ GetLanguageFromLocale(locale, translation)
            \/ GetCountryFromLocale(locale, translation)
  \/ \E code \in Codes, translation \in InLanguages :
       \/ GetLanguageFromCode(code, translation)
       \/ GetCountryFromCode(code, translation)

Spec == Init /\ [][Next]_vars
-----------------------------------------------------------------------------
\* Each available locale is one the C library knows, in UTF-8, there are
\* translations for it and its name is normalized; and the names do not depend
\* on the order the locales were listed in.
LocalesAreUsable ==
  available_locales_map # None =>
    /\ available_locales_map = Collected(SetToSeq(listed), <<>>)
    /\ \A id \in DOMAIN available_locales_map :
         LET name == available_locales_map[id]
         IN /\ Charset(name) = Utf8 /\ HasTranslations(name)
            /\ gnome_normalize_locale(name) = name

\* Two available locales of a language have one name, in any translation, only
\* if neither their territories nor their modifiers have names that differ; and
\* likewise two of a territory, with their languages and modifiers.
NamesTellLocalesApart ==
  (available_locales_map # None /\ languages_map # None /\ territories_map # None) =>
    \A a \in DOMAIN available_locales_map, b \in DOMAIN available_locales_map :
    \A translation \in InLanguages :
      LET LName(id) == LanguageName(available_locales_map[id], translation, languages_map,
                                    territories_map, available_locales_map)
          CName(id) == CountryName(available_locales_map[id], translation, languages_map,
                                   territories_map, available_locales_map)
          Language(id) == get_translated_language(languages_map, id.language, translation)
          Territory(id) == IF id.territory = None THEN None
                           ELSE get_translated_territory(territories_map, id.territory, translation)
          Modifier(id) == gnome_get_translated_modifier(id.modifier, translation)
      IN /\ a.language = b.language /\ LName(a) = LName(b) /\ LName(a) # None =>
              Territory(a) = Territory(b) /\ Modifier(a) = Modifier(b)
         /\ a.territory = b.territory /\ CName(a) = CName(b) /\ CName(a) # None =>
              Language(a) = Language(b) /\ Modifier(a) = Modifier(b)
=============================================================================
