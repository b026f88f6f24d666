------------------------------ MODULE MCHelpers ------------------------------
(***************************************************************************)
(* Instances of the components of Helpers: names that take each way, rules *)
(* files that give layouts again and that fail, locales whose names differ *)
(* in each of their parts.                                                 *)
(***************************************************************************)
EXTENDS Helpers, Integers, TLC

AppName(base, directory, desktop) ==
  [base |-> base, directory |-> directory, desktop |-> desktop]

\* The characters are a and -, then \x2d as it would be escaped, then a letter
\* beyond ASCII.
TestAppNames ==
  {AppName(<<97, 45>>, TRUE, TRUE), AppName(<<92, 120, 50, 100>>, FALSE, TRUE),
   AppName(<<97, -61>>, FALSE, FALSE)}
-----------------------------------------------------------------------------
CONSTANTS us, fr, intl, alt, grp, en, eng, FR, zz

CodesOf(languages, countries) == [language |-> languages, country |-> countries]
Layout(name, codes) == [element |-> "layout", name |-> name, codes |-> codes]
Variant(name, codes) == [element |-> "variant", name |-> name, codes |-> codes]
Element(kind) == [element |-> kind]
Group(ids) == <<Element("group"), Element("option"),
                    [element |-> "/group", name |-> grp, options |-> ids]>>

\* Two codes of one language, and one that nothing is known of.
TestCodeNames ==
  [k \in {"language", "country"} \X {en, eng, FR, zz} |->
     IF k[1] = "language" /\ k[2] \in {en, eng} THEN "English"
     ELSE IF k = <<"country", FR>> THEN "France" ELSE None]

BaseFile ==
  <<Layout(us, CodesOf({en}, {})), Variant(intl, CodesOf({}, {FR})), Element("/layout")>>
    \o Group({us})
\* Gives us again, with a variant that is known and one that is new.
ExtrasFile ==
  <<Layout(us, CodesOf({}, {})), Variant(intl, CodesOf({en}, {})),
    Variant(alt, CodesOf({}, {zz})), Element("/layout"),
    Layout(fr, CodesOf({eng, zz}, {FR})), Element("/layout")>> \o Group({fr})

TestRulesFiles ==
  {[base |-> BaseFile, extras |-> ExtrasFile],
   [base |-> BaseFile,
    extras |-> <<Layout(us, CodesOf({}, {})), Element("error"), Element("/layout")>>],
   [base |-> ExtrasFile,
    extras |-> <<Layout(us, CodesOf({}, {})), Variant(alt, CodesOf({}, {}))>>],
   [base |-> <<Layout(fr, CodesOf({en}, {})), Variant(alt, CodesOf({}, {}))>>,
    extras |-> Group({us})],
   [base |-> <<Element("group")>>, extras |-> BaseFile],
   [base |-> Group({fr}), extras |-> <<Element("missing")>>]}
-----------------------------------------------------------------------------
Name(language, territory, codeset, modifier) ==
  [language |-> language, territory |-> territory, codeset |-> codeset,
   modifier |-> modifier, matches |-> TRUE]
Installed(language, territory, modifier, charset, default) ==
  [language |-> language, territory |-> territory, modifier |-> modifier,
   charset |-> charset, default |-> default]

glibc ==
  [lax |-> FALSE,
   installed |-> {Installed("de", "AT", None, "UTF-8", FALSE),
                  Installed("de", "AT", None, "ISO-8859-1", TRUE),
                  Installed("ca", "ES", None, "UTF-8", TRUE),
                  Installed("ca", "ES", "valencia", "UTF-8", TRUE),
                  Installed("ca", "AD", None, "UTF-8", TRUE),
                  Installed("gl", "ES", None, "UTF-8", TRUE)}]
musl == [lax |-> TRUE, installed |-> {}]
TestLibcs == {glibc, musl}

deAT == Name("de", "AT", None, None)
deATLatin1 == Name("de", "AT", "ISO-8859-1", None)
caES == Name("ca", "ES", "utf8", None)
caESvalencia == Name("ca", "ES", None, "valencia")
caESvalenciaUtf8 == Name("ca", "ES", "utf8", "valencia")
caAD == Name("ca", "AD", None, None)
glES == Name("gl", "ES", "UTF-8", None)

TestListings ==
  {<<deAT, caESvalencia, deATLatin1, caAD>>, <<deATLatin1, deAT, caESvalenciaUtf8>>, <<caES, glES>>}
TestTranslations ==
  {Name("de", None, None, None), Name("ca", None, None, None), Name("gl", "ES", None, None)}
TestLocales == {deATLatin1, caESvalenciaUtf8}
TestInLanguages == {None, deATLatin1}

Entry(codes, name, common_name) ==
  [codes |-> codes, name |-> name, common_name |-> common_name, misfit |-> FALSE]
\* The second file has another name for a code of the first.
TestLanguageEntries ==
  [iso_639 |-> <<Entry({"de", "ger"}, <<"German">>, None),
                 Entry({"ca", "cat"}, <<"Catalan", "Valencian">>, None),
                 [Entry({"d"}, <<"German">>, None) EXCEPT !.misfit = TRUE],
                 Entry({"gl"}, <<"Galician">>, None)>>,
   iso_639_3 |-> <<Entry({"cat"}, <<"Catalan">>, None)>>]
TestTerritoryEntries ==
  <<Entry({"AT"}, <<"Austria">>, None), Entry({"ES"}, None, <<"Spain">>),
    Entry({"AD"}, <<"Andorra">>, None)>>
\* The catalogs of the two locales answers are translated to, one of which has
\* the list of items in another order, and no word of its own for Galician.
TestMessages ==
  <<"iso_639", caES, <<"Catalan", "Valencian">>>> :> <<"catalan", "valencian">>
    @@ <<"iso_639", caES, <<"Galician">>>> :> <<"gallec">>
    @@ <<"gnome-desktop-3.0", caES, <<"Unspecified">>>> :> <<"No especificat">>
    @@ <<"iso_639", deATLatin1, <<"Catalan", "Valencian">>>> :> <<"Valencian", "Catalan">>
    @@ <<"iso_639", deATLatin1, <<"Galician">>>> :> <<"Valencian">>
    @@ <<"iso_3166", deATLatin1, <<"Andorra">>>> :> <<"Spain">>
TestCapitals == "catalan" :> "Catalan" @@ "gallec" :> "Gallec"
TestModifiers == "valencia" :> "Valencia"
TestInputSources == <<"gl", "ES">> :> "es"
=============================================================================
