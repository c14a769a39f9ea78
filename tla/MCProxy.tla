------------------------------ MODULE MCProxy ------------------------------
(***************************************************************************)
(* A small instance of Proxy: a project that is built for a server of its  *)
(* own, then as a static site with functions, and a request for either.    *)
(***************************************************************************)
EXTENDS Proxy

CONSTANTS d1, d2

Nothing == [framework |-> Absent, install |-> Absent, build |-> Absent, serveMode |-> Absent,
            output |-> Absent, start |-> Absent]
Commit(facts, config, dir) ==
  [facts |-> facts, config |-> config, dirs |-> {}, valid |-> TRUE, writes |-> dir, ignored |-> dir]
Sources == [d \in {d1, d2} |->
  IF d = d1 THEN Commit({"package.json", "vite", "sveltekit", "build"}, Nothing, {"dist"})
  ELSE Commit({"Makefile"}, [Nothing EXCEPT !.build = "make"], {"out"})]

Preset(slug, needs, over, default) ==
  [slug |-> slug, every |-> needs, some |-> {}, supersedes |-> over, install |-> Absent,
   build |-> "preset", output |-> Absent, default |-> default]
PresetList == <<Preset("vite", {"vite"}, {}, "dist"), Preset("sveltekit", {"sveltekit"}, {"vite"}, Absent)>>
CandidateList == <<"dist", "out">>

Hello == <<Lit("api"), Lit("hello")>>
AnyOne == <<Lit("api"), Param("id")>>
Rest == <<Lit("api"), CatchAll("rest")>>
TheSite == [d \in {d1, d2} |->
  [functions |-> IF d = d2 THEN <<Hello, AnyOne, Rest>> ELSE <<>>,
   redirects |-> IF d = d2 THEN <<[source |-> <<Lit("old")>>]>> ELSE <<>>,
   rewrites |-> IF d = d2 THEN <<[source |-> <<Lit("hi")>>, destination |-> Hello]>> ELSE <<>>,
   files |-> {[path |-> <<>>, as |-> "index.html"]}, cleanUrls |-> FALSE, has404 |-> FALSE]]

Keys == {<<d1, 0>>, <<d2, 1>>, <<d2, 2>>, <<d2, 3>>}
OneScript == [k \in Keys |-> k[1]]
Paths == {<<"api", "x">>, <<"api", "x", "y">>, <<"hi">>, <<"old">>, <<"about">>}
Lengths == [n \in {"api", "hello", "id", "rest"} |->
  CASE n = "api" -> 3 [] n = "hello" -> 5 [] n = "id" -> 2 [] OTHER -> 4]
=============================================================================
