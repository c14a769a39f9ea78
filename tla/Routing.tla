------------------------------ MODULE Routing -------------------------------
(***************************************************************************)
(* How the proxy picks what serves a path: apps/proxy/src/routing.ts,      *)
(* static.ts and runtime/function-server.mjs, and the order of routes that *)
(* apps/builder/src/functions.ts leaves in the manifest. A path is a       *)
(* sequence of names, a route or pattern a sequence of segments; what a    *)
(* parameter captures is kept where a destination uses it.                 *)
(***************************************************************************)
EXTENDS Naturals, SequencesExt

CONSTANT CharLen        \* name -> its length in characters

Lit(name) == [kind |-> "lit", name |-> name]       \* users
Param(name) == [kind |-> "param", name |-> name]   \* [id] in a route, :id in a pattern
CatchAll(name) == [kind |-> "all", name |-> name]  \* [...rest], :rest*

Segment == [kind : {"lit", "param", "all"}, name : STRING]

SegmentMatches(seg, name) == seg.kind = "param" \/ seg.name = name

(* The segments before the first catch-all match one name each.            *)
Fixed(route) == SelectInSeq(route, LAMBDA s : s.kind = "all")
PrefixMatches(route, path, n) ==
  /\ n <= Len(path)
  /\ \A i \in 1..n : SegmentMatches(route[i], path[i])

MatchFunctionPrefix(route, path) ==       \* a mutant: the rest of the path is ignored
  PrefixMatches(route, path, IF Fixed(route) = 0 THEN Len(route) ELSE Fixed(route) - 1)

(* matchFunctionRoute: a catch-all takes whatever is left, even nothing.   *)
MatchFunctionRoute(route, path) ==
  IF Fixed(route) = 0
  THEN Len(path) = Len(route) /\ PrefixMatches(route, path, Len(route))
  ELSE PrefixMatches(route, path, Fixed(route) - 1)

(* matchRoute of the function server walks the route until a catch-all, a  *)
(* missing name or a difference.                                           *)
MatchRoute(route, path) ==
  LET Stops(i) == route[i].kind = "all" \/ i > Len(path) \/ ~SegmentMatches(route[i], path[i])
      first == SelectInSeq([i \in DOMAIN route |-> i], Stops)
  IN IF first = 0 THEN Len(path) = Len(route) ELSE route[first].kind = "all"

(* matchPattern: the regular expression of /docs/:rest* needs the slash    *)
(* before what it captures, so the catch-all at the end takes one name or  *)
(* more.                                                                   *)
MatchPattern(source, path) ==
  IF Fixed(source) = 0
  THEN Len(path) = Len(source) /\ PrefixMatches(source, path, Len(source))
  ELSE Len(path) >= Fixed(source) /\ PrefixMatches(source, path, Fixed(source) - 1)

(* applyParams: a name the source captured is replaced, others are kept.   *)
ApplyParams(destination, source, path) ==
  LET Captured(seg) ==
        LET i == SelectInSeq(source, LAMBDA s : s.kind # "lit" /\ s.name = seg.name)
        IN IF seg.kind = "lit" \/ i = 0 THEN <<seg.name>>
           ELSE IF source[i].kind = "all" THEN SubSeq(path, i, Len(path)) ELSE <<path[i]>>
  IN FlattenSeq([i \in DOMAIN destination |-> Captured(destination[i])])

(* findRedirect and findRewrite take the first rule that matches.          *)
FirstRule(rules, path) == SelectInSeq(rules, LAMBDA rule : MatchPattern(rule.source, path))
Rewritten(rules, path) ==
  LET i == FirstRule(rules, path)
  IN IF i = 0 THEN path ELSE ApplyParams(rules[i].destination, rules[i].source, path)

-----------------------------------------------------------------------------
(* discoverFunctions: sort puts static routes before dynamic ones, dynamic *)
(* ones before catch-alls, and longer ones first; it is stable.            *)
IsDynamic(route) == \E i \in DOMAIN route : route[i].kind # "lit"
IsCatchAll(route) == Fixed(route) # 0
Brackets == [lit |-> 0, param |-> 2, all |-> 5]
SegmentLength(seg) == 1 + CharLen[seg.name] + Brackets[seg.kind]
RouteLength(route) == FoldSeq(LAMBDA seg, n : SegmentLength(seg) + n, 0, route)

Before(a, b) ==
  \/ ~IsDynamic(a) /\ IsDynamic(b)
  \/ IsDynamic(a) = IsDynamic(b) /\ ~IsCatchAll(a) /\ IsCatchAll(b)
  \/ /\ IsDynamic(a) = IsDynamic(b) /\ IsCatchAll(a) = IsCatchAll(b)
     /\ RouteLength(a) > RouteLength(b)

(* The entry handle finds: of those that match, the first in that order.   *)
FindFunction(routes, path) ==
  LET matching == {i \in DOMAIN routes : MatchFunctionRoute(routes[i], path)}
  IN {i \in matching : \A j \in matching : ~Before(routes[j], routes[i])
                                           /\ (Before(routes[i], routes[j]) \/ i <= j)}

-----------------------------------------------------------------------------
(* resolveCandidates: the files tried for a path, in their order. A name   *)
(* with an extension stands for itself only.                               *)
ResolveCandidates(path, hasExtension, cleanUrls) ==
  IF path = <<>> THEN <<[path |-> <<>>, as |-> "index.html"]>>
  ELSE <<[path |-> path, as |-> ""]>>
       \o (IF hasExtension THEN <<>>
           ELSE <<[path |-> path, as |-> ".html"], [path |-> path, as |-> "/index.html"]>>
                \o (IF cleanUrls THEN <<[path |-> path, as |-> ".htm"]>> ELSE <<>>))

(* serveStatic: the first candidate that is a file, 0 if none is.          *)
ServeStatic(files, candidates) == SelectInSeq(candidates, LAMBDA c : c \in files)
=============================================================================
