------------------------------- MODULE Router -------------------------------
(***************************************************************************)
(* Http::Router, RouteMethod and RouteCallback                             *)
(* (source/wepp/http/router.cpp).                                          *)
(*                                                                         *)
(* A router keeps a tree of directories per method.  A node is named by    *)
(* the directories that lead to it.  Its regularTree and its tagTree are   *)
(* maps from directories to nodes; since a directory has tags or has not,  *)
(* one set of nodes stands for both.  Module RoutePath says how texts      *)
(* become directories and tags regular expressions; what such an           *)
(* expression finds in a directory is the constant Groups.                 *)
(***************************************************************************)
EXTENDS RoutePath

CONSTANTS
  Names,        (* spellings of method names                               *)
  Upper,        (* their upper case: std::transform with toupper           *)
  Routes,       (* paths the program makes routes of, as texts             *)
  Paths,        (* paths that are requested, as texts                      *)
  TagOrder,     (* directories with tags, in the order of std::map         *)
  Groups,       (* Groups[expression][directory]: what regex_search finds, *)
  NoMatch,      (* ... if anything                                         *)
  Callbacks,
  NoCallback,   (* s_defaultCallbackFunc, an empty std::function           *)
  MaxRoutes,    (* bound: RouteCallback objects                            *)
  Symbols,      (* symbols and                                             *)
  MaxLength     (* bound on the length of the texts the loops are tried on *)

RouteDirs == {CutRoute(path) : path \in Routes}

PathDirs == {CutRequest(path) : path \in Paths}

(* The directories with tags, and what the expressions of their nodes find.*)
Tags == {dir \in UNION {Range(route) : route \in RouteDirs} : HasTags(dir)}

SearchOf == [tag \in Tags |-> Groups[NodeDir(tag)]]

(* Texts are sequences of symbols; the groups found are a sequence.        *)
ASSUME RouterAssumption ==
  /\ Upper \in [Names -> Names]
  /\ \A name \in Names : Upper[Upper[name]] = Upper[name]
  /\ \A path \in Routes \cup Paths : path \in Seq(Range(path))
  /\ TagOrder \in Seq(Tags) /\ Range(TagOrder) = Tags
  /\ \A tag \in Tags, path \in PathDirs :
       /\ Range(path) \subseteq DOMAIN SearchOf[tag]
       /\ \A dir \in Range(path) :
            LET groups == SearchOf[tag][dir]
            IN groups # NoMatch => groups \in Seq(Range(groups))
  /\ NoCallback \notin Callbacks /\ MaxRoutes \in Nat /\ MaxLength \in Nat

VARIABLES
  m_methods,      (* the nodes of the tree of each method                  *)
  routeCallback,  (* the RouteCallback objects, by method name and node    *)
  answer,         (* what the last find() returned                         *)
  matches         (* the vector its caller passes again and again          *)

vars == <<m_methods, routeCallback, answer, matches>>

TypeOK ==
  /\ \A name \in DOMAIN m_methods :
       /\ name \in Range(Upper)
       /\ <<>> \in m_methods[name]
       /\ \A node \in m_methods[name] :
            node # <<>> => Front(node) \in m_methods[name]
  /\ \A key \in DOMAIN routeCallback :
       /\ key[1] \in DOMAIN m_methods /\ key[2] \in m_methods[key[1]]
       /\ routeCallback[key] \in Callbacks \cup {NoCallback}
  /\ answer \in Callbacks \cup {NoCallback}

Init ==
  /\ m_methods = <<>> /\ routeCallback = <<>>
  /\ answer = NoCallback /\ matches = <<>>

-----------------------------------------------------------------------------
(* Building the tree.                                                      *)

MethodName(spelling) == Upper[spelling]

(* Router::operator[]: m_methods with the method in it.                    *)
WithMethod(name) ==
  [n \in DOMAIN m_methods \cup {name} |->
     IF n \in DOMAIN m_methods THEN m_methods[n] ELSE {<<>>}]

Method(spelling) ==
  /\ m_methods' = WithMethod(MethodName(spelling))
  /\ UNCHANGED <<routeCallback, answer, matches>>

(* Faulty: the node below is made and the nodes on the way to it are not.  *)
LastNode(route) == {route}

(* The nodes from the root to that of a route, made where they are missing.*)
NodesOf(route) == Prefixes(route)

CallbackAt(key) ==
  IF key \in DOMAIN routeCallback THEN routeCallback[key] ELSE NoCallback

(* A RouteCallback that exists is kept.                                    *)
WithCallback(key) ==
  [k \in DOMAIN routeCallback \cup {key} |-> CallbackAt(k)]

(* router[spelling][path]: a method, nodes and a RouteCallback object for  *)
(* the directories of path.                                                *)
Route(spelling, route) ==
  LET name == MethodName(spelling)
      key  == <<name, route>>
  IN /\ key \in DOMAIN routeCallback
          \/ Cardinality(DOMAIN routeCallback) < MaxRoutes
     /\ m_methods' = [WithMethod(name) EXCEPT ![name] = @ \cup NodesOf(route)]
     /\ routeCallback' = WithCallback(key)
     /\ UNCHANGED <<answer, matches>>

(* RouteCallback::operator=, through the reference that router[...][...]   *)
(* returned: it stays valid as long as the router.                         *)
Assign(key, callback) ==
  /\ routeCallback' = [routeCallback EXCEPT ![key] = callback]
  /\ UNCHANGED <<m_methods, answer, matches>>

-----------------------------------------------------------------------------
(* Searching it.                                                           *)

InRegularTree(tree, node, dir) ==
  Append(node, dir) \in tree /\ ~HasTags(dir)

(* Faulty: only the first tag of a node is tried.                          *)
FirstTagOnly(tree, node, dir) ==
  LET first == {i \in DOMAIN TagOrder : Append(node, TagOrder[i]) \in tree}
  IN {i \in first : i = Min(first) /\ SearchOf[TagOrder[i]][dir] # NoMatch}

(* The entries of the tagTree of a node whose expression is found in dir.  *)
MatchingTags(tree, node, dir) ==
  {i \in DOMAIN TagOrder :
     /\ Append(node, TagOrder[i]) \in tree
     /\ SearchOf[TagOrder[i]][dir] # NoMatch}

(* One iteration of the loop of find(): the regular directory if there is  *)
(* one, else the first tag that matches, else no route.  No way back.      *)
Descend(tree, walk, dir) ==
  LET tags == MatchingTags(tree, walk.node, dir)
      tag  == TagOrder[Min(tags)]
  IN IF InRegularTree(tree, walk.node, dir)
       THEN [walk EXCEPT !.node = Append(@, dir)]
     ELSE IF tags # {}
       THEN [walk EXCEPT !.node = Append(@, tag),
                         !.groups = @ \o SearchOf[tag][dir]]
     ELSE [walk EXCEPT !.failed = TRUE]

(* Faulty: the vector is not cleared.                                      *)
NotCleared == matches

(* matches.clear();                                                        *)
Cleared == <<>>

(* The loop of find(), one iteration for every directory.                  *)
Walk(tree, dirs) ==
  LET walk[i \in 0..Len(dirs)] ==
        IF i = 0
          THEN [node |-> <<>>, groups |-> Cleared, failed |-> FALSE]
        ELSE IF walk[i - 1].failed THEN walk[i - 1]
        ELSE Descend(tree, walk[i - 1], dirs[i])
  IN walk[Len(dirs)]

(* Router::find() with the directories of a path.  The name is compared as *)
(* it is: the server passes that of a Request, whose method() has put it   *)
(* in upper case.  An unknown method leaves matches alone.                 *)
Find(name, path) ==
  /\ IF name \in DOMAIN m_methods
       THEN LET walk == Walk(m_methods[name], path)
            IN /\ answer' = IF walk.failed THEN NoCallback
                            ELSE CallbackAt(<<name, walk.node>>)
               /\ matches' = walk.groups
       ELSE answer' = NoCallback /\ UNCHANGED matches
  /\ UNCHANGED <<m_methods, routeCallback>>

Next ==
  \/ \E spelling \in Names : Method(spelling)
  \/ \E spelling \in Names, route \in RouteDirs : Route(spelling, route)
  \/ \E key \in DOMAIN routeCallback, callback \in Callbacks :
       Assign(key, callback)
  \/ \E name \in Names, path \in PathDirs : Find(name, path)

Spec == Init /\ [][Next]_vars

-----------------------------------------------------------------------------
(* Properties.                                                             *)

Table == INSTANCE RouteTable WITH
  table <- routeCallback, Routes <- RouteDirs, Paths <- PathDirs,
  Groups <- SearchOf

(* Every answer of find() is one the table of routes allows: a callback    *)
(* that was assigned last to a route which the whole path matches, with    *)
(* the groups of its tags from the first to the last and nothing of an     *)
(* earlier call; and a route without tags is found for its own path        *)
(* whatever other routes there are.                                        *)
IsRouteTable == Table!Spec

(* The search does not turn back.  It misses a route that the path matches *)
(* only where, behind directories the two have in common, it went another  *)
(* way: by the directory itself, or by a tag that comes first.             *)
MissedOnlyWhenDiverted ==
  \A key \in DOMAIN routeCallback, path \in PathDirs :
    LET name  == key[1]
        route == key[2]
        walk  == Walk(m_methods[name], path)
    IN Table!RouteMatches(route, path) /\ (walk.failed \/ walk.node # route) =>
         \E k \in DOMAIN route, other \in m_methods[name] :
           /\ Len(other) = k
           /\ SubSeq(other, 1, k - 1) = SubSeq(route, 1, k - 1)
           /\ IsPrefix(other, walk.node)
           /\ other[k] # route[k]
           /\ \/ other[k] = path[k]
              \/ \E i, j \in DOMAIN TagOrder :
                   TagOrder[i] = other[k] /\ TagOrder[j] = route[k] /\ i < j

(* A path is cut at the slashes outside its tags and nowhere else: the     *)
(* expression of a tag, such as <[0/-9]+>, may hold slashes.  A route      *)
(* without tags is cut as find() cuts the same path when it is requested.  *)
CutOutsideTags(s) ==
  /\ WellFormed(s) => CutRoute(s) = OutsideTags(s)
  /\ (\A i \in DOMAIN s : s[i] # "<") => CutRequest(s) = CutRoute(s)

(* The expression of a node is its directory with every tag in the place   *)
(* of a group: the offsets kept over several replacements of different     *)
(* lengths agree, for well-formed texts and others.                        *)
TagsBecomeGroups(s) == NodeDir(s) = Grouped(s)

(* The loops over texts, tried on every short text before the first route  *)
(* is made.                                                                *)
RoutesAreReadAsWritten ==
  m_methods = <<>> =>
    \A s \in BoundedSeq(Symbols, MaxLength) :
      CutOutsideTags(s) /\ TagsBecomeGroups(s)

=============================================================================
