----------------------------- MODULE RouteTable -----------------------------
(***************************************************************************)
(* What a Router promises to the code that uses it: a table of routes,     *)
(* each with at most one callback, and a find() whose every answer is a    *)
(* route that the path matches, with what its tags stood for.  A route     *)
(* that is, directory by directory, the path itself comes before every     *)
(* other; which of several others is found, or that one of them is found   *)
(* at all, is left open.                                                   *)
(***************************************************************************)
EXTENDS Naturals, SequencesExt

CONSTANTS
  Names,        (* spellings of method names                               *)
  Upper,        (* their upper case, a function on Names                   *)
  Tags,         (* directories that have tags                              *)
  Groups,       (* Groups[tag][directory]: the groups the expression of a  *)
                (* tag finds in a directory, NoMatch if it finds nothing   *)
  NoMatch,
  Routes, Paths,  (* sequences of directories                              *)
  Callbacks, NoCallback

VARIABLES
  table,        (* callbacks of the routes, by method name and directories *)
  answer,       (* the function returned by the last find()                *)
  matches       (* its output parameter                                    *)

vars == <<table, answer, matches>>

Init == table = <<>> /\ answer = NoCallback /\ matches = <<>>

(* router[spelling][route]                                                 *)
Route(spelling, route) ==
  /\ table' = [key \in DOMAIN table \cup {<<Upper[spelling], route>>} |->
                 IF key \in DOMAIN table THEN table[key] ELSE NoCallback]
  /\ UNCHANGED <<answer, matches>>

(* ... = callback                                                          *)
Assign(key, callback) ==
  /\ key \in DOMAIN table
  /\ table' = [table EXCEPT ![key] = callback]
  /\ UNCHANGED <<answer, matches>>

(* A directory of a route: itself, or what its regular expression matches. *)
DirMatches(dir, requested) ==
  IF dir \in Tags THEN Groups[dir][requested] # NoMatch ELSE dir = requested

RouteMatches(route, path) ==
  /\ Len(route) = Len(path)
  /\ \A i \in DOMAIN path : DirMatches(route[i], path[i])

GroupsOf(route, path) ==
  FlattenSeq([i \in DOMAIN path |->
                IF route[i] \in Tags THEN Groups[route[i]][path[i]] ELSE <<>>])

IsPlain(route) == \A i \in DOMAIN route : route[i] \notin Tags

Find(name, path) ==
  /\ \/ \E route \in Routes :
          /\ <<name, route>> \in DOMAIN table
          /\ RouteMatches(route, path)
          /\ IsPlain(path) /\ <<name, path>> \in DOMAIN table => route = path
          /\ answer' = table[<<name, route>>]
          /\ matches' = GroupsOf(route, path)
     \/ /\ ~(IsPlain(path) /\ <<name, path>> \in DOMAIN table)
        /\ answer' = NoCallback
  /\ UNCHANGED table

Next ==
  \/ \E spelling \in Names, route \in Routes : Route(spelling, route)
  \/ \E key \in DOMAIN table, callback \in Callbacks : Assign(key, callback)
  \/ \E name \in Names, path \in Paths : Find(name, path)

Spec == Init /\ [][Next]_vars

=============================================================================
