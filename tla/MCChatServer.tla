---------------------------- MODULE MCChatServer ----------------------------
(***************************************************************************)
(* Small instances of ChatServer: who may send which lines, and how many.  *)
(***************************************************************************)
EXTENDS ChatServer, TLC

CONSTANTS s1, s2, s3, n1

Csub(n)  == [type |-> "csub", grp_name |-> n]
Sub(g)   == [type |-> "sub", grp |-> g]
Msg(g)   == [type |-> "msg", grp |-> g, msg |-> "text"]
Plain(t) == [type |-> t]

\* s1 opens a room; s2 and s3 join it, and each of them talks or hangs up.
OneRoom == s1 :> {Csub(n1)} @@ [s \in {s2, s3} |-> {Sub(1), Msg(1), Plain("desub")}]
OneAndTwo == s1 :> 1 @@ [s \in {s2, s3} |-> 2]
Twins == Permutations({s2, s3})

\* s1 may get everything wrong that a line can get wrong; s2 opens a room, or
\* joins and talks in one.
AnyLine ==
    s1 :> ({Csub(n1), Csub(Absent), Csub(Malformed)}
             \cup {Sub(g) : g \in {1, 2, -1, Absent, Malformed}}
             \cup {[type |-> "msg", grp |-> g, msg |-> m] :
                      g \in {1, 2, Absent, Malformed}, m \in {"text", "absent", "malformed"}}
             \cup {Plain(t) : t \in {"empty", "unparsable", "untyped", "desub"}})
      @@ s2 :> {Csub(n1), Sub(1), Msg(1)}

\* s1 opens a room and talks in it, s2 listens.
Talk == s1 :> {Csub(n1), Msg(1)} @@ s2 :> {Sub(1)}

\* The same, and s1 says when it leaves.
Goodbye == s1 :> {Csub(n1), Plain("desub")} @@ s2 :> {Sub(1)}

TwoLines == [s \in Sessions |-> 2]
ThreeAndOne == s1 :> 3 @@ s2 :> 1
=============================================================================
