------------------------------ MODULE MCDotConf ------------------------------
(***************************************************************************)
(* DotConf on all short main files and included files over a few lines:    *)
(* tags opened and closed in and out of turn, on one line or several, keys *)
(* with plain and macro values, continued and unterminated lines, includes *)
(* of each other, of the main file and of a file that is not there.        *)
(***************************************************************************)
EXTENDS DotConf

Plain(s) == [tag |-> "plain", is |-> s, gt |-> FALSE]
Macro(s) == [tag |-> "macro", is |-> s, gt |-> FALSE]
Open(s) == [tag |-> "open", is |-> s, gt |-> TRUE]
Closing(s) == [tag |-> "close", is |-> s, gt |-> TRUE]
Ended(ws) == [words |-> ws, ends |-> "end"]

Key == Ended(<<Plain("k"), Plain("1")>>)
KeyOfMacro == Ended(<<Plain("k"), Macro("m")>>)
KeyOfEnv == Ended(<<Plain("k"), Macro("e")>>)
Continued == [words |-> <<Plain("m")>>, ends |-> "continued"]
Unterminated == [words |-> <<Plain("k")>>, ends |-> "unterminated"]
Includes(fs) == Ended(<<Plain(INCLUDE)>> \o fs)

MainLines == {
    Key, Continued, KeyOfMacro,
    Ended(<<Open("A"), Plain("k"), Plain("1")>>),
    Ended(<<Open("A"), Open("B")>>),
    Ended(<<Closing("A")>>),
    Ended(<<Closing("B"), Closing("A")>>),
    Ended(<<Closing("A"), Closing("B")>>),
    Includes(<<Plain("f"), Plain("g")>>),
    Includes(<<Plain(MAIN), Plain("f")>>)}

IncludedLines == {
    Key, Continued, KeyOfMacro, KeyOfEnv, Unterminated,
    Ended(<<Open("A"), Closing("A")>>),
    Includes(<<Plain("g"), Plain(MAIN)>>),
    Includes(<<Plain("gone")>>)}

LastLines == {Key, Includes(<<Plain("f")>>), Ended(<<Open("A"), Open("A")>>)}

MCDocuments ==
    [{MAIN} -> BoundedSeq(MainLines, 4)] \cup
    {[main |-> m, f |-> f, g |-> g] :
        m \in BoundedSeq(MainLines, 2), f \in BoundedSeq(IncludedLines, 2),
        g \in BoundedSeq(LastLines, 1)}
=============================================================================
