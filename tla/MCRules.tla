------------------------------- MODULE MCRules -------------------------------
(* Instances of Rules for TLC.                                             *)
EXTENDS Rules, TLC

CONSTANTS static, boot, kernel, tblA, tblB, srcX, src6, g1, master, backup, fault

MCPriority == 1 .. 4

On(g, S)    == [group |-> g, states |-> S]
W(p, sel, t, v) == [prio |-> p, sel |-> sel, target |-> t, proto |-> static, vrrp |-> v]
K(p, sel, t, proto) == [prio |-> p, sel |-> sel, target |-> t, proto |-> proto]

\* two rules of one priority, a rule with another table for two states of a
\* group and none for the third, a rule for two states
MCConfig == <<W(1, {srcX}, tblA, None), W(1, {src6}, tblA, None),
              W(2, {srcX}, tblA, On(g1, {master})), W(2, {srcX}, tblB, On(g1, {backup})),
              W(3, {}, tblB, On(g1, {master, backup}))>>

\* rules as wanted, rules of another protocol in the way of a configured one,
\* with another table, and one that is ignored
MCInitialRule == {K(1, {srcX}, tblA, static), K(1, {srcX}, tblA, boot),
                  K(1, {src6}, tblB, static), K(2, {srcX}, tblA, static),
                  K(2, {srcX}, tblB, boot), K(4, {src6}, tblA, kernel)}
=============================================================================
