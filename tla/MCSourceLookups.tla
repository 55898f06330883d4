-------------------------- MODULE MCSourceLookups --------------------------
EXTENDS SourceLookups, TLC
CONSTANTS n1, n2, far, a1, a2
MCContents == a1 :> <<{n1, far}, {n2}>> @@ a2 :> <<{n1}>>
MCBlockOf == a1 :> 1 @@ a2 :> 1
=============================================================================
