----------------------------- MODULE MCDiscovery -----------------------------
EXTENDS Discovery

CONSTANTS w, x, a, b

None == [n \in Names |-> {}]
Silent == [i \in Addrs |-> {}]

Plain ==
  [domain |-> {w}, a |-> [None EXCEPT ![w] = {a}], cname |-> None, ns |-> None, ptr |-> Silent,
   block |-> {a, b}, near |-> {a, b}, listening |-> {a}, reserved |-> {}, is |-> {}, kin |-> {}, seeds |-> {w},
   sessions |-> 1, faults |-> 0]

\* The address has a name of another domain, which leads to a neighbour; the netblock is small.
Shared ==
  [Plain EXCEPT !.ptr = [Silent EXCEPT ![a] = {x}], !.a = [None EXCEPT ![w] = {a}, ![x] = {b}],
                !.listening = {b}, !.is = {"ambient", "fillable"}]

\* The netblock belongs to the owner of the domain, and is filled.
Owned == [Plain EXCEPT !.is = {"owned", "fillable"}, !.near = {}, !.listening = {a, b}]

\* The name is an alias of another domain, which has an address in the small netblock, and so has
\* another name that is submitted; the address points back to the alias.
Alias ==
  [Plain EXCEPT !.cname = [None EXCEPT ![w] = {x}], !.a = [None EXCEPT ![x] = {a}],
                !.ptr = [Silent EXCEPT ![a] = {w}], !.is = {"ambient"}]

\* The name has two addresses, one of which is not routable, and a name server next to the other.
Mixed ==
  [Plain EXCEPT !.a = [None EXCEPT ![w] = {a, b}, ![x] = {a}], !.ns = [None EXCEPT ![w] = {x}],
                !.reserved = {b}, !.listening = {a, b}, !.block = {}]

\* Two sessions, over a single address: of a name whose query may fail, or of two names.
Twice == [Plain EXCEPT !.block = {}, !.near = {}, !.sessions = 2, !.seeds = {w, a}]
Lapsed == [Twice EXCEPT !.faults = 1]
Pair == [Twice EXCEPT !.domain = {w, x}, !.a = [None EXCEPT ![w] = {a}, ![x] = {a}], !.seeds = {w, x}]
Again == [Alias EXCEPT !.sessions = 2, !.near = {}]
Faulty == [Owned EXCEPT !.faults = 1]

\* The other domain joins the scope, before or after its name is done; or the netblock does, which
\* is what admits the address of a name out of scope.
Joined == [Shared EXCEPT !.block = {}, !.near = {}, !.is = {}, !.kin = {{x}}]
Bought == [Plain EXCEPT !.kin = {{Block}}, !.near = {}, !.a = [None EXCEPT ![x] = {a}], !.seeds = {x, b},
                        !.listening = {a, b}]

\* The netblock is configured.
Listed == [Bought EXCEPT !.kin = {}, !.is = {"listed"}, !.seeds = {x}]

MCWorlds == {Shared, Mixed, Lapsed, Pair, Again, Faulty, Joined, Bought, Listed}

\* The name server of the name is next to its address, in the small netblock.
NextDoor ==
  [Shared EXCEPT !.ptr = Silent, !.ns = [None EXCEPT ![w] = {x}], !.near = {}, !.listening = {a, b}]
GapWorlds == {NextDoor}
==============================================================================
