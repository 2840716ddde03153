-------------------------- MODULE MCDeviceDatabase --------------------------
EXTENDS DeviceDatabase, TLC
CONSTANTS t1, t2, w, un, bus, busFilter, child, childFilter, between

New(low, up)      == [do |-> "new", low |-> low, up |-> up, init |-> TRUE, state |-> "Started", rels |-> <<>>]
State(dev, state) == [New(dev, Null) EXCEPT !.do = "state", !.state = state]
Rels(dev, rels)   == [New(dev, Null) EXCEPT !.do = "relations", !.rels = rels]
Middle(low, up)   == [New(low, {up}) EXCEPT !.do = "middle"]
Purge             == [New(bus, Null) EXCEPT !.do = "purge"]

MCBoot == <<<<bus, busFilter>>>>
MCRemoval == (bus :> <<child>>) @@ (child :> <<>>)
MCScripts ==
  [t \in Threads |->
     CASE t = t1 -> {<<Rels(busFilter, <<child>>), State(busFilter, "Deleted"), State(bus, "Deleted")>>,
                     <<New(bus, {busFilter}), Middle(child, between)>>}
       [] t = t2 -> {<<New(child, {childFilter}), State(childFilter, "Started"), State(childFilter, "Deleted"), State(child, "Deleted")>>}
       [] t = un -> {<<Purge>>}
       [] OTHER -> {<<>>}]
=============================================================================
