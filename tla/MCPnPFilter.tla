---------------------------- MODULE MCPnPFilter ----------------------------
EXTENDS PnPFilter
CONSTANTS t1, t2, t3, child, bus, legacy

Do(do, dev) == [do |-> do, dev |-> dev, rels |-> Null]
Query(dev, rels) == [do |-> "query", dev |-> dev, rels |-> rels]

MCBoot == <<child, bus>>

MCScripts ==
  [t \in Threads |->
     CASE t = t1 -> {<<Do("remove", child), Do("add", child), Do("start", child)>>,
                     <<Do("remove", child), Do("unload", child), Do("fti", child)>>,
                     <<Do("attach", legacy), Do("detach", legacy)>>}
       [] t = t2 -> {<<Query(bus, {<<child>>}), Query(bus, Null)>>, <<Query(child, {<<child>>})>>, <<Query(bus, {<<bus, child>>})>>}
       [] t = t3 -> {<<Do("report", child)>>, <<Query(child, {<<child>>})>>, <<Do("pass", child)>>, <<Do("remove", bus)>>}]
=============================================================================
