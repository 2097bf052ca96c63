------------------------------ MODULE MCXmlDom ------------------------------
EXTENDS XmlDom, TLC

DomSymmetry == Permutations(Nodes) \cup Permutations(Values)
=============================================================================
