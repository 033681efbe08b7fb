-------------------------- MODULE MCSnapshotEngine --------------------------
\* Values of the constants of SnapshotEngine that a .cfg cannot spell.
EXTENDS SnapshotEngine

MCQuotePairs == {<<400, 404>>, <<0, 404>>}
=============================================================================
