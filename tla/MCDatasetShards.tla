-------------------------- MODULE MCDatasetShards --------------------------
\* One archive of three objects, then a second one of two, in chunks of two.
EXTENDS DatasetShards

CONSTANTS first, second, third, fourth, fifth

MCListings == {<<first, second, third>>, <<first, second, third, fourth, fifth>>}

MCConvertible == {first, second, third, fourth}
=============================================================================
