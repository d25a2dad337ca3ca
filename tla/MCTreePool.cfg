\* Up to two pools of two or four chunks of four pages (Depth 2).
SPECIFICATION Spec
CONSTANTS
  Depth = 2
  MaxTrees = 2
  ChunkCounts = {2, 4}
  FewBlocks = 2
CONSTRAINT FewOutOfMore
VIEW Heaps
INVARIANTS
  FreeListsSound
  PagesPartitioned
  Coalesced
  LoopsAgree
  AddAgrees
PROPERTY
  ImplementsPagePool
