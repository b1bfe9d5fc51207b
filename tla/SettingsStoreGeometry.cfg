SPECIFICATION StoreSpec
CONSTANT MaxWeb = 2
INVARIANT GeometryOnDisk
