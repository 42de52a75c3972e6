\* The checksum tools run in any order on the images MCImages, with writes
\* that may fail part-way.
CONSTANTS Images <- MCImages
SPECIFICATION Spec
INVARIANT RomTypeOK
INVARIANT FixSucceeds
