SPECIFICATION Spec
CONSTANTS
  Geometries <- Volumes
  UFAT_MAX_SECTORS = 4095
PROPERTIES FormattedMounts
